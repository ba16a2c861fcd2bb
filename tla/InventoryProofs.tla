--------------------------- MODULE InventoryProofs ---------------------------
(***************************************************************************)
(* Proofs about Inventory, for every service and page size, any number of  *)
(* failing calls and of repositories created or deleted meanwhile, and     *)
(* links followed for any number of steps.                                 *)
(*                                                                         *)
(* What a list has and what is before it are sets (Held, Pending).  A step *)
(* of the command takes from what is pending only what it comes to hold or *)
(* counts as missed; a step of the service moves at most one repository    *)
(* over the edge of the answered pages.                                    *)
(***************************************************************************)
EXTENDS Inventory, FiniteSetTheorems, SequenceTheorems, TLAPS

-----------------------------------------------------------------------------
(***************************************************************************)
(* What a sequence holds, what it holds twice, and its first members.      *)
(***************************************************************************)
Repeats(s) == {x \in Range(s) : \E i, j \in DOMAIN s : i # j /\ s[i] = x /\ s[j] = x}
First(s, n) == {s[i] : i \in {j \in DOMAIN s : j <= n}}

LEMMA RangeMember ==
    ASSUME NEW s, NEW i \in DOMAIN s
    PROVE  s[i] \in Range(s)
  BY DEF Range

LEMMA RangeIndex ==
    ASSUME NEW s, NEW x \in Range(s)
    PROVE  \E i \in DOMAIN s : s[i] = x
  BY DEF Range

LEMMA ConcatLength ==
    ASSUME NEW T, NEW s \in Seq(T), NEW t \in Seq(T)
    PROVE  s \o t \in Seq(T) /\ Len(s \o t) = Len(s) + Len(t) /\ DOMAIN (s \o t) = 1 .. Len(s) + Len(t)
  OBVIOUS

LEMMA ConcatIndex ==
    ASSUME NEW T, NEW s \in Seq(T), NEW t \in Seq(T), NEW i \in DOMAIN (s \o t)
    PROVE  \/ i \in DOMAIN s /\ (s \o t)[i] = s[i]
           \/ i - Len(s) \in DOMAIN t /\ i \notin DOMAIN s /\ (s \o t)[i] = t[i - Len(s)]
  OBVIOUS

LEMMA IndexConcat ==
    ASSUME NEW T, NEW s \in Seq(T), NEW t \in Seq(T)
    PROVE  /\ \A i \in DOMAIN s : i \in DOMAIN (s \o t) /\ (s \o t)[i] = s[i]
           /\ \A i \in DOMAIN t : /\ i + Len(s) \in DOMAIN (s \o t) /\ i + Len(s) \notin DOMAIN s
                                  /\ (s \o t)[i + Len(s)] = t[i]
<1>1. /\ s \o t \in Seq(T) /\ Len(s \o t) = Len(s) + Len(t) /\ Len(s) \in Nat /\ Len(t) \in Nat
      /\ DOMAIN s = 1 .. Len(s) /\ DOMAIN t = 1 .. Len(t) /\ DOMAIN (s \o t) = 1 .. Len(s) + Len(t)
  OBVIOUS
<1>2. \A i \in DOMAIN s : i \in DOMAIN (s \o t) /\ (s \o t)[i] = s[i]
  BY <1>1
<1>3. ASSUME NEW i \in DOMAIN t
      PROVE  i + Len(s) \in DOMAIN (s \o t) /\ i + Len(s) \notin DOMAIN s /\ (s \o t)[i + Len(s)] = t[i]
  BY <1>1
<1>. QED
  BY <1>2, <1>3

LEMMA RangeConcat ==
    ASSUME NEW T, NEW s \in Seq(T), NEW t \in Seq(T)
    PROVE  Range(s \o t) = Range(s) \cup Range(t)
<1>1. ASSUME NEW x \in Range(s \o t) PROVE x \in Range(s) \cup Range(t)
  <2>1. PICK i \in DOMAIN (s \o t) : (s \o t)[i] = x
    BY RangeIndex
  <2>. QED
    BY <2>1, ConcatIndex, RangeMember
<1>2. ASSUME NEW x \in Range(s) PROVE x \in Range(s \o t)
  <2>1. PICK i \in DOMAIN s : s[i] = x
    BY RangeIndex
  <2>2. i \in DOMAIN (s \o t) /\ (s \o t)[i] = x
    BY <2>1, IndexConcat
  <2>. QED
    BY <2>2, RangeMember
<1>3. ASSUME NEW x \in Range(t) PROVE x \in Range(s \o t)
  <2>1. PICK i \in DOMAIN t : t[i] = x
    BY RangeIndex
  <2>2. i + Len(s) \in DOMAIN (s \o t) /\ (s \o t)[i + Len(s)] = x
    BY <2>1, IndexConcat
  <2>. QED
    BY <2>2, RangeMember
<1>. QED
  BY <1>1, <1>2, <1>3

LEMMA RepeatsConcat ==
    ASSUME NEW T, NEW s \in Seq(T), NEW t \in Seq(T)
    PROVE  Repeats(s \o t) = Repeats(s) \cup Repeats(t) \cup (Range(s) \cap Range(t))
<1>1. ASSUME NEW x \in Repeats(s \o t)
      PROVE  x \in Repeats(s) \cup Repeats(t) \cup (Range(s) \cap Range(t))
  <2>1. PICK i \in DOMAIN (s \o t), j \in DOMAIN (s \o t) :
            i # j /\ (s \o t)[i] = x /\ (s \o t)[j] = x
    BY DEF Repeats
  <2>2. CASE i \in DOMAIN s /\ j \in DOMAIN s
    <3>1. s[i] = x /\ s[j] = x
      BY <2>1, <2>2, ConcatIndex
    <3>. QED
      BY <2>1, <2>2, <3>1, RangeMember DEF Repeats
  <2>3. CASE i \notin DOMAIN s /\ j \notin DOMAIN s
    <3>1. /\ i - Len(s) \in DOMAIN t /\ j - Len(s) \in DOMAIN t
          /\ t[i - Len(s)] = x /\ t[j - Len(s)] = x
      BY <2>1, <2>3, ConcatIndex
    <3>2. i - Len(s) # j - Len(s)
      BY <2>1
    <3>. QED
      BY <3>1, <3>2, RangeMember DEF Repeats
  <2>4. CASE (i \in DOMAIN s /\ j \notin DOMAIN s) \/ (j \in DOMAIN s /\ i \notin DOMAIN s)
    <3>1. x \in Range(s) /\ x \in Range(t)
      BY <2>1, <2>4, ConcatIndex, RangeMember
    <3>. QED
      BY <3>1
  <2>. QED
    BY <2>2, <2>3, <2>4
<1>2. ASSUME NEW x \in Repeats(s) PROVE x \in Repeats(s \o t)
  <2>1. PICK i \in DOMAIN s, j \in DOMAIN s : i # j /\ s[i] = x /\ s[j] = x
    BY DEF Repeats
  <2>2. /\ i \in DOMAIN (s \o t) /\ (s \o t)[i] = x
        /\ j \in DOMAIN (s \o t) /\ (s \o t)[j] = x
    BY <2>1, IndexConcat
  <2>. QED
    BY <2>1, <2>2, RangeMember DEF Repeats
<1>3. ASSUME NEW x \in Repeats(t) PROVE x \in Repeats(s \o t)
  <2>1. PICK i \in DOMAIN t, j \in DOMAIN t : i # j /\ t[i] = x /\ t[j] = x
    BY DEF Repeats
  <2>2. /\ i + Len(s) \in DOMAIN (s \o t) /\ j + Len(s) \in DOMAIN (s \o t)
        /\ (s \o t)[i + Len(s)] = x /\ (s \o t)[j + Len(s)] = x
    BY <2>1, IndexConcat
  <2>3. i + Len(s) # j + Len(s)
    <3>1. i \in Nat /\ j \in Nat /\ Len(s) \in Nat
      OBVIOUS
    <3>. QED
      BY <2>1, <3>1
  <2>. QED
    BY <2>2, <2>3, RangeMember DEF Repeats
<1>4. ASSUME NEW x \in Range(s) \cap Range(t) PROVE x \in Repeats(s \o t)
  <2>1. PICK i \in DOMAIN s : s[i] = x
    BY RangeIndex
  <2>2. PICK j \in DOMAIN t : t[j] = x
    BY RangeIndex
  <2>3. /\ i \in DOMAIN (s \o t) /\ (s \o t)[i] = x
        /\ j + Len(s) \in DOMAIN (s \o t) /\ (s \o t)[j + Len(s)] = x /\ j + Len(s) # i
    BY <2>1, <2>2, IndexConcat
  <2>. QED
    BY <2>3, RangeMember DEF Repeats
<1>. QED
  BY <1>1, <1>2, <1>3, <1>4

LEMMA Joined ==
    ASSUME NEW T, NEW s \in Seq(T), NEW t \in Seq(T)
    PROVE  /\ s \o t \in Seq(T)
           /\ Range(s \o t) = Range(s) \cup Range(t)
           /\ Repeats(s \o t) = Repeats(s) \cup Repeats(t) \cup (Range(s) \cap Range(t))
<1>1. s \o t \in Seq(T)
  OBVIOUS
<1>2. Range(s \o t) = Range(s) \cup Range(t)
  BY RangeConcat
<1>3. Repeats(s \o t) = Repeats(s) \cup Repeats(t) \cup (Range(s) \cap Range(t))
  BY RepeatsConcat
<1>. QED
  BY <1>1, <1>2, <1>3

LEMMA Empty ==
    /\ Range(<<>>) = {} /\ Repeats(<<>>) = {}
    /\ \A x : Range(<<x>>) = {x} /\ Repeats(<<x>>) = {}
<1>1. DOMAIN <<>> = {} /\ \A x : DOMAIN <<x>> = {1} /\ <<x>>[1] = x
  OBVIOUS
<1>. QED
  BY <1>1 DEF Range, Repeats

LEMMA RangeAppend ==
    ASSUME NEW T, NEW s \in Seq(T), NEW x \in T
    PROVE  /\ Range(Append(s, x)) = Range(s) \cup {x}
           /\ Repeats(Append(s, x)) = Repeats(s) \cup (Range(s) \cap {x})
<1>1. Append(s, x) = s \o <<x>> /\ <<x>> \in Seq(T)
  OBVIOUS
<1>2. Range(s \o <<x>>) = Range(s) \cup Range(<<x>>)
  BY <1>1, RangeConcat
<1>3. Repeats(s \o <<x>>) = Repeats(s) \cup Repeats(<<x>>) \cup (Range(s) \cap Range(<<x>>))
  BY <1>1, RepeatsConcat
<1>. QED
  BY <1>1, <1>2, <1>3, Empty

LEMMA RangeTail ==
    ASSUME NEW T, NEW s \in Seq(T), s # <<>>
    PROVE  /\ Tail(s) \in Seq(T) /\ Head(s) \in T
           /\ Range(s) = {Head(s)} \cup Range(Tail(s))
           /\ Repeats(s) = Repeats(Tail(s)) \cup ({Head(s)} \cap Range(Tail(s)))
<1>1. s = <<Head(s)>> \o Tail(s) /\ <<Head(s)>> \in Seq(T) /\ Tail(s) \in Seq(T) /\ Head(s) \in T
  OBVIOUS
<1>2. Range(<<Head(s)>> \o Tail(s)) = Range(<<Head(s)>>) \cup Range(Tail(s))
  BY <1>1, RangeConcat
<1>3. Repeats(<<Head(s)>> \o Tail(s))
        = Repeats(<<Head(s)>>) \cup Repeats(Tail(s)) \cup (Range(<<Head(s)>>) \cap Range(Tail(s)))
  BY <1>1, RepeatsConcat
<1>. QED
  BY <1>1, <1>2, <1>3, Empty

LEMMA NoRepeats ==
    ASSUME NEW T, NEW s \in Seq(T)
    PROVE  IsInjective(s) <=> Repeats(s) = {}
<1>1. ASSUME IsInjective(s), NEW x \in Repeats(s) PROVE FALSE
  BY <1>1 DEF IsInjective, Repeats
<1>2. ASSUME Repeats(s) = {}, NEW i \in DOMAIN s, NEW j \in DOMAIN s, s[i] = s[j] PROVE i = j
  BY <1>2, RangeMember DEF Repeats
<1>. QED
  BY <1>1, <1>2 DEF IsInjective

LEMMA MinTwo ==
    ASSUME NEW a \in Int, NEW b \in Int
    PROVE  Min({a, b}) = IF a <= b THEN a ELSE b
<1>1. \E x \in {a, b} : \A y \in {a, b} : x <= y
  OBVIOUS
<1>2. Min({a, b}) \in {a, b} /\ \A y \in {a, b} : Min({a, b}) <= y
  BY <1>1 DEF Min
<1>. QED
  BY <1>2

\* The first members grow with their number, from none to all.
LEMMA FirstMembers ==
    ASSUME NEW T, NEW s \in Seq(T), NEW a \in Nat, NEW b \in Nat, a <= b
    PROVE  /\ First(s, a) \subseteq First(s, b) /\ First(s, b) \subseteq Range(s)
           /\ First(s, 0) = {}
           /\ Len(s) <= b => First(s, b) = Range(s)
<1>1. First(s, a) \subseteq First(s, b)
  BY DEF First
<1>2. First(s, b) \subseteq Range(s)
  BY DEF First, Range
<1>3. First(s, 0) = {}
  BY DEF First
<1>4. ASSUME Len(s) <= b PROVE First(s, b) = Range(s)
  <2>1. \A j \in DOMAIN s : j <= b
    BY <1>4
  <2>. QED
    BY <2>1 DEF First, Range
<1>. QED
  BY <1>1, <1>2, <1>3, <1>4

\* A slice of a sequence holds what is among the first b, and not the first a.
LEMMA Slice ==
    ASSUME NEW T, NEW s \in Seq(T), IsInjective(s), NEW a \in Nat, NEW b \in Nat, a <= b
    PROVE  LET p == SubSeq(s, a + 1, Min({b, Len(s)}))
           IN  p \in Seq(T) /\ IsInjective(p) /\ Range(p) = First(s, b) \ First(s, a)
<1>. DEFINE m == IF b <= Len(s) THEN b ELSE Len(s)
            p == SubSeq(s, a + 1, m)
            size == IF a + 1 <= m THEN m - a ELSE 0
<1>1. Min({b, Len(s)}) = m
  BY MinTwo
<1>2. m \in Nat /\ m <= Len(s) /\ m <= b /\ Len(s) \in Nat /\ DOMAIN s = 1 .. Len(s)
  OBVIOUS
<1>3. p \in Seq(T) /\ Len(p) = size /\ DOMAIN p = 1 .. size
  <2>1. \A k \in a + 1 .. m : s[k] \in T
    BY <1>2
  <2>. QED
    BY <1>2, <2>1
<1>4. \A k \in DOMAIN p : a + k \in DOMAIN s /\ p[k] = s[a + k] /\ a + k <= b /\ a + k > a /\ k \in Nat
  BY <1>2, <1>3
<1>5. IsInjective(p)
  <2>1. ASSUME NEW i \in DOMAIN p, NEW j \in DOMAIN p, p[i] = p[j] PROVE i = j
    <3>1. a + i \in DOMAIN s /\ a + j \in DOMAIN s /\ s[a + i] = s[a + j] /\ i \in Nat /\ j \in Nat
      BY <1>4, <2>1
    <3>2. a + i = a + j
      BY <3>1 DEF IsInjective
    <3>. QED
      BY <3>1, <3>2
  <2>. QED
    BY <2>1 DEF IsInjective
<1>6. ASSUME NEW x \in Range(p) PROVE x \in First(s, b) \ First(s, a)
  <2>1. PICK k \in DOMAIN p : p[k] = x
    BY RangeIndex
  <2>2. a + k \in DOMAIN s /\ x = s[a + k] /\ a + k <= b /\ a + k > a
    BY <1>4, <2>1
  <2>3. x \in First(s, b)
    BY <2>2 DEF First
  <2>4. ASSUME x \in First(s, a) PROVE FALSE
    <3>1. PICK j \in DOMAIN s : j <= a /\ s[j] = x
      BY <2>4 DEF First
    <3>2. j = a + k
      BY <2>2, <3>1 DEF IsInjective
    <3>. QED
      BY <2>2, <3>1, <3>2
  <2>. QED
    BY <2>3, <2>4
<1>7. ASSUME NEW x \in First(s, b) \ First(s, a) PROVE x \in Range(p)
  <2>1. PICK j \in DOMAIN s : j <= b /\ s[j] = x
    BY DEF First
  <2>2. j > a
    BY <2>1 DEF First
  <2>3. j - a \in DOMAIN p
    BY <1>2, <1>3, <2>1, <2>2
  <2>4. p[j - a] = s[a + (j - a)] /\ a + (j - a) = j
    BY <1>2, <1>4, <2>1, <2>3
  <2>. QED
    BY <2>1, <2>3, <2>4, RangeMember
<1>. QED
  BY <1>1, <1>3, <1>5, <1>6, <1>7

LEMMA Edges ==
    ASSUME NEW n \in Nat
    PROVE  /\ n * PageSize \in Nat /\ (n + 1) * PageSize \in Nat /\ n * PageSize <= (n + 1) * PageSize
           /\ 0 * PageSize = 0 /\ 1 * PageSize = PageSize /\ PageSize \in Nat
<1>1. PageSize \in Nat
  BY ServicesAssumption
<1>2. n * PageSize \in Nat /\ (n + 1) * PageSize = n * PageSize + PageSize
  BY <1>1
<1>. QED
  BY <1>1, <1>2

\* A page holds what the answered pages did not, up to its end.
LEMMA PageHolds ==
    ASSUME NEW T, NEW s \in Seq(T), IsInjective(s), NEW n \in Nat
    PROVE  /\ Page(s, n) \in Seq(T)
           /\ Repeats(Page(s, n)) = {}
           /\ Range(Page(s, n)) = First(s, (n + 1) * PageSize) \ First(s, n * PageSize)
           /\ ~More(s, n) => First(s, (n + 1) * PageSize) = Range(s)
<1>1. /\ n * PageSize \in Nat /\ (n + 1) * PageSize \in Nat /\ n * PageSize <= (n + 1) * PageSize
  BY Edges
<1>2. /\ Page(s, n) \in Seq(T) /\ IsInjective(Page(s, n))
      /\ Range(Page(s, n)) = First(s, (n + 1) * PageSize) \ First(s, n * PageSize)
  BY <1>1, Slice DEF Page
<1>3. Repeats(Page(s, n)) = {}
  BY <1>2, NoRepeats
<1>4. ~More(s, n) => First(s, (n + 1) * PageSize) = Range(s)
  BY <1>1, FirstMembers DEF More
<1>. QED
  BY <1>2, <1>3, <1>4

LEMMA FirstPageHolds ==
    ASSUME NEW T, NEW s \in Seq(T), IsInjective(s)
    PROVE  FirstPage(s) \in Seq(T) /\ Repeats(FirstPage(s)) = {} /\ Range(FirstPage(s)) = First(s, PageSize)
<1>1. /\ FirstPage(s) \in Seq(T) /\ Repeats(FirstPage(s)) = {}
      /\ Range(FirstPage(s)) = First(s, (0 + 1) * PageSize) \ First(s, 0 * PageSize)
  BY PageHolds DEF FirstPage
<1>2. (0 + 1) * PageSize = PageSize /\ 0 * PageSize = 0
  BY Edges
<1>3. First(s, 0) = {}
  BY FirstMembers
<1>. QED
  BY <1>1, <1>2, <1>3

\* One member less: at most one of the others moves among the first n.
LEMMA Removed ==
    ASSUME NEW T, NEW s \in Seq(T), IsInjective(s), NEW i \in 1 .. Len(s)
    PROVE  LET t == RemoveAt(s, i)
           IN  /\ t \in Seq(T) /\ IsInjective(t) /\ Range(t) = Range(s) \ {s[i]}
               /\ \A n \in Nat : /\ First(s, n) \ {s[i]} \subseteq First(t, n)
                                 /\ \E x : First(t, n) \subseteq First(s, n) \cup {x}
<1>. DEFINE t == RemoveAt(s, i)
            l == Len(s)
            u == SubSeq(s, 1, i - 1)
            v == SubSeq(s, i + 1, l)
<1>1. l \in Nat /\ i \in Nat /\ 1 <= i /\ i <= l /\ DOMAIN s = 1 .. l /\ \A k \in 1 .. l : s[k] \in T
  OBVIOUS
<1>2. u \in Seq(T) /\ Len(u) = i - 1 /\ \A k \in 1 .. i - 1 : u[k] = s[k]
  BY <1>1
<1>3. v \in Seq(T) /\ Len(v) = l - i /\ \A k \in 1 .. l - i : v[k] = s[i + k]
  <2>1. v \in Seq(T) /\ Len(v) = l - i
    <3>1. \A k \in i + 1 .. l : s[k] \in T
      BY <1>1
    <3>2. v \in Seq(T)
      BY <1>1, <3>1
    <3>3. Len(v) = IF i + 1 <= l THEN l - (i + 1) + 1 ELSE 0
      BY <1>1
    <3>. HIDE DEF v, l
    <3>. QED
      BY <1>1, <3>2, <3>3
  <2>2. ASSUME NEW k \in 1 .. l - i PROVE v[k] = s[i + k]
    <3>1. v[k] = s[(i + 1) + k - 1] /\ (i + 1) + k - 1 = i + k
      BY <1>1
    <3>. QED
      BY <3>1
  <2>. QED
    BY <2>1, <2>2
<1>. HIDE DEF u, v
<1>4. /\ t \in Seq(T) /\ Len(t) = l - 1 /\ DOMAIN t = 1 .. l - 1
      /\ \A k \in 1 .. i - 1 : t[k] = u[k]
      /\ \A k \in i .. l - 1 : t[k] = v[k - (i - 1)]
  <2>1. t = u \o v
    BY DEF RemoveAt, u, v
  <2>. HIDE DEF t
  <2>2. t \in Seq(T) /\ Len(t) = l - 1 /\ DOMAIN t = 1 .. l - 1
    <3>1. t \in Seq(T) /\ Len(t) = Len(u) + Len(v) /\ DOMAIN t = 1 .. Len(u) + Len(v)
      BY <1>2, <1>3, <2>1, ConcatLength
    <3>2. Len(u) + Len(v) = l - 1
      BY <1>1, <1>2, <1>3
    <3>. QED
      BY <3>1, <3>2
  <2>3. \A k \in 1 .. i - 1 : t[k] = u[k]
    BY <1>1, <1>2, <1>3, <2>1
  <2>4. \A k \in i .. l - 1 : t[k] = v[k - (i - 1)]
    BY <1>1, <1>2, <1>3, <2>1
  <2>. QED
    BY <2>2, <2>3, <2>4
<1>. HIDE DEF t
<1>5. ASSUME NEW k \in 1 .. l - 1 PROVE t[k] = IF k < i THEN s[k] ELSE s[k + 1]
  <2>1. CASE k < i
    BY <1>1, <1>2, <1>4, <2>1
  <2>2. CASE ~(k < i)
    <3>1. t[k] = v[k - (i - 1)]
      BY <1>1, <1>4, <2>2
    <3>2. k - (i - 1) \in 1 .. l - i /\ i + (k - (i - 1)) = k + 1
      BY <1>1, <2>2
    <3>. QED
      BY <1>3, <2>2, <3>1, <3>2
  <2>. QED
    BY <2>1, <2>2
<1>6. ASSUME NEW j \in 1 .. l, j # i
      PROVE  \E k \in 1 .. l - 1 : k <= j /\ t[k] = s[j]
  <2>1. CASE j < i
    BY <1>1, <1>5, <2>1
  <2>2. CASE j > i
    <3>1. j - 1 \in 1 .. l - 1 /\ ~(j - 1 < i) /\ (j - 1) + 1 = j
      BY <1>1, <2>2
    <3>2. t[j - 1] = s[j]
      BY <1>5, <3>1
    <3>. QED
      BY <3>1, <3>2
  <2>. QED
    BY <1>1, <1>6, <2>1, <2>2
<1>7. IsInjective(t)
  <2>1. ASSUME NEW j \in 1 .. l - 1, NEW k \in 1 .. l - 1, t[j] = t[k] PROVE j = k
    <3>. DEFINE o(x) == IF x < i THEN x ELSE x + 1
    <3>1. o(j) \in 1 .. l /\ o(k) \in 1 .. l /\ s[o(j)] = t[j] /\ s[o(k)] = t[k]
      BY <1>1, <1>5
    <3>2. o(j) = o(k)
      <4>. HIDE DEF o
      <4>. QED
        BY <1>1, <2>1, <3>1 DEF IsInjective
    <3>. QED
      BY <1>1, <3>2
  <2>. QED
    BY <1>4, <2>1 DEF IsInjective
<1>8. ASSUME NEW k \in 1 .. l - 1 PROVE t[k] \in Range(s) /\ t[k] # s[i]
  <2>1. PICK j \in 1 .. l : t[k] = s[j] /\ j # i
    BY <1>1, <1>5
  <2>. QED
    BY <1>1, <2>1, RangeMember DEF IsInjective
<1>9. Range(t) = Range(s) \ {s[i]}
  <2>1. ASSUME NEW x \in Range(t) PROVE x \in Range(s) \ {s[i]}
    BY <1>4, <1>8 DEF Range
  <2>2. ASSUME NEW x \in Range(s), x # s[i] PROVE x \in Range(t)
    <3>1. PICK j \in 1 .. l : s[j] = x
      BY <1>1, RangeIndex
    <3>2. PICK k \in 1 .. l - 1 : t[k] = s[j]
      BY <1>6, <2>2, <3>1
    <3>. QED
      BY <1>4, <3>1, <3>2, RangeMember
  <2>. QED
    BY <2>1, <2>2
<1>10. ASSUME NEW n \in Nat
       PROVE  /\ First(s, n) \ {s[i]} \subseteq First(t, n)
              /\ \E x : First(t, n) \subseteq First(s, n) \cup {x}
  <2>1. ASSUME NEW x \in First(s, n), x # s[i] PROVE x \in First(t, n)
    <3>1. PICK j \in 1 .. l : j <= n /\ s[j] = x
      BY <1>1 DEF First
    <3>2. PICK k \in 1 .. l - 1 : k <= j /\ t[k] = s[j]
      BY <1>6, <2>1, <3>1
    <3>3. k <= n
      BY <1>1, <3>1, <3>2
    <3>. QED
      BY <1>4, <3>1, <3>2, <3>3 DEF First
  <2>2. ASSUME NEW x \in First(t, n) PROVE x \in First(s, n) \cup {s[n + 1]}
    <3>1. PICK k \in 1 .. l - 1 : k <= n /\ t[k] = x
      BY <1>4 DEF First
    <3>2. CASE k < i
      BY <1>1, <1>5, <3>1, <3>2 DEF First
    <3>3. CASE ~(k < i) /\ k < n
      <4>1. x = s[k + 1] /\ k + 1 \in DOMAIN s /\ k + 1 <= n
        BY <1>1, <1>5, <3>1, <3>3
      <4>. QED
        BY <4>1 DEF First
    <3>4. CASE ~(k < i) /\ k = n
      BY <1>5, <3>1, <3>4
    <3>. QED
      BY <1>1, <3>1, <3>2, <3>3, <3>4
  <2>. QED
    BY <2>1, <2>2
<1>. QED
  BY <1>4, <1>7, <1>9, <1>10 DEF t

\* One member more: at most one of the others moves from the first n.
LEMMA Inserted ==
    ASSUME NEW T, NEW s \in Seq(T), IsInjective(s), NEW i \in 1 .. Len(s) + 1,
           NEW r \in T, r \notin Range(s)
    PROVE  LET t == InsertAt(s, i, r)
           IN  /\ t \in Seq(T) /\ IsInjective(t) /\ Range(t) = Range(s) \cup {r}
               /\ \A n \in Nat : /\ First(t, n) \subseteq First(s, n) \cup {r}
                                 /\ \E x : First(s, n) \ {x} \subseteq First(t, n)
<1>. DEFINE t == InsertAt(s, i, r)
            l == Len(s)
            front == SubSeq(s, 1, i - 1)
            u == front \o <<r>>
            v == SubSeq(s, i, l)
<1>1. l \in Nat /\ i \in Nat /\ 1 <= i /\ i <= l + 1 /\ DOMAIN s = 1 .. l /\ \A k \in 1 .. l : s[k] \in T
  OBVIOUS
<1>2. front \in Seq(T) /\ Len(front) = i - 1 /\ \A k \in 1 .. i - 1 : front[k] = s[k]
  BY <1>1
<1>3. v \in Seq(T) /\ Len(v) = l - i + 1 /\ \A k \in 1 .. l - i + 1 : v[k] = s[i + k - 1]
  BY <1>1
<1>. HIDE DEF front, v
<1>4. u \in Seq(T) /\ Len(u) = i /\ u[i] = r /\ \A k \in 1 .. i - 1 : u[k] = s[k]
  BY <1>1, <1>2
<1>5. t = u \o v
  BY DEF InsertAt, front, v
<1>. HIDE DEF u, t
<1>6. /\ t \in Seq(T) /\ Len(t) = l + 1 /\ DOMAIN t = 1 .. l + 1
      /\ \A k \in 1 .. i : t[k] = u[k]
      /\ \A k \in i + 1 .. l + 1 : t[k] = v[k - i]
  BY <1>1, <1>3, <1>4, <1>5
<1>7. ASSUME NEW k \in 1 .. l + 1
      PROVE  /\ k < i => t[k] = s[k]
             /\ k = i => t[k] = r
             /\ k > i => t[k] = s[k - 1]
  <2>1. CASE k <= i
    BY <1>1, <1>4, <1>6, <2>1
  <2>2. CASE k > i
    <3>1. t[k] = v[k - i]
      BY <1>1, <1>6, <2>2
    <3>2. k - i \in 1 .. l - i + 1 /\ i + (k - i) - 1 = k - 1
      BY <1>1, <2>2
    <3>. QED
      BY <1>3, <2>2, <3>1, <3>2
  <2>. QED
    BY <1>1, <2>1, <2>2
<1>8. ASSUME NEW j \in 1 .. l
      PROVE  /\ j < i => t[j] = s[j] /\ j \in 1 .. l + 1
             /\ ~(j < i) => t[j + 1] = s[j] /\ j + 1 \in 1 .. l + 1
  <2>1. CASE j < i
    BY <1>1, <1>7, <2>1
  <2>2. CASE ~(j < i)
    <3>1. j + 1 \in 1 .. l + 1 /\ j + 1 > i /\ (j + 1) - 1 = j
      BY <1>1, <2>2
    <3>2. t[j + 1] = s[(j + 1) - 1]
      BY <1>7, <3>1
    <3>. QED
      BY <2>2, <3>1, <3>2
  <2>. QED
    BY <2>1, <2>2
<1>9. \A k \in 1 .. l + 1 : t[k] = r <=> k = i
  <2>1. ASSUME NEW k \in 1 .. l + 1, k # i PROVE t[k] \in Range(s)
    <3>1. CASE k < i
      BY <1>1, <1>7, <3>1, RangeMember
    <3>2. CASE k > i
      <4>1. k - 1 \in DOMAIN s
        BY <1>1, <3>2
      <4>. QED
        BY <1>7, <3>2, <4>1, RangeMember
    <3>. QED
      BY <1>1, <2>1, <3>1, <3>2
  <2>. QED
    BY <1>7, <2>1
<1>10. IsInjective(t)
  <2>1. ASSUME NEW j \in 1 .. l + 1, NEW k \in 1 .. l + 1, t[j] = t[k] PROVE j = k
    <3>1. CASE j = i \/ k = i
      BY <1>9, <2>1, <3>1
    <3>2. CASE j # i /\ k # i
      <4>. DEFINE o(x) == IF x < i THEN x ELSE x - 1
      <4>1. o(j) \in 1 .. l /\ o(k) \in 1 .. l /\ s[o(j)] = t[j] /\ s[o(k)] = t[k]
        BY <1>1, <1>7, <3>2
      <4>2. o(j) = o(k)
        <5>. HIDE DEF o
        <5>. QED
          BY <1>1, <2>1, <4>1 DEF IsInjective
      <4>. QED
        BY <1>1, <3>2, <4>2
    <3>. QED
      BY <3>1, <3>2
  <2>. QED
    BY <1>6, <2>1 DEF IsInjective
<1>11. Range(t) = Range(s) \cup {r}
  <2>1. ASSUME NEW x \in Range(t) PROVE x \in Range(s) \cup {r}
    <3>1. PICK k \in 1 .. l + 1 : t[k] = x
      BY <1>6, RangeIndex
    <3>2. CASE k < i
      BY <1>1, <1>7, <3>1, <3>2, RangeMember
    <3>3. CASE k > i
      <4>1. k - 1 \in DOMAIN s
        BY <1>1, <3>3
      <4>. QED
        BY <1>7, <3>1, <3>3, <4>1, RangeMember
    <3>. QED
      BY <1>1, <1>7, <3>1, <3>2, <3>3
  <2>2. r \in Range(t)
    <3>1. i \in DOMAIN t /\ t[i] = r
      BY <1>1, <1>6, <1>7
    <3>. QED
      BY <3>1, RangeMember
  <2>3. ASSUME NEW x \in Range(s) PROVE x \in Range(t)
    <3>1. PICK j \in 1 .. l : s[j] = x
      BY <1>1, RangeIndex
    <3>2. CASE j < i
      BY <1>6, <1>8, <3>1, <3>2, RangeMember
    <3>3. CASE ~(j < i)
      BY <1>6, <1>8, <3>1, <3>3, RangeMember
    <3>. QED
      BY <3>2, <3>3
  <2>. QED
    BY <2>1, <2>2, <2>3
<1>12. ASSUME NEW n \in Nat
       PROVE  /\ First(t, n) \subseteq First(s, n) \cup {r}
              /\ \E x : First(s, n) \ {x} \subseteq First(t, n)
  <2>1. ASSUME NEW x \in First(t, n) PROVE x \in First(s, n) \cup {r}
    <3>1. PICK k \in 1 .. l + 1 : k <= n /\ t[k] = x
      BY <1>6 DEF First
    <3>2. CASE k < i
      <4>1. k \in DOMAIN s /\ s[k] = x
        BY <1>1, <1>7, <3>1, <3>2
      <4>. QED
        BY <3>1, <4>1 DEF First
    <3>3. CASE k > i
      <4>1. k - 1 \in DOMAIN s /\ k - 1 <= n /\ s[k - 1] = x
        BY <1>1, <1>7, <3>1, <3>3
      <4>. QED
        BY <4>1 DEF First
    <3>. QED
      BY <1>1, <1>7, <3>1, <3>2, <3>3
  <2>2. ASSUME NEW x \in First(s, n), x # s[n] PROVE x \in First(t, n)
    <3>1. PICK j \in 1 .. l : j <= n /\ s[j] = x
      BY <1>1 DEF First
    <3>2. CASE j < i
      BY <1>6, <1>8, <3>1, <3>2 DEF First
    <3>3. CASE ~(j < i)
      <4>1. j + 1 \in DOMAIN t /\ j + 1 <= n /\ t[j + 1] = x
        BY <1>6, <1>8, <2>2, <3>1, <3>3
      <4>. QED
        BY <4>1 DEF First
    <3>. QED
      BY <3>2, <3>3
  <2>. QED
    BY <2>1, <2>2
<1>. QED
  BY <1>6, <1>10, <1>11, <1>12 DEF t

-----------------------------------------------------------------------------
(***************************************************************************)
(* Paths of groups.                                                        *)
(***************************************************************************)
\* A prefix, member by member.
LEMMA PrefixMembers ==
    ASSUME NEW g \in Seq(Names), NEW h \in Seq(Names)
    PROVE  IsPrefix(g, h) <=> Len(g) <= Len(h) /\ \A i \in 1 .. Len(g) : g[i] = h[i]
<1>. DEFINE a == SubSeq(g, 1, Len(g))
            b == SubSeq(h, 1, Len(g))
<1>1. ASSUME Len(g) <= Len(h) PROVE a = b <=> \A i \in 1 .. Len(g) : g[i] = h[i]
  <2>1. a \in Seq(Names) /\ Len(a) = Len(g) /\ \A i \in 1 .. Len(g) : a[i] = g[i]
    OBVIOUS
  <2>2. b \in Seq(Names) /\ Len(b) = Len(g) /\ \A i \in 1 .. Len(g) : b[i] = h[i]
    BY <1>1
  <2>. HIDE DEF a, b
  <2>. QED
    BY <2>1, <2>2, SeqEqual
<1>. QED
  BY <1>1 DEF IsPrefix

LEMMA PrefixOrder ==
    ASSUME NEW g \in Seq(Names), NEW h \in Seq(Names), NEW k \in Seq(Names)
    PROVE  /\ IsPrefix(g, g)
           /\ IsPrefix(g, h) /\ IsPrefix(h, k) => IsPrefix(g, k)
           /\ IsPrefix(g, h) /\ Len(g) = Len(h) => g = h
           /\ IsPrefix(g, k) /\ IsPrefix(h, k) /\ Len(g) <= Len(h) => IsPrefix(g, h)
<1>1. IsPrefix(g, g)
  BY PrefixMembers
<1>2. IsPrefix(g, h) /\ IsPrefix(h, k) => IsPrefix(g, k)
  BY PrefixMembers
<1>3. IsPrefix(g, h) /\ Len(g) = Len(h) => g = h
  BY PrefixMembers, SeqEqual
<1>4. IsPrefix(g, k) /\ IsPrefix(h, k) /\ Len(g) <= Len(h) => IsPrefix(g, h)
  BY PrefixMembers
<1>. QED
  BY <1>1, <1>2, <1>3, <1>4

-----------------------------------------------------------------------------
(***************************************************************************)
(* What a list has so far, and what is still before it.                    *)
(***************************************************************************)
Working == pc \in {"repos", "subgroups", "languages"}
Active  == Listing \/ pc = "listed"

Held == Range(result) \cup Range(acc) \cup Range(got)

Twice == Repeats(result) \cup Repeats(acc) \cup Repeats(got)
         \cup (Range(result) \cap Range(acc)) \cup (Range(result) \cap Range(got))
         \cup (Range(acc) \cap Range(got))

\* The namespaces and groups behind the one under way.
Later == Range(Tail(top)) \cup (IF todo = <<>> THEN {} ELSE Range(Tail(todo)))

\* Of the group under way: its subgroups, and what the answered pages left.
Unread(r) ==
    /\ todo # <<>> /\ Has(Head(todo), r)
    /\ r.ns = ProjectKey(Head(todo)) => pc = "repos" /\ r \notin First(repos[r.ns], pages * PageSize)

Pending(r) ==
    /\ r \in Hosted
    /\ \/ pc \in {"groups", "own"} /\ \E g \in Namespaces(scope) : Has(g, r)
       \/ Working /\ (Unread(r) \/ \E g \in Later : Has(g, r))

\* Repositories that a list of all finds more than once.
Nested(r) == svc.plugin = "gitlab" /\ scope = All /\ Len(r.ns) > 1

\* What the end of the list will not have, and what it will have twice.
Lost == {r \in due \ missed : r \notin Held /\ ~(Pending(r) /\ Reachable(r))}
Doubled == {r \in Universe(svc) : ~Nested(r) /\ (r \in Twice \/ (r \in Held /\ Pending(r)))}

-----------------------------------------------------------------------------
(***************************************************************************)
(* The invariants of a list.                                               *)
(***************************************************************************)
ServiceOK ==
    /\ svc \in Services
    /\ repos \in [DOMAIN svc.repos -> Seq(Universe(svc))]
    /\ late \subseteq svc.late
    /\ \A g \in DOMAIN repos :
          /\ Range(repos[g]) \cap late = {}
          /\ \A r \in Range(repos[g]) : r.ns = g
          /\ IsInjective(repos[g])

\* What a list can go through.
Askable ==
    DOMAIN svc.repos \cup (IF svc.plugin = "bitbucket" THEN {<<"users", u>> : u \in DOMAIN Home} ELSE {})

ListOK ==
    /\ top \in Seq(Askable) /\ todo \in Seq(Askable)
    /\ got \in Seq(Universe(svc)) /\ acc \in Seq(Universe(svc)) /\ result \in Seq(Universe(svc))
    /\ pages \in Nat /\ created \in Nat /\ deleted \in Nat
    /\ scope \in {All} \cup Askable
    /\ Held \cap late = {}
    /\ due \subseteq Hosted
    /\ lang /\ Active => \A r \in due : r.speaks

\* What each step of the command finds.
PhaseOK ==
    /\ pc \in {"groups", "own"} => scope = All /\ Held = {} /\ pages = 0
    /\ pc = "own" => svc.plugin = "github" /\ svc.groups = <<>>
    /\ Working => top # <<>>
    /\ pc \in {"repos", "subgroups"} => todo # <<>>
    /\ pc \in {"subgroups", "languages"} => svc.plugin = "gitlab"
    /\ pc = "subgroups" => got = <<>>
    /\ pc = "languages" => todo = <<>>
    /\ pc = "repos" => \A r \in Range(got) : r.ns = ProjectKey(Head(todo))
    /\ pc = "repos" /\ ~ReadsAllPages => pages = 0
    /\ pc \in {"repos", "subgroups"} => \A r \in Range(acc) : Has(Head(top), r)
    /\ pc = "listed" => acc = <<>> /\ got = <<>>

\* Nothing is on the way twice, but for groups inside others.
RouteOK ==
    Working =>
        /\ scope # All => Tail(top) = <<>>
        /\ scope = All => Repeats(top) = {} /\ Range(top) \subseteq Range(svc.groups)
        /\ svc.plugin # "gitlab" => todo = <<Head(top)>> /\ acc = <<>>
        /\ svc.plugin = "gitlab" =>
              /\ \A g \in Range(todo) : IsPrefix(Head(top), g)
              /\ Repeats(todo) = {} /\ \A g, h \in Range(todo) : IsPrefix(g, h) => g = h

CountsOK ==
    Active =>
        /\ IsFiniteSet(Lost) /\ Cardinality(Lost) <= IF ReadsAllPages THEN deleted ELSE created
        /\ IsFiniteSet(Doubled) /\ Cardinality(Doubled) <= created

ListInv == ServiceOK /\ ListOK /\ PhaseOK /\ RouteOK /\ CountsOK

-----------------------------------------------------------------------------
(***************************************************************************)
(* The service.                                                            *)
(***************************************************************************)
LEMMA ServiceFacts ==
    ASSUME ServiceOK
    PROVE  /\ ServiceType(svc) /\ OnePlace(svc) /\ Shape(svc)
           /\ svc.plugin \in Plugins /\ DOMAIN repos = DOMAIN svc.repos
           /\ \A g \in DOMAIN repos : /\ repos[g] \in Seq(Universe(svc)) /\ IsInjective(repos[g])
                                      /\ \A r \in Range(repos[g]) : r.ns = g
                                      /\ g \in Seq(Names) /\ Len(g) \in Nat /\ Len(g) > 0
           /\ svc.groups \in Seq(DOMAIN repos) /\ IsInjective(svc.groups)
           /\ svc.plugin = "github" => svc.user \in DOMAIN repos
<1>1. ServiceType(svc) /\ OnePlace(svc) /\ Shape(svc)
  BY ServicesAssumption DEF ServiceOK
<1>2. DOMAIN repos = DOMAIN svc.repos
  BY DEF ServiceOK
<1>3. svc.plugin \in Plugins /\ svc.groups \in Seq(DOMAIN repos) /\ IsInjective(svc.groups)
      /\ (svc.plugin = "github" => svc.user \in DOMAIN repos)
  BY <1>1, <1>2 DEF ServiceType, OnePlace
<1>4. ASSUME NEW g \in DOMAIN repos
      PROVE  /\ repos[g] \in Seq(Universe(svc)) /\ IsInjective(repos[g])
             /\ \A r \in Range(repos[g]) : r.ns = g
             /\ g \in Seq(Names) /\ Len(g) \in Nat /\ Len(g) > 0
  <2>1. repos[g] \in Seq(Universe(svc)) /\ IsInjective(repos[g]) /\ \A r \in Range(repos[g]) : r.ns = g
    BY <1>2 DEF ServiceOK
  <2>2. g \in Seq(Names) /\ g # <<>>
    BY <1>1, <1>2 DEF ServiceType
  <2>. QED
    BY <2>1, <2>2
<1>. QED
  BY <1>1, <1>2, <1>3, <1>4

\* A repository that is there is in its namespace.
LEMMA HostedIn ==
    ASSUME ServiceOK
    PROVE  /\ \A r : r \in Hosted <=> r.ns \in DOMAIN repos /\ r \in Range(repos[r.ns])
           /\ Hosted \subseteq Universe(svc) /\ Hosted \cap late = {}
<1>1. ASSUME NEW r \in Hosted
      PROVE  r.ns \in DOMAIN repos /\ r \in Range(repos[r.ns]) /\ r \in Universe(svc) /\ r \notin late
  <2>1. PICK g \in DOMAIN repos : r \in Range(repos[g])
    BY DEF Hosted
  <2>2. r.ns = g /\ repos[g] \in Seq(Universe(svc))
    BY <2>1, ServiceFacts
  <2>3. r \in Universe(svc)
    BY <2>1, <2>2, RangeIndex
  <2>. QED
    BY <2>1, <2>2, <2>3 DEF ServiceOK
<1>2. ASSUME NEW r, r.ns \in DOMAIN repos, r \in Range(repos[r.ns]) PROVE r \in Hosted
  BY <1>2 DEF Hosted
<1>. QED
  BY <1>1, <1>2

\* What is asked for has a namespace of the service; only the user form of
\* Bitbucket is another name of it.
LEMMA KeyOf ==
    ASSUME ServiceOK, NEW g \in Askable
    PROVE  /\ ProjectKey(g) \in DOMAIN repos /\ g # All
           /\ g \in DOMAIN repos => ProjectKey(g) = g
           /\ svc.plugin # "bitbucket" => g \in DOMAIN repos
           /\ svc.plugin # "gitlab" => Len(ProjectKey(g)) = 1
<1>1. svc.plugin # "gitlab" => \A h \in DOMAIN repos : Len(h) = 1
  BY ServiceFacts DEF Shape
<1>2. CASE g \in DOMAIN repos
  <2>1. ProjectKey(g) = g
    BY <1>1, <1>2 DEF ProjectKey
  <2>2. Len(g) > 0
    BY <1>2, ServiceFacts
  <2>. QED
    BY <1>1, <1>2, <2>1, <2>2 DEF All
<1>3. CASE g \notin DOMAIN repos
  <2>1. PICK u \in DOMAIN Home : g = <<"users", u>> /\ svc.plugin = "bitbucket"
    BY <1>3, ServiceFacts DEF Askable
  <2>2. ProjectKey(g) = <<Home[u]>>
    BY <2>1 DEF ProjectKey
  <2>3. <<Home[u]>> \in DOMAIN repos
    BY <2>1, ServiceFacts DEF Shape
  <2>. QED
    BY <1>1, <1>3, <2>1, <2>2, <2>3 DEF All
<1>. QED
  BY <1>2, <1>3

\* Where no group is inside another, a namespace has what is in it only.
LEMMA HasOwn ==
    ASSUME ServiceOK, NEW g \in Askable, NEW r \in Universe(svc)
    PROVE  /\ r.ns = ProjectKey(g) => Has(g, r)
           /\ svc.plugin # "gitlab" /\ Has(g, r) => r.ns = ProjectKey(g)
           /\ r.ns \in DOMAIN repos /\ r.ns \in Seq(Names)
           /\ svc.plugin = "gitlab" => g \in DOMAIN repos /\ g \in Seq(Names) /\ ProjectKey(g) = g
<1>1. r.ns \in DOMAIN repos
  BY ServiceFacts DEF OnePlace
<1>2. svc.plugin = "gitlab" => g \in DOMAIN repos /\ g \in Seq(Names) /\ ProjectKey(g) = g
  BY KeyOf, ServiceFacts
<1>3. svc.plugin = "gitlab" => IsPrefix(ProjectKey(g), ProjectKey(g))
  BY <1>2, PrefixOrder
<1>. QED
  BY <1>1, <1>2, <1>3, ServiceFacts DEF Has

\* The groups inside a group of GitLab are below it, side by side, and
\* between them have all that is deeper.
LEMMA Inside ==
    ASSUME ServiceOK, svc.plugin = "gitlab", NEW g \in DOMAIN repos
    PROVE  /\ svc.sub[g] \in Seq(DOMAIN repos) /\ Repeats(svc.sub[g]) = {}
           /\ \A h \in Range(svc.sub[g]) : h \in DOMAIN repos /\ Len(h) = Len(g) + 1 /\ IsPrefix(g, h)
           /\ \A h, k \in Range(svc.sub[g]) : IsPrefix(h, k) => h = k
           /\ \A h \in DOMAIN repos :
                 IsPrefix(g, h) /\ h # g => \E k \in Range(svc.sub[g]) : IsPrefix(k, h)
<1>1. /\ \A h \in Range(svc.sub[g]) : Len(h) = Len(g) + 1 /\ IsPrefix(g, h)
      /\ IsInjective(svc.sub[g])
      /\ \A h \in DOMAIN repos : IsStrictPrefix(g, h) => \E k \in Range(svc.sub[g]) : IsPrefix(k, h)
  BY ServiceFacts DEF Shape
<1>2. svc.sub[g] \in Seq(DOMAIN repos)
  BY ServiceFacts DEF ServiceType
<1>3. Repeats(svc.sub[g]) = {}
  BY <1>1, <1>2, NoRepeats
<1>4. \A h \in Range(svc.sub[g]) : h \in DOMAIN repos
  BY <1>2, RangeIndex
<1>5. ASSUME NEW h \in Range(svc.sub[g]), NEW k \in Range(svc.sub[g]), IsPrefix(h, k) PROVE h = k
  BY <1>1, <1>4, <1>5, PrefixOrder, ServiceFacts
<1>6. \A h \in DOMAIN repos : IsPrefix(g, h) /\ h # g => \E k \in Range(svc.sub[g]) : IsPrefix(k, h)
  BY <1>1 DEF IsStrictPrefix
<1>. QED
  BY <1>1, <1>2, <1>3, <1>4, <1>5, <1>6

\* The names of the namespaces that a list of all goes through.
LEMMA NamedGroupsFacts ==
    ASSUME ServiceOK
    PROVE  /\ NamedGroups \in Seq(DOMAIN repos) /\ Repeats(NamedGroups) = {}
           /\ Range(NamedGroups) \subseteq Range(svc.groups)
           /\ NamedGroups = <<>> => svc.groups = <<>>
<1>1. svc.groups \in Seq(DOMAIN repos) /\ IsInjective(svc.groups)
  BY ServiceFacts
<1>2. Repeats(svc.groups) = {}
  BY <1>1, NoRepeats
<1>3. /\ FirstPage(svc.groups) \in Seq(DOMAIN repos) /\ Repeats(FirstPage(svc.groups)) = {}
      /\ Range(FirstPage(svc.groups)) = First(svc.groups, PageSize)
  BY <1>1, FirstPageHolds
<1>4. PageSize \in Nat \ {0}
  BY ServicesAssumption
<1>5. First(svc.groups, PageSize) \subseteq Range(svc.groups)
  BY DEF First, Range
<1>6. ASSUME FirstPage(svc.groups) = <<>>, svc.groups # <<>> PROVE FALSE
  <2>1. svc.groups[1] \in First(svc.groups, PageSize)
    <3>1. 1 \in DOMAIN svc.groups /\ 1 <= PageSize
      BY <1>1, <1>4, <1>6
    <3>. QED
      BY <3>1 DEF First
  <2>2. Range(FirstPage(svc.groups)) = {}
    BY <1>6, Empty
  <2>. QED
    BY <1>3, <2>1, <2>2
<1>. QED
  BY <1>1, <1>2, <1>3, <1>5, <1>6 DEF NamedGroups

-----------------------------------------------------------------------------
(***************************************************************************)
(* What a step of the command may do, and what follows for the counts.     *)
(***************************************************************************)
LEMMA SameService ==
    ASSUME UNCHANGED service
    PROVE  /\ Hosted' = Hosted /\ Universe(svc)' = Universe(svc) /\ ReadsAllPages' = ReadsAllPages
           /\ NamedGroups' = NamedGroups /\ Askable' = Askable
           /\ \A g : ProjectKey(g)' = ProjectKey(g)
           /\ \A g, r : Has(g, r)' = Has(g, r)
           /\ \A r : Reachable(r)' = Reachable(r)
           /\ \A s : Namespaces(s)' = Namespaces(s)
           /\ ServiceOK' = ServiceOK
<1>1. svc' = svc /\ repos' = repos /\ late' = late
  BY DEF service
<1>2. Hosted' = Hosted /\ Universe(svc)' = Universe(svc) /\ ReadsAllPages' = ReadsAllPages
      /\ NamedGroups' = NamedGroups /\ Askable' = Askable
  BY <1>1 DEF Hosted, ReadsAllPages, NamedGroups, Askable
<1>3. ASSUME NEW g PROVE ProjectKey(g)' = ProjectKey(g)
  BY <1>1 DEF ProjectKey
<1>4. ASSUME NEW g, NEW r PROVE Has(g, r)' = Has(g, r)
  BY <1>1 DEF Has, ProjectKey
<1>5. ASSUME NEW r PROVE Reachable(r)' = Reachable(r)
  BY <1>1 DEF Reachable, ReadsAllPages
<1>6. ASSUME NEW s PROVE Namespaces(s)' = Namespaces(s)
  BY <1>1, <1>2 DEF Namespaces
<1>7. ServiceOK' = ServiceOK
  BY <1>1 DEF ServiceOK
<1>. QED
  BY <1>2, <1>3, <1>4, <1>5, <1>6, <1>7

\* A step that drops nothing but what is missed, and comes to hold only what
\* was pending, keeps the counts.
LEMMA CommandStep ==
    ASSUME UNCHANGED <<service, scope, due, created, deleted>>,
           ListOK, CountsOK, Active, missed \subseteq missed',
           \A r \in due \ missed' :
              /\ r \in Held => r \in Held'
              /\ Pending(r) /\ Reachable(r) => r \in Held' \/ Pending(r)',
           \A r \in Universe(svc) : ~Nested(r) =>
              /\ r \in Twice' => r \in Twice \/ (r \in Held /\ Pending(r))
              /\ r \in Held' /\ Pending(r)' => r \in Held /\ Pending(r)
    PROVE  CountsOK'
<1>1. Lost' \subseteq Lost
  <2>1. ASSUME NEW r \in Lost' PROVE r \in Lost
    <3>1. r \in due' \ missed' /\ r \notin Held' /\ ~(Pending(r)' /\ Reachable(r)')
      BY DEF Lost
    <3>2. r \in due \ missed' /\ r \notin Held /\ ~(Pending(r) /\ Reachable(r))
      BY <3>1, SameService
    <3>. QED
      BY <3>2 DEF Lost
  <2>. QED
    BY <2>1
<1>2. Doubled' \subseteq Doubled
  <2>1. ASSUME NEW r \in Doubled' PROVE r \in Doubled
    <3>1. r \in Universe(svc)' /\ ~Nested(r)' /\ (r \in Twice' \/ (r \in Held' /\ Pending(r)'))
      BY DEF Doubled
    <3>2. r \in Universe(svc) /\ ~Nested(r)
      BY <3>1, SameService DEF Nested, service
    <3>. QED
      BY <3>1, <3>2 DEF Doubled
  <2>. QED
    BY <2>1
<1>3. /\ IsFiniteSet(Lost) /\ Cardinality(Lost) <= IF ReadsAllPages THEN deleted ELSE created
      /\ IsFiniteSet(Doubled) /\ Cardinality(Doubled) <= created
  BY DEF CountsOK
<1>4. /\ IsFiniteSet(Lost') /\ Cardinality(Lost') <= Cardinality(Lost)
      /\ IsFiniteSet(Doubled') /\ Cardinality(Doubled') <= Cardinality(Doubled)
      /\ Cardinality(Lost) \in Nat /\ Cardinality(Doubled) \in Nat
      /\ Cardinality(Lost') \in Nat /\ Cardinality(Doubled') \in Nat
  BY <1>1, <1>2, <1>3, FS_Subset, FS_CardinalityType
<1>5. created \in Nat /\ deleted \in Nat
  BY DEF ListOK
<1>6. ReadsAllPages' = ReadsAllPages
  BY SameService
<1>. QED
  BY <1>3, <1>4, <1>5, <1>6 DEF CountsOK

\* The sequence behind the head.
LEMMA Behind ==
    ASSUME NEW T, NEW s \in Seq(T), s # <<>>
    PROVE  /\ Tail(s) \in Seq(T) /\ Head(s) \in T /\ Head(s) \in Range(s)
           /\ Range(Tail(s)) \subseteq Range(s) /\ Repeats(Tail(s)) \subseteq Repeats(s)
           /\ Range(s) \subseteq T
           /\ Repeats(s) = {} => Head(s) \notin Range(Tail(s))
           /\ Len(s) > 1 <=> Tail(s) # <<>>
           /\ Tail(s) # <<>> => s[2] = Head(Tail(s))
<1>1. /\ Tail(s) \in Seq(T) /\ Head(s) \in T
      /\ Range(s) = {Head(s)} \cup Range(Tail(s))
      /\ Repeats(s) = Repeats(Tail(s)) \cup ({Head(s)} \cap Range(Tail(s)))
  BY RangeTail
<1>2. Range(s) \subseteq T
  BY RangeIndex
<1>3. (Len(s) > 1 <=> Tail(s) # <<>>) /\ (Tail(s) # <<>> => s[2] = Head(Tail(s)))
  <2>1. Len(s) \in Nat /\ Len(s) > 0 /\ Len(Tail(s)) = Len(s) - 1
    OBVIOUS
  <2>2. Tail(s) # <<>> <=> Len(Tail(s)) > 0
    BY <1>1
  <2>3. ASSUME Len(s) > 1 PROVE s[2] = Head(Tail(s))
    BY <2>1, <2>3
  <2>. QED
    BY <2>1, <2>2, <2>3
<1>. QED
  BY <1>1, <1>2, <1>3

LEMMA Single ==
    ASSUME NEW T, NEW x \in T
    PROVE  /\ <<x>> \in Seq(T) /\ <<x>> # <<>> /\ Head(<<x>>) = x /\ Tail(<<x>>) = <<>>
           /\ Range(<<x>>) = {x} /\ Repeats(<<x>>) = {}
<1>1. <<x>> \in Seq(T) /\ Len(<<x>>) = 1 /\ Head(<<x>>) = x
  OBVIOUS
<1>2. Tail(<<x>>) \in Seq(T) /\ Len(Tail(<<x>>)) = 0
  BY <1>1
<1>3. Tail(<<x>>) = <<>> /\ <<x>> # <<>>
  BY <1>1, <1>2
<1>. QED
  BY <1>1, <1>3, Empty

\* When nothing of a group has been read, all it has is before the list.
LEMMA NothingRead ==
    ASSUME ServiceOK, NEW r \in Hosted
    PROVE  r \notin First(repos[r.ns], 0 * PageSize)
<1>1. repos[r.ns] \in Seq(Universe(svc))
  BY HostedIn, ServiceFacts
<1>2. First(repos[r.ns], 0) = {} /\ 0 * PageSize = 0
  BY <1>1, FirstMembers, Edges
<1>. QED
  BY <1>2

\* The step to the next namespace: the namespaces behind are what is before
\* the list.
LEMMA NextNamespaceStep ==
    ASSUME ServiceOK, ListOK, RouteOK, Working, top # <<>>, UNCHANGED service,
           NEW listed \in Seq(Universe(svc)), NextNamespace(listed)
    PROVE  /\ top' \in Seq(Askable) /\ todo' \in Seq(Askable) /\ result' \in Seq(Universe(svc))
           /\ pages' = 0 /\ acc' = <<>> /\ got' = <<>> /\ scope' = scope /\ lang' = lang
           /\ Held' = Range(result) \cup Range(listed)
           /\ Twice' = Repeats(result) \cup Repeats(listed) \cup (Range(result) \cap Range(listed))
           /\ PhaseOK' /\ RouteOK'
           /\ Active' => \A r : Pending(r)' <=> r \in Hosted /\ \E g \in Range(Tail(top)) : Has(g, r)
<1>1. /\ result' = result \o listed
      /\ top' = Tail(top) /\ acc' = <<>> /\ got' = <<>> /\ pages' = 0 /\ scope' = scope /\ lang' = lang
      /\ todo' = IF Len(top) > 1 THEN <<top[2]>> ELSE <<>>
      /\ pc' = CASE Len(top) > 1 -> "repos"
                 [] Len(top) = 1 /\ scope = All /\ result' = <<>> -> "failed"
                 [] OTHER -> "listed"
  BY DEF NextNamespace
<1>2. top \in Seq(Askable) /\ result \in Seq(Universe(svc))
  BY DEF ListOK
<1>3. /\ Tail(top) \in Seq(Askable) /\ Range(Tail(top)) \subseteq Range(top)
      /\ Repeats(Tail(top)) \subseteq Repeats(top)
      /\ Len(top) > 1 <=> Tail(top) # <<>>
      /\ Tail(top) # <<>> => top[2] = Head(Tail(top))
  BY <1>2, Behind
<1>4. result' \in Seq(Universe(svc))
  BY <1>1, <1>2
<1>5. Held' = Range(result) \cup Range(listed)
  <2>1. Range(result') = Range(result) \cup Range(listed)
    BY <1>1, <1>2, RangeConcat
  <2>2. Range(acc') = {} /\ Range(got') = {}
    BY <1>1, Empty
  <2>. QED
    BY <2>1, <2>2 DEF Held
<1>6. Twice' = Repeats(result) \cup Repeats(listed) \cup (Range(result) \cap Range(listed))
  <2>1. Repeats(result') = Repeats(result) \cup Repeats(listed) \cup (Range(result) \cap Range(listed))
    BY <1>1, <1>2, RepeatsConcat
  <2>2. Range(acc') = {} /\ Range(got') = {} /\ Repeats(acc') = {} /\ Repeats(got') = {}
    BY <1>1, Empty
  <2>. QED
    BY <2>1, <2>2 DEF Twice
<1>7. svc' = svc /\ repos' = repos
  BY DEF service
<1>8. CASE Tail(top) # <<>>
  <2>1. pc' = "repos" /\ todo' = <<Head(Tail(top))>> /\ Head(Tail(top)) \in Askable
        /\ Range(Tail(top)) = {Head(Tail(top))} \cup Range(Tail(Tail(top)))
    <3>1. pc' = "repos" /\ todo' = <<Head(Tail(top))>>
      BY <1>1, <1>3, <1>8
    <3>2. /\ Head(Tail(top)) \in Askable
          /\ Range(Tail(top)) = {Head(Tail(top))} \cup Range(Tail(Tail(top)))
      BY <1>3, <1>8, RangeTail
    <3>. QED
      BY <3>1, <3>2
  <2>2. Range(todo') = {Head(Tail(top))} /\ Repeats(todo') = {} /\ Range(acc') = {} /\ Range(got') = {}
    BY <1>1, <2>1, Empty
  <2>3. todo' \in Seq(Askable) /\ todo' # <<>> /\ Head(todo') = Head(Tail(top)) /\ Tail(todo') = <<>>
    BY <2>1, Single
  <2>4. PhaseOK'
    BY <1>1, <1>8, <2>1, <2>2, <2>3 DEF PhaseOK
  <2>5. scope = All /\ Repeats(Tail(top)) = {} /\ Range(Tail(top)) \subseteq Range(svc.groups)
    BY <1>3, <1>8 DEF RouteOK
  <2>6. svc.plugin = "gitlab" => IsPrefix(Head(Tail(top)), Head(Tail(top)))
    BY <2>1, HasOwn, KeyOf, PrefixOrder, ServiceFacts
  <2>7. RouteOK'
    BY <1>1, <1>7, <2>1, <2>2, <2>5, <2>6 DEF RouteOK
  <2>8. ASSUME NEW r PROVE Pending(r)' <=> r \in Hosted /\ \E g \in Range(Tail(top)) : Has(g, r)
    <3>1. r \in Hosted => (Unread(r)' <=> Has(Head(Tail(top)), r))
      BY <1>1, <1>7, <2>1, <2>3, NothingRead, SameService DEF Unread
    <3>2. Later' = Range(Tail(Tail(top)))
      BY <1>1, <2>3, Empty DEF Later
    <3>3. Hosted' = Hosted /\ \A g : Has(g, r)' = Has(g, r)
      BY SameService
    <3>. QED
      BY <2>1, <3>1, <3>2, <3>3 DEF Pending, Working
  <2>. QED
    BY <1>1, <1>3, <1>4, <1>5, <1>6, <2>3, <2>4, <2>7, <2>8
<1>9. CASE Tail(top) = <<>>
  <2>1. pc' \in {"failed", "listed"} /\ todo' = <<>>
    BY <1>1, <1>3, <1>9
  <2>2. PhaseOK' /\ RouteOK'
    BY <1>1, <2>1 DEF PhaseOK, RouteOK, Working
  <2>3. ASSUME NEW r PROVE ~Pending(r)'
    BY <2>1 DEF Pending, Working
  <2>4. Range(Tail(top)) = {}
    BY <1>9, Empty
  <2>. QED
    BY <1>1, <1>3, <1>4, <1>5, <1>6, <2>1, <2>2, <2>3, <2>4
<1>. QED
  BY <1>8, <1>9

\* The step to the next group of GitLab: these groups and the namespaces
\* behind are what is before the list.
LEMMA NextGroupStep ==
    ASSUME ServiceOK, ListOK, RouteOK, PhaseOK, pc \in {"repos", "subgroups"}, svc.plugin = "gitlab",
           UNCHANGED service, NEW groups \in Seq(Askable), NextGroup(groups, acc),
           \A g \in Range(groups) : IsPrefix(Head(top), g),
           Repeats(groups) = {}, \A g, h \in Range(groups) : IsPrefix(g, h) => g = h
    PROVE  /\ top' = top /\ todo' = groups /\ result' = result
           /\ pages' = 0 /\ acc' = acc /\ got' = <<>> /\ scope' = scope /\ lang' = lang
           /\ Held' = Range(result) \cup Range(acc)
           /\ Twice' = Repeats(result) \cup Repeats(acc) \cup (Range(result) \cap Range(acc))
           /\ PhaseOK' /\ RouteOK'
           /\ \A r : Pending(r)' <=> r \in Hosted /\ \E g \in Range(groups) \cup Range(Tail(top)) : Has(g, r)
<1>1. /\ todo' = groups /\ acc' = acc /\ got' = <<>> /\ pages' = 0
      /\ pc' = IF groups = <<>> THEN "languages" ELSE "repos"
      /\ scope' = scope /\ lang' = lang /\ top' = top /\ result' = result
  BY DEF NextGroup
<1>2. svc' = svc /\ repos' = repos
  BY DEF service
<1>3. Range(got') = {} /\ Repeats(got') = {}
  BY <1>1, Empty
<1>4. Held' = Range(result) \cup Range(acc)
  BY <1>1, <1>3 DEF Held
<1>5. Twice' = Repeats(result) \cup Repeats(acc) \cup (Range(result) \cap Range(acc))
  BY <1>1, <1>3 DEF Twice
<1>6. Working /\ top # <<>> /\ \A r \in Range(acc) : Has(Head(top), r)
  BY DEF Working, PhaseOK
<1>7. PhaseOK'
  <2>1. (\A r \in Range(acc) : Has(Head(top), r))'
    BY <1>1, <1>2, <1>6 DEF Has
  <2>2. ReadsAllPages'
    BY <1>2 DEF ReadsAllPages
  <2>. QED
    BY <1>1, <1>2, <1>3, <1>6, <2>1, <2>2 DEF PhaseOK
<1>8. RouteOK'
  <2>1. /\ scope # All => Tail(top) = <<>>
        /\ scope = All => Repeats(top) = {} /\ Range(top) \subseteq Range(svc.groups)
    BY <1>6 DEF RouteOK
  <2>. QED
    BY <1>1, <1>2, <2>1 DEF RouteOK
<1>9. ASSUME NEW r
      PROVE  Pending(r)' <=> r \in Hosted /\ \E g \in Range(groups) \cup Range(Tail(top)) : Has(g, r)
  <2>1. Hosted' = Hosted /\ \A g : Has(g, r)' = Has(g, r)
    BY SameService
  <2>2. CASE groups = <<>>
    <3>1. ~Unread(r)' /\ Later' = Range(Tail(top)) /\ pc' = "languages"
      BY <1>1, <2>2 DEF Unread, Later
    <3>2. Range(groups) = {}
      BY <2>2, Empty
    <3>. QED
      BY <2>1, <3>1, <3>2 DEF Pending, Working
  <2>3. CASE groups # <<>>
    <3>1. r \in Hosted => (Unread(r)' <=> Has(Head(groups), r))
      BY <1>1, <1>2, <2>1, <2>3, NothingRead DEF Unread
    <3>2. Later' = Range(Tail(top)) \cup Range(Tail(groups)) /\ pc' = "repos"
      BY <1>1, <2>3 DEF Later
    <3>3. Range(groups) = {Head(groups)} \cup Range(Tail(groups))
      BY <2>3, RangeTail
    <3>. QED
      BY <2>1, <3>1, <3>2, <3>3 DEF Pending, Working
  <2>. QED
    BY <2>2, <2>3
<1>. QED
  BY <1>1, <1>4, <1>5, <1>7, <1>8, <1>9

\* A repository in the group under way is in no other that is still to come,
\* but for what a list of all finds more than once.
LEMMA OneRoute ==
    ASSUME ServiceOK, ListOK, PhaseOK, RouteOK, pc = "repos",
           NEW r \in Hosted, r.ns = ProjectKey(Head(todo)), ~Nested(r)
    PROVE  \A g \in Later : ~Has(g, r)
<1>1. /\ Working /\ top # <<>> /\ todo # <<>> /\ top \in Seq(Askable) /\ todo \in Seq(Askable)
      /\ r \in Universe(svc)
  BY HostedIn DEF PhaseOK, ListOK, Working
<1>2. /\ Head(todo) \in Askable /\ Head(todo) \in Range(todo) /\ Range(todo) \subseteq Askable
      /\ Head(top) \in Askable /\ Range(top) \subseteq Askable
      /\ Range(Tail(todo)) \subseteq Range(todo) /\ Range(Tail(top)) \subseteq Range(top)
      /\ Repeats(todo) = {} => Head(todo) \notin Range(Tail(todo))
      /\ Repeats(top) = {} => Head(top) \notin Range(Tail(top))
  BY <1>1, Behind
<1>3. ASSUME NEW g \in Range(Tail(todo)), Has(g, r) PROVE FALSE
  <2>1. CASE svc.plugin = "gitlab"
    <3>1. IsPrefix(g, Head(todo))
      BY <1>1, <1>2, <1>3, <2>1, HasOwn DEF Has
    <3>2. g = Head(todo)
      BY <1>1, <1>2, <2>1, <3>1 DEF RouteOK
    <3>. QED
      BY <1>1, <1>2, <2>1, <3>2 DEF RouteOK
  <2>2. CASE svc.plugin # "gitlab"
    <3>1. todo = <<Head(top)>>
      BY <1>1, <2>2 DEF RouteOK
    <3>2. Tail(todo) = <<>>
      BY <1>2, <3>1, Single
    <3>. QED
      BY <3>2, Empty
  <2>. QED
    BY <2>1, <2>2
<1>4. ASSUME NEW g \in Range(Tail(top)), Has(g, r) PROVE FALSE
  <2>1. scope = All /\ Repeats(top) = {} /\ Range(top) \subseteq Range(svc.groups)
    BY <1>1, <1>4, Empty DEF RouteOK
  <2>2. g \in DOMAIN repos /\ Head(top) \in DOMAIN repos
    <3>1. \A h \in Range(svc.groups) : h \in DOMAIN repos
      BY RangeIndex, ServiceFacts
    <3>2. Head(top) \in Range(top)
      BY <1>1, Behind
    <3>. QED
      BY <1>2, <2>1, <3>1, <3>2
  <2>3. CASE svc.plugin = "gitlab"
    <3>1. r.ns = Head(todo) /\ Head(todo) \in DOMAIN repos /\ IsPrefix(g, Head(todo))
      BY <1>1, <1>2, <1>4, <2>2, <2>3, HasOwn, KeyOf DEF Has
    <3>2. Len(Head(todo)) = 1
      <4>1. ~(Len(Head(todo)) > 1)
        BY <2>1, <2>3, <3>1 DEF Nested
      <4>2. Len(Head(todo)) \in Nat /\ Len(Head(todo)) > 0
        BY <3>1, ServiceFacts
      <4>3. \A n \in Nat : n > 0 /\ ~(n > 1) => n = 1
        OBVIOUS
      <4>. QED
        BY <4>1, <4>2, <4>3, Zenon
    <3>3. IsPrefix(Head(top), Head(todo))
      BY <1>1, <1>2, <2>3 DEF RouteOK
    <3>4. ASSUME NEW h \in DOMAIN repos, IsPrefix(h, Head(todo)) PROVE h = Head(todo)
      <4>1. Len(h) <= Len(Head(todo)) /\ Len(h) > 0 /\ Len(h) \in Nat /\ h \in Seq(Names) /\ Head(todo) \in Seq(Names)
        BY <3>1, <3>4, ServiceFacts DEF IsPrefix
      <4>. QED
        BY <3>2, <3>4, <4>1, PrefixOrder
    <3>. QED
      BY <1>2, <1>4, <2>1, <2>2, <3>1, <3>3, <3>4
  <2>4. CASE svc.plugin # "gitlab"
    <3>1. Head(todo) = Head(top)
      <4>1. todo = <<Head(top)>>
        BY <1>1, <2>4 DEF RouteOK
      <4>. QED
        BY <1>2, <4>1, Single
    <3>2. r.ns = ProjectKey(g)
      BY <1>1, <1>2, <1>4, <2>4, HasOwn
    <3>3. g = Head(top)
      BY <1>2, <1>4, <2>2, <3>1, <3>2, KeyOf
    <3>. QED
      BY <1>2, <1>4, <2>1, <3>3
  <2>. QED
    BY <2>3, <2>4
<1>. QED
  BY <1>1, <1>3, <1>4 DEF Later

-----------------------------------------------------------------------------
(***************************************************************************)
(* The steps of the command.                                               *)
(***************************************************************************)
\* A page holds repositories of the group under way that were before the list.
LEMMA PageRead ==
    ASSUME ServiceOK, ListOK, PhaseOK, pc = "repos"
    PROVE  LET k == ProjectKey(Head(todo))
               p == Page(repos[k], pages)
           IN  /\ k \in DOMAIN repos /\ InGroup(Head(todo)) = repos[k] /\ Head(todo) \in Askable
               /\ p \in Seq(Universe(svc)) /\ Repeats(p) = {}
               /\ \A r \in Range(p) : r \in Hosted /\ r.ns = k /\ Pending(r)
               /\ \A r \in Hosted : r.ns = k =>
                     (r \in Range(p) <=> /\ r \in First(repos[k], (pages + 1) * PageSize)
                                         /\ r \notin First(repos[k], pages * PageSize))
               /\ \A r \in Hosted : r.ns = k /\ ~More(repos[k], pages) =>
                                       r \in First(repos[k], (pages + 1) * PageSize)
               /\ First(repos[k], pages * PageSize) \subseteq First(repos[k], (pages + 1) * PageSize)
<1>. DEFINE k == ProjectKey(Head(todo))
            p == Page(repos[k], pages)
<1>1. todo # <<>> /\ todo \in Seq(Askable) /\ pages \in Nat
  BY DEF PhaseOK, ListOK
<1>2. Head(todo) \in Askable
  BY <1>1, Behind
<1>3. k \in DOMAIN repos /\ InGroup(Head(todo)) = repos[k]
  BY <1>2, KeyOf DEF InGroup
<1>4. /\ repos[k] \in Seq(Universe(svc)) /\ IsInjective(repos[k])
      /\ \A r \in Range(repos[k]) : r.ns = k
  BY <1>3, ServiceFacts
<1>5. /\ p \in Seq(Universe(svc)) /\ Repeats(p) = {}
      /\ Range(p) = First(repos[k], (pages + 1) * PageSize) \ First(repos[k], pages * PageSize)
      /\ ~More(repos[k], pages) => First(repos[k], (pages + 1) * PageSize) = Range(repos[k])
  BY <1>1, <1>4, PageHolds
<1>6. /\ First(repos[k], pages * PageSize) \subseteq First(repos[k], (pages + 1) * PageSize)
      /\ First(repos[k], (pages + 1) * PageSize) \subseteq Range(repos[k])
  <2>1. /\ pages * PageSize \in Nat /\ (pages + 1) * PageSize \in Nat
        /\ pages * PageSize <= (pages + 1) * PageSize
    BY <1>1, Edges
  <2>. HIDE DEF k
  <2>. QED
    BY <1>4, <2>1, FirstMembers
<1>7. ASSUME NEW r \in Range(p) PROVE r \in Hosted /\ r.ns = k /\ Pending(r)
  <2>1. r \in Range(repos[k]) /\ r.ns = k /\ r \in Hosted
    BY <1>3, <1>4, <1>5, <1>6, HostedIn
  <2>2. Has(Head(todo), r)
    BY <1>2, <2>1, HasOwn, HostedIn
  <2>3. Unread(r)
    BY <1>1, <1>5, <2>1, <2>2 DEF Unread
  <2>. QED
    BY <2>1, <2>3 DEF Pending, Working
<1>8. \A r \in Hosted : r.ns = k => r \in Range(repos[k])
  BY HostedIn
<1>. HIDE DEF k, p
<1>9. \A r \in Hosted : r.ns = k =>
                     (r \in Range(p) <=> /\ r \in First(repos[k], (pages + 1) * PageSize)
                                         /\ r \notin First(repos[k], pages * PageSize))
  BY <1>5
<1>10. \A r \in Hosted : r.ns = k /\ ~More(repos[k], pages) => r \in First(repos[k], (pages + 1) * PageSize)
  BY <1>5, <1>8
<1>. QED
  BY <1>2, <1>3, <1>5, <1>6, <1>7, <1>9, <1>10 DEF k, p

\* More pages follow: the answer grows by one.
LEMMA NextPage ==
    ASSUME ListInv, pc = "repos", UNCHANGED <<service, pc, scope, lang, top, todo, acc, result, ghosts>>,
           ReadsAllPages,
           got' = got \o Page(InGroup(Head(todo)), pages), pages' = pages + 1
    PROVE  ListInv'
<1>. DEFINE k == ProjectKey(Head(todo))
            p == Page(repos[k], pages)
<1>0. ServiceOK /\ ListOK /\ PhaseOK /\ RouteOK /\ CountsOK
  BY DEF ListInv
<1>1. /\ k \in DOMAIN repos /\ InGroup(Head(todo)) = repos[k] /\ Head(todo) \in Askable
      /\ p \in Seq(Universe(svc)) /\ Repeats(p) = {}
      /\ \A r \in Range(p) : r \in Hosted /\ r.ns = k /\ Pending(r)
      /\ \A r \in Hosted : r.ns = k =>
            (r \in Range(p) <=> /\ r \in First(repos[k], (pages + 1) * PageSize)
                                /\ r \notin First(repos[k], pages * PageSize))
      /\ First(repos[k], pages * PageSize) \subseteq First(repos[k], (pages + 1) * PageSize)
  BY <1>0, PageRead
<1>2. svc' = svc /\ repos' = repos /\ late' = late /\ due' = due /\ missed' = missed
      /\ created' = created /\ deleted' = deleted
  BY DEF service, ghosts
<1>. HIDE DEF p
<1>3. got' = got \o p /\ got \in Seq(Universe(svc)) /\ pages' \in Nat /\ pages \in Nat
  BY <1>0, <1>1 DEF ListOK, p
<1>4. /\ got' \in Seq(Universe(svc))
      /\ Range(got') = Range(got) \cup Range(p)
      /\ Repeats(got') = Repeats(got) \cup (Range(got) \cap Range(p))
  <2>1. p \in Seq(Universe(svc)) /\ Repeats(p) = {} /\ got \in Seq(Universe(svc))
    BY <1>1, <1>3
  <2>2. /\ got \o p \in Seq(Universe(svc)) /\ Range(got \o p) = Range(got) \cup Range(p)
        /\ Repeats(got \o p) = Repeats(got) \cup Repeats(p) \cup (Range(got) \cap Range(p))
    BY <2>1, Joined
  <2>. QED
    BY <1>3, <2>1, <2>2
<1>5. Held' = Held \cup Range(p)
  BY <1>4 DEF Held
<1>6. Twice' \subseteq Twice \cup (Held \cap Range(p))
  BY <1>4 DEF Twice, Held
<1>7. ServiceOK'
  BY <1>0, SameService
<1>8. ListOK'
  <2>1. Held' \cap late' = {} /\ due' \subseteq Hosted'
    BY <1>0, <1>1, <1>2, <1>5, HostedIn, SameService DEF ListOK
  <2>2. Active' = Active /\ Askable' = Askable /\ Universe(svc)' = Universe(svc)
    BY SameService DEF Active, Listing
  <2>. QED
    BY <1>0, <1>2, <1>3, <1>4, <2>1, <2>2 DEF ListOK
<1>9. PhaseOK'
  <2>1. (\A r \in Range(got) : r.ns = ProjectKey(Head(todo)))'
    BY <1>0, <1>1, <1>2, <1>4 DEF PhaseOK, ProjectKey
  <2>2. (\A r \in Range(acc) : Has(Head(top), r))'
    BY <1>0, <1>2 DEF PhaseOK, Has, ProjectKey
  <2>3. ReadsAllPages'
    BY <1>2 DEF ReadsAllPages
  <2>. QED
    BY <1>0, <2>1, <2>2, <2>3 DEF PhaseOK, Working
<1>10. RouteOK'
  BY <1>0, <1>2 DEF RouteOK, Working
<1>11. \A r \in Hosted : Pending(r)' <=>
          \/ Has(Head(todo), r) /\ (r.ns = k => r \notin First(repos[k], (pages + 1) * PageSize))
          \/ \E g \in Later : Has(g, r)
  <2>1. Hosted' = Hosted /\ Later' = Later /\ Working' /\ todo # <<>>
    BY <1>0, SameService DEF Later, Working, PhaseOK
  <2>2. \A r : Unread(r)' <=> /\ Has(Head(todo), r)
                              /\ r.ns = k => r \notin First(repos[r.ns], (pages + 1) * PageSize)
    BY <1>2, <2>1 DEF Unread, Has, ProjectKey
  <2>3. \A g, r : Has(g, r)' = Has(g, r)
    BY SameService
  <2>. QED
    BY <2>1, <2>2, <2>3 DEF Pending
<1>12. \A r \in Hosted : Pending(r) <=>
          \/ Has(Head(todo), r) /\ (r.ns = k => r \notin First(repos[k], pages * PageSize))
          \/ \E g \in Later : Has(g, r)
  BY <1>0 DEF Pending, Working, Unread, PhaseOK
<1>13. \A r : Pending(r)' => r \in Hosted
  BY SameService DEF Pending
<1>14. ASSUME NEW r \in due \ missed'
       PROVE  /\ r \in Held => r \in Held'
              /\ Pending(r) /\ Reachable(r) => r \in Held' \/ Pending(r)'
  <2>1. r \in Hosted
    BY <1>0, <1>14 DEF ListOK
  <2>. QED
    BY <1>1, <1>5, <1>11, <1>12, <2>1
<1>15. ASSUME NEW r \in Universe(svc), ~Nested(r)
       PROVE  /\ r \in Twice' => r \in Twice \/ (r \in Held /\ Pending(r))
              /\ r \in Held' /\ Pending(r)' => r \in Held /\ Pending(r)
  <2>1. r \in Twice' => r \in Twice \/ (r \in Held /\ Pending(r))
    BY <1>1, <1>6
  <2>2. ASSUME r \in Range(p) PROVE ~Pending(r)'
    <3>1. r \in Hosted /\ r.ns = k /\ r \in First(repos[k], (pages + 1) * PageSize)
      BY <1>1, <2>2
    <3>2. \A g \in Later : ~Has(g, r)
      BY <1>0, <1>15, <3>1, OneRoute
    <3>. QED
      BY <1>11, <3>1, <3>2
  <2>3. ASSUME r \in Held', Pending(r)' PROVE r \in Held /\ Pending(r)
    BY <1>1, <1>5, <1>11, <1>12, <1>13, <2>2, <2>3
  <2>. QED
    BY <2>1, <2>3
<1>16. CountsOK'
  <2>1. Active /\ missed \subseteq missed'
    BY <1>2 DEF Active, Listing
  <2>. HIDE DEF k
  <2>. QED
    BY <1>0, <1>2, <1>14, <1>15, <2>1, CommandStep
<1>. QED
  BY <1>7, <1>8, <1>9, <1>10, <1>16 DEF ListInv

\* The last page of a group of GitLab: its subgroups are next.
LEMMA LastPageOfGroup ==
    ASSUME ListInv, pc = "repos", svc.plugin = "gitlab",
           UNCHANGED <<service, scope, lang, top, todo, result, ghosts>>,
           ~More(InGroup(Head(todo)), pages),
           acc' = acc \o (got \o Page(InGroup(Head(todo)), pages)),
           got' = <<>>, pages' = 0, pc' = "subgroups"
    PROVE  ListInv'
<1>. DEFINE k == ProjectKey(Head(todo))
            p == Page(repos[k], pages)
            read == got \o p
<1>0. ServiceOK /\ ListOK /\ PhaseOK /\ RouteOK /\ CountsOK
  BY DEF ListInv
<1>1. /\ k \in DOMAIN repos /\ InGroup(Head(todo)) = repos[k] /\ Head(todo) \in Askable
      /\ p \in Seq(Universe(svc)) /\ Repeats(p) = {}
      /\ \A r \in Range(p) : r \in Hosted /\ r.ns = k /\ Pending(r)
      /\ \A r \in Hosted : r.ns = k =>
            (r \in Range(p) <=> /\ r \in First(repos[k], (pages + 1) * PageSize)
                                /\ r \notin First(repos[k], pages * PageSize))
      /\ \A r \in Hosted : r.ns = k => r \in First(repos[k], (pages + 1) * PageSize)
  BY <1>0, PageRead
<1>2. svc' = svc /\ repos' = repos /\ late' = late /\ due' = due /\ missed' = missed
      /\ created' = created /\ deleted' = deleted
  BY DEF service, ghosts
<1>. HIDE DEF p
<1>3. /\ p \in Seq(Universe(svc)) /\ Repeats(p) = {} /\ got \in Seq(Universe(svc))
      /\ acc \in Seq(Universe(svc))
  BY <1>0, <1>1 DEF ListOK
<1>4. /\ read \in Seq(Universe(svc)) /\ Range(read) = Range(got) \cup Range(p)
      /\ Repeats(read) = Repeats(got) \cup Repeats(p) \cup (Range(got) \cap Range(p))
  BY <1>3, Joined
<1>5. acc' = acc \o read
  BY <1>1 DEF p
<1>. HIDE DEF read
<1>6. /\ acc \o read \in Seq(Universe(svc)) /\ Range(acc \o read) = Range(acc) \cup Range(read)
      /\ Repeats(acc \o read) = Repeats(acc) \cup Repeats(read) \cup (Range(acc) \cap Range(read))
  BY <1>3, <1>4, Joined
<1>7. Range(got') = {} /\ Repeats(got') = {}
  BY Empty
<1>8. Held' = Held \cup Range(p)
  BY <1>4, <1>5, <1>6, <1>7 DEF Held
<1>9. Twice' \subseteq Twice \cup (Held \cap Range(p))
  BY <1>3, <1>4, <1>5, <1>6, <1>7 DEF Twice, Held
<1>10. ServiceOK'
  BY <1>0, SameService
<1>11. ListOK'
  <2>1. Held' \cap late' = {} /\ due' \subseteq Hosted'
    BY <1>0, <1>1, <1>2, <1>8, HostedIn, SameService DEF ListOK
  <2>2. Active /\ Askable' = Askable /\ Universe(svc)' = Universe(svc)
    BY SameService DEF Active, Listing
  <2>3. acc' \in Seq(Universe(svc)) /\ got' \in Seq(Universe(svc)) /\ pages' \in Nat
    <3>1. acc' \in Seq(Universe(svc))
      BY <1>5, <1>6, Zenon
    <3>. QED
      BY <3>1
  <2>. QED
    BY <1>0, <1>2, <2>1, <2>2, <2>3 DEF ListOK
<1>12. Working /\ top # <<>> /\ todo # <<>>
  BY <1>0 DEF PhaseOK, Working
<1>13. PhaseOK'
  <2>1. \A r \in Range(acc) : IsPrefix(Head(top), r.ns)
    BY <1>0 DEF PhaseOK, Has
  <2>2. \A r \in Range(got) \cup Range(p) : IsPrefix(Head(top), r.ns)
    <3>1. Head(todo) \in Range(todo) /\ k = Head(todo)
      BY <1>0, <1>1, <1>12, Behind, KeyOf DEF ListOK
    <3>2. IsPrefix(Head(top), Head(todo))
      BY <1>0, <1>12, <3>1 DEF RouteOK
    <3>3. \A r \in Range(got) : r.ns = k
      BY <1>0 DEF PhaseOK
    <3>. QED
      BY <1>1, <3>1, <3>2, <3>3
  <2>3. (\A r \in Range(acc) : Has(Head(top), r))'
    BY <1>2, <1>4, <1>5, <1>6, <2>1, <2>2 DEF Has
  <2>4. ReadsAllPages'
    BY <1>2 DEF ReadsAllPages
  <2>. QED
    BY <1>2, <1>7, <1>12, <2>3, <2>4 DEF PhaseOK, Working
<1>14. RouteOK'
  BY <1>0, <1>2, <1>12 DEF RouteOK, Working
<1>15. \A r \in Hosted : Pending(r)' <=> (Has(Head(todo), r) /\ r.ns # k) \/ \E g \in Later : Has(g, r)
  <2>1. Hosted' = Hosted /\ Later' = Later /\ Working'
    BY <1>0, SameService DEF Later, Working, PhaseOK
  <2>2. \A r : Unread(r)' <=> Has(Head(todo), r) /\ r.ns # k
    BY <1>2, <1>12 DEF Unread, Has, ProjectKey
  <2>3. \A g, r : Has(g, r)' = Has(g, r)
    BY SameService
  <2>. QED
    BY <2>1, <2>2, <2>3 DEF Pending
<1>16. \A r \in Hosted : Pending(r) <=>
          \/ Has(Head(todo), r) /\ (r.ns = k => r \notin First(repos[k], pages * PageSize))
          \/ \E g \in Later : Has(g, r)
  BY <1>0 DEF Pending, Working, Unread, PhaseOK
<1>17. \A r : Pending(r)' => r \in Hosted
  BY SameService DEF Pending
<1>18. ASSUME NEW r \in due \ missed'
       PROVE  /\ r \in Held => r \in Held'
              /\ Pending(r) /\ Reachable(r) => r \in Held' \/ Pending(r)'
  <2>1. r \in Hosted
    BY <1>0, <1>18 DEF ListOK
  <2>. QED
    BY <1>1, <1>8, <1>15, <1>16, <2>1
<1>19. ASSUME NEW r \in Universe(svc), ~Nested(r)
       PROVE  /\ r \in Twice' => r \in Twice \/ (r \in Held /\ Pending(r))
              /\ r \in Held' /\ Pending(r)' => r \in Held /\ Pending(r)
  <2>1. r \in Twice' => r \in Twice \/ (r \in Held /\ Pending(r))
    BY <1>1, <1>9
  <2>2. ASSUME r \in Range(p) PROVE ~Pending(r)'
    <3>1. r \in Hosted /\ r.ns = k
      BY <1>1, <2>2
    <3>2. \A g \in Later : ~Has(g, r)
      BY <1>0, <1>19, <3>1, OneRoute
    <3>. QED
      BY <1>15, <3>1, <3>2
  <2>3. ASSUME r \in Held', Pending(r)' PROVE r \in Held /\ Pending(r)
    BY <1>1, <1>8, <1>15, <1>16, <1>17, <2>2, <2>3
  <2>. QED
    BY <2>1, <2>3
<1>20. CountsOK'
  <2>1. Active /\ missed \subseteq missed'
    BY <1>2 DEF Active, Listing
  <2>. HIDE DEF k
  <2>. QED
    BY <1>0, <1>2, <1>18, <1>19, <2>1, CommandStep
<1>. QED
  BY <1>10, <1>11, <1>13, <1>14, <1>20 DEF ListInv

\* The last page of a namespace of the others, on GitHub the only one: the
\* next namespace is next.
LEMMA LastPageOfNamespace ==
    ASSUME ListInv, pc = "repos", svc.plugin # "gitlab", UNCHANGED <<service, ghosts>>,
           ~(ReadsAllPages /\ More(InGroup(Head(todo)), pages)),
           NextNamespace(got \o Page(InGroup(Head(todo)), pages))
    PROVE  ListInv'
<1>. DEFINE k == ProjectKey(Head(todo))
            p == Page(repos[k], pages)
            read == got \o p
<1>0. ServiceOK /\ ListOK /\ PhaseOK /\ RouteOK /\ CountsOK
  BY DEF ListInv
<1>1. /\ k \in DOMAIN repos /\ InGroup(Head(todo)) = repos[k] /\ Head(todo) \in Askable
      /\ p \in Seq(Universe(svc)) /\ Repeats(p) = {}
      /\ \A r \in Range(p) : r \in Hosted /\ r.ns = k /\ Pending(r)
      /\ \A r \in Hosted : r.ns = k =>
            (r \in Range(p) <=> /\ r \in First(repos[k], (pages + 1) * PageSize)
                                /\ r \notin First(repos[k], pages * PageSize))
      /\ \A r \in Hosted : r.ns = k /\ ReadsAllPages => r \in First(repos[k], (pages + 1) * PageSize)
  BY <1>0, PageRead
<1>2. svc' = svc /\ repos' = repos /\ late' = late /\ due' = due /\ missed' = missed
      /\ created' = created /\ deleted' = deleted
  BY DEF service, ghosts
<1>3. NextNamespace(read)
  BY <1>1
<1>. HIDE DEF p
<1>4. /\ p \in Seq(Universe(svc)) /\ Repeats(p) = {} /\ got \in Seq(Universe(svc))
      /\ created \in Nat /\ deleted \in Nat
  BY <1>0, <1>1 DEF ListOK
<1>5. /\ read \in Seq(Universe(svc)) /\ Range(read) = Range(got) \cup Range(p)
      /\ Repeats(read) = Repeats(got) \cup Repeats(p) \cup (Range(got) \cap Range(p))
  BY <1>4, Joined
<1>. HIDE DEF read
<1>6. Working /\ Active /\ top # <<>> /\ todo # <<>> /\ acc = <<>> /\ todo = <<Head(top)>>
  BY <1>0 DEF PhaseOK, RouteOK, Working, Active, Listing
<1>7. /\ top' \in Seq(Askable) /\ todo' \in Seq(Askable) /\ result' \in Seq(Universe(svc))
      /\ pages' = 0 /\ acc' = <<>> /\ got' = <<>> /\ scope' = scope /\ lang' = lang
      /\ Held' = Range(result) \cup Range(read)
      /\ Twice' = Repeats(result) \cup Repeats(read) \cup (Range(result) \cap Range(read))
      /\ PhaseOK' /\ RouteOK'
      /\ Active' => \A r : Pending(r)' <=> r \in Hosted /\ \E g \in Range(Tail(top)) : Has(g, r)
  BY <1>0, <1>3, <1>5, <1>6, NextNamespaceStep
<1>8. Range(acc) = {} /\ Repeats(acc) = {}
  BY <1>6, Empty
<1>9. Held' = Held \cup Range(p)
  BY <1>5, <1>7, <1>8 DEF Held
<1>10. Twice' \subseteq Twice \cup (Held \cap Range(p))
  BY <1>4, <1>5, <1>7, <1>8 DEF Twice, Held
<1>11. ServiceOK'
  BY <1>0, SameService
<1>12. ListOK'
  <2>1. Held' \cap late' = {} /\ due' \subseteq Hosted'
    BY <1>0, <1>1, <1>2, <1>9, HostedIn, SameService DEF ListOK
  <2>2. Active /\ Askable' = Askable /\ Universe(svc)' = Universe(svc)
    BY SameService DEF Active, Listing
  <2>3. acc' \in Seq(Universe(svc)) /\ got' \in Seq(Universe(svc)) /\ pages' \in Nat
    BY <1>7
  <2>. QED
    BY <1>0, <1>2, <1>7, <2>1, <2>2, <2>3 DEF ListOK
<1>13. Later = Range(Tail(top))
  <2>1. Head(top) \in Askable
    BY <1>0, <1>6, Behind DEF ListOK
  <2>2. Tail(todo) = <<>>
    BY <1>6, <2>1, Single
  <2>. QED
    BY <2>2, Empty DEF Later
<1>14. \A r \in Hosted : Pending(r) <=>
          \/ Has(Head(todo), r) /\ (r.ns = k => r \notin First(repos[k], pages * PageSize))
          \/ \E g \in Later : Has(g, r)
  BY <1>0 DEF Pending, Working, Unread, PhaseOK
<1>15. \A r : Pending(r)' => r \in Hosted
  BY SameService DEF Pending
<1>16. ASSUME Active', NEW r \in due \ missed'
       PROVE  /\ r \in Held => r \in Held'
              /\ Pending(r) /\ Reachable(r) => r \in Held' \/ Pending(r)'
  <2>1. r \in Hosted
    BY <1>0, <1>16 DEF ListOK
  <2>2. ASSUME Has(Head(todo), r), r.ns = k => r \notin First(repos[k], pages * PageSize), Reachable(r)
        PROVE  r \in Range(p)
    <3>1. r.ns = k
      BY <1>0, <1>1, <2>1, <2>2, HasOwn, HostedIn
    <3>2. CASE ReadsAllPages
      BY <1>1, <2>1, <2>2, <3>1, <3>2
    <3>3. CASE ~ReadsAllPages
      <4>1. pages = 0 /\ r \in Range(FirstPage(repos[k]))
        BY <1>0, <2>2, <3>1, <3>3 DEF PhaseOK, Reachable
      <4>. QED
        BY <4>1 DEF FirstPage, p
    <3>. QED
      BY <3>2, <3>3
  <2>. QED
    BY <1>7, <1>9, <1>13, <1>14, <1>16, <2>1, <2>2
<1>17. ASSUME Active', NEW r \in Universe(svc), ~Nested(r)
       PROVE  /\ r \in Twice' => r \in Twice \/ (r \in Held /\ Pending(r))
              /\ r \in Held' /\ Pending(r)' => r \in Held /\ Pending(r)
  <2>1. r \in Twice' => r \in Twice \/ (r \in Held /\ Pending(r))
    BY <1>1, <1>10
  <2>2. ASSUME r \in Range(p) PROVE ~Pending(r)'
    <3>1. r \in Hosted /\ r.ns = k
      BY <1>1, <2>2
    <3>2. \A g \in Later : ~Has(g, r)
      BY <1>0, <1>17, <3>1, OneRoute
    <3>. QED
      BY <1>7, <1>13, <1>17, <3>1, <3>2
  <2>3. ASSUME r \in Held', Pending(r)' PROVE r \in Held /\ Pending(r)
    BY <1>7, <1>9, <1>13, <1>14, <1>15, <1>17, <2>2, <2>3
  <2>. QED
    BY <2>1, <2>3
<1>18. CountsOK'
  <2>1. ASSUME Active' PROVE CountsOK'
    <3>1. missed \subseteq missed'
      BY <1>2
    <3>. HIDE DEF k
    <3>. QED
      BY <1>0, <1>2, <1>6, <1>7, <1>16, <1>17, <2>1, <3>1, CommandStep
  <2>2. ASSUME ~Active' PROVE CountsOK'
    BY <2>2 DEF CountsOK
  <2>. QED
    BY <2>1, <2>2
<1>. QED
  BY <1>7, <1>11, <1>12, <1>18 DEF ListInv

LEMMA RepoPageStep ==
    ASSUME ListInv, RepoPage
    PROVE  ListInv'
<1>1. PICK answer, read : /\ answer = InGroup(Head(todo)) /\ read = got \o Page(answer, pages)
                          /\ pc = "repos" /\ UNCHANGED <<service, ghosts>>
                          /\ \/ /\ ReadsAllPages /\ More(answer, pages)
                                /\ got' = read /\ pages' = pages + 1
                                /\ UNCHANGED <<pc, scope, lang, top, todo, acc, result>>
                             \/ /\ ~(ReadsAllPages /\ More(answer, pages))
                                /\ IF svc.plugin = "gitlab"
                                   THEN /\ acc' = acc \o read /\ got' = <<>> /\ pages' = 0 /\ pc' = "subgroups"
                                        /\ UNCHANGED <<scope, lang, top, todo, result>>
                                   ELSE NextNamespace(read)
  BY DEF RepoPage
<1>2. CASE ReadsAllPages /\ More(answer, pages)
  BY <1>1, <1>2, NextPage
<1>3. CASE ~(ReadsAllPages /\ More(answer, pages)) /\ svc.plugin = "gitlab"
  <2>1. ReadsAllPages
    BY <1>3 DEF ReadsAllPages
  <2>. QED
    BY <1>1, <1>3, <2>1, LastPageOfGroup
<1>4. CASE ~(ReadsAllPages /\ More(answer, pages)) /\ svc.plugin # "gitlab"
  BY <1>1, <1>4, LastPageOfNamespace
<1>. QED
  BY <1>2, <1>3, <1>4

\* The subgroups of a group take its place.
LEMMA SubgroupsListedStep ==
    ASSUME ListInv, SubgroupsListed
    PROVE  ListInv'
<1>0. ServiceOK /\ ListOK /\ PhaseOK /\ RouteOK /\ CountsOK
  BY DEF ListInv
<1>. DEFINE head == Head(todo)
            groups == svc.sub[head] \o Tail(todo)
<1>1. pc = "subgroups" /\ NextGroup(groups, acc) /\ UNCHANGED <<service, ghosts>>
  BY DEF SubgroupsListed
<1>2. svc' = svc /\ repos' = repos /\ late' = late /\ due' = due /\ missed' = missed
      /\ created' = created /\ deleted' = deleted
  BY <1>1 DEF service, ghosts
<1>3. svc.plugin = "gitlab" /\ Working /\ Active /\ top # <<>> /\ todo # <<>> /\ got = <<>>
  BY <1>0, <1>1 DEF PhaseOK, Working, Active, Listing
<1>4. Askable = DOMAIN repos
  BY <1>0, <1>3, ServiceFacts DEF Askable
<1>5. /\ todo \in Seq(Askable) /\ Tail(todo) \in Seq(Askable) /\ head \in DOMAIN repos /\ head \in Range(todo)
      /\ Range(Tail(todo)) \subseteq Range(todo) /\ Repeats(Tail(todo)) \subseteq Repeats(todo)
      /\ Range(todo) \subseteq DOMAIN repos
      /\ Repeats(todo) = {} => head \notin Range(Tail(todo))
  <2>1. todo \in Seq(Askable)
    BY <1>0 DEF ListOK
  <2>. QED
    BY <1>3, <1>4, <2>1, Behind
<1>6. /\ svc.sub[head] \in Seq(Askable) /\ Repeats(svc.sub[head]) = {}
      /\ \A h \in Range(svc.sub[head]) : h \in DOMAIN repos /\ Len(h) = Len(head) + 1 /\ IsPrefix(head, h)
      /\ \A h, k \in Range(svc.sub[head]) : IsPrefix(h, k) => h = k
      /\ \A h \in DOMAIN repos :
            IsPrefix(head, h) /\ h # head => \E k \in Range(svc.sub[head]) : IsPrefix(k, h)
  BY <1>0, <1>3, <1>4, <1>5, Inside
<1>7. /\ groups \in Seq(Askable) /\ Range(groups) = Range(svc.sub[head]) \cup Range(Tail(todo))
      /\ Repeats(groups) = Repeats(svc.sub[head]) \cup Repeats(Tail(todo))
                           \cup (Range(svc.sub[head]) \cap Range(Tail(todo)))
  <2>. DEFINE below == svc.sub[head]
              tail == Tail(todo)
  <2>1. below \in Seq(Askable) /\ tail \in Seq(Askable)
    BY <1>5, <1>6
  <2>. HIDE DEF below, tail, head
  <2>2. /\ below \o tail \in Seq(Askable) /\ Range(below \o tail) = Range(below) \cup Range(tail)
        /\ Repeats(below \o tail) = Repeats(below) \cup Repeats(tail) \cup (Range(below) \cap Range(tail))
    BY <2>1, Joined
  <2>. QED
    BY <2>2 DEF below, tail
<1>8. /\ \A g \in Range(todo) : IsPrefix(Head(top), g)
      /\ Repeats(todo) = {} /\ \A g, h \in Range(todo) : IsPrefix(g, h) => g = h
  BY <1>0, <1>3 DEF RouteOK
<1>9. \A g \in DOMAIN repos : g \in Seq(Names) /\ Len(g) \in Nat
  BY <1>0, ServiceFacts
<1>10. Head(top) \in DOMAIN repos
  BY <1>0, <1>3, <1>4, Behind DEF ListOK
<1>. HIDE DEF head, groups
<1>11. \A g \in Range(groups) : IsPrefix(Head(top), g)
  BY <1>5, <1>6, <1>7, <1>8, <1>9, <1>10, PrefixOrder
\* No group of the tail is above or below one inside the head.
<1>12. ASSUME NEW h \in Range(svc.sub[head]), NEW t \in Range(Tail(todo))
       PROVE  ~IsPrefix(h, t) /\ ~IsPrefix(t, h)
  <2>1. /\ t \in Range(todo) /\ t # head /\ t \in Seq(Names) /\ h \in Seq(Names) /\ head \in Seq(Names)
        /\ Len(h) = Len(head) + 1 /\ IsPrefix(head, h) /\ ~IsPrefix(head, t) /\ ~IsPrefix(t, head)
        /\ Len(head) \in Nat /\ Len(t) \in Nat
    BY <1>5, <1>6, <1>8, <1>9
  <2>2. ~IsPrefix(h, t)
    BY <2>1, PrefixOrder
  <2>3. ASSUME IsPrefix(t, h) PROVE FALSE
    <3>1. ~(Len(t) <= Len(head))
      BY <2>1, <2>3, PrefixOrder
    <3>2. Len(t) <= Len(h)
      BY <2>3 DEF IsPrefix
    <3>3. Len(t) = Len(h)
      BY <2>1, <3>1, <3>2
    <3>4. t = h
      BY <2>1, <2>3, <3>3, PrefixOrder
    <3>. QED
      BY <2>1, <3>4
  <2>. QED
    BY <2>2, <2>3
<1>13. Repeats(groups) = {}
  <2>1. ASSUME NEW h \in Range(svc.sub[head]), h \in Range(Tail(todo)) PROVE FALSE
    <3>1. h \in Seq(Names)
      BY <1>6, <1>9
    <3>2. IsPrefix(h, h)
      BY <3>1, PrefixOrder
    <3>. QED
      BY <1>12, <2>1, <3>2
  <2>. QED
    BY <1>5, <1>6, <1>7, <1>8, <2>1
<1>14. \A g, h \in Range(groups) : IsPrefix(g, h) => g = h
  BY <1>5, <1>6, <1>7, <1>8, <1>12
<1>15. /\ top' = top /\ todo' = groups /\ result' = result
       /\ pages' = 0 /\ acc' = acc /\ got' = <<>> /\ scope' = scope /\ lang' = lang
       /\ Held' = Range(result) \cup Range(acc)
       /\ Twice' = Repeats(result) \cup Repeats(acc) \cup (Range(result) \cap Range(acc))
       /\ PhaseOK' /\ RouteOK'
       /\ \A r : Pending(r)' <=> r \in Hosted /\ \E g \in Range(groups) \cup Range(Tail(top)) : Has(g, r)
  BY <1>0, <1>1, <1>3, <1>7, <1>11, <1>13, <1>14, NextGroupStep
<1>16. Held' = Held /\ Twice' \subseteq Twice
  BY <1>3, <1>15, Empty DEF Held, Twice
<1>17. ServiceOK'
  BY <1>0, <1>1, SameService
<1>18. ListOK'
  <2>1. Hosted' = Hosted /\ Askable' = Askable /\ Universe(svc)' = Universe(svc)
    BY <1>1, SameService
  <2>2. got' \in Seq(Universe(svc)) /\ pages' \in Nat
    BY <1>15
  <2>3. top' \in Seq(Askable) /\ todo' \in Seq(Askable)
    BY <1>0, <1>7, <1>15 DEF ListOK
  <2>. QED
    BY <1>0, <1>2, <1>3, <1>15, <1>16, <2>1, <2>2, <2>3 DEF ListOK
<1>19. ASSUME NEW r \in Hosted PROVE Pending(r)' <=> Pending(r)
  <2>1. r.ns \in DOMAIN repos /\ \A g : Has(g, r) <=> IsPrefix(g, r.ns)
    BY <1>0, <1>3, HostedIn DEF Has
  <2>2. ProjectKey(head) = head
    BY <1>3 DEF ProjectKey
  <2>3. Unread(r) <=> IsPrefix(head, r.ns) /\ r.ns # head
    BY <1>1, <1>3, <2>1, <2>2 DEF Unread, head
  <2>4. IsPrefix(head, r.ns) /\ r.ns # head <=> \E g \in Range(svc.sub[head]) : IsPrefix(g, r.ns)
    <3>1. ASSUME NEW g \in Range(svc.sub[head]), IsPrefix(g, r.ns)
          PROVE  IsPrefix(head, r.ns) /\ r.ns # head
      <4>1. /\ g \in Seq(Names) /\ r.ns \in Seq(Names) /\ head \in Seq(Names) /\ Len(head) \in Nat
            /\ Len(g) = Len(head) + 1 /\ IsPrefix(head, g)
        BY <1>5, <1>6, <1>9, <2>1
      <4>2. IsPrefix(head, r.ns)
        BY <3>1, <4>1, PrefixOrder
      <4>3. Len(g) <= Len(r.ns)
        BY <3>1 DEF IsPrefix
      <4>. QED
        BY <4>1, <4>2, <4>3
    <3>. QED
      BY <1>6, <2>1, <3>1
  <2>5. Later = Range(Tail(top)) \cup Range(Tail(todo))
    BY <1>3 DEF Later
  <2>. QED
    BY <1>3, <1>7, <1>15, <2>1, <2>3, <2>4, <2>5 DEF Pending, Working
<1>20. \A r : (Pending(r)' => r \in Hosted) /\ (Pending(r) => r \in Hosted)
  BY <1>15 DEF Pending
<1>21. CountsOK'
  BY <1>0, <1>1, <1>2, <1>3, <1>15, <1>16, <1>19, <1>20, CommandStep
<1>. QED
  BY <1>15, <1>17, <1>18, <1>21 DEF ListInv

\* A subgroup that fails is missed with all it has.
LEMMA SkipSubgroupStep ==
    ASSUME ListInv, pc \in {"repos", "subgroups"}, SkipSubgroup,
           UNCHANGED <<service, due, created, deleted>>
    PROVE  ListInv'
<1>0. ServiceOK /\ ListOK /\ PhaseOK /\ RouteOK /\ CountsOK
  BY DEF ListInv
<1>1. svc.plugin = "gitlab" /\ NextGroup(Tail(todo), acc) /\ missed' = missed \cup Within(Head(todo))
  BY DEF SkipSubgroup, InSubgroup
<1>2. svc' = svc /\ repos' = repos /\ late' = late
  BY DEF service
<1>3. Working /\ Active /\ top # <<>> /\ todo # <<>>
  BY <1>0 DEF PhaseOK, Working, Active, Listing
<1>4. /\ todo \in Seq(Askable) /\ Tail(todo) \in Seq(Askable)
      /\ Range(Tail(todo)) \subseteq Range(todo) /\ Repeats(Tail(todo)) \subseteq Repeats(todo)
      /\ Head(todo) \in Askable
  <2>1. todo \in Seq(Askable)
    BY <1>0 DEF ListOK
  <2>. QED
    BY <1>3, <2>1, Behind
<1>5. /\ \A g \in Range(todo) : IsPrefix(Head(top), g)
      /\ Repeats(todo) = {} /\ \A g, h \in Range(todo) : IsPrefix(g, h) => g = h
  BY <1>0, <1>1, <1>3 DEF RouteOK
<1>6. /\ top' = top /\ todo' = Tail(todo) /\ result' = result
      /\ pages' = 0 /\ acc' = acc /\ got' = <<>> /\ scope' = scope /\ lang' = lang
      /\ Held' = Range(result) \cup Range(acc)
      /\ Twice' = Repeats(result) \cup Repeats(acc) \cup (Range(result) \cap Range(acc))
      /\ PhaseOK' /\ RouteOK'
      /\ \A r : Pending(r)' <=> r \in Hosted /\ \E g \in Range(Tail(todo)) \cup Range(Tail(top)) : Has(g, r)
  <2>1. \A g \in Range(Tail(todo)) : IsPrefix(Head(top), g)
    BY <1>4, <1>5
  <2>2. Repeats(Tail(todo)) = {} /\ \A g, h \in Range(Tail(todo)) : IsPrefix(g, h) => g = h
    BY <1>4, <1>5
  <2>. QED
    BY <1>0, <1>1, <1>4, <2>1, <2>2, NextGroupStep
<1>7. Held' \subseteq Held /\ Twice' \subseteq Twice /\ Held \subseteq Held' \cup Range(got)
  BY <1>6 DEF Held, Twice
<1>8. ServiceOK'
  BY <1>0, SameService
<1>9. ListOK'
  <2>1. Hosted' = Hosted /\ Askable' = Askable /\ Universe(svc)' = Universe(svc)
    BY SameService
  <2>2. got' \in Seq(Universe(svc)) /\ pages' \in Nat
    BY <1>6
  <2>. QED
    BY <1>0, <1>2, <1>3, <1>4, <1>6, <1>7, <2>1, <2>2 DEF ListOK
<1>10. Later = Range(Tail(top)) \cup Range(Tail(todo))
  BY <1>3 DEF Later
<1>11. \A r : Pending(r)' => Pending(r)
  BY <1>3, <1>6, <1>10 DEF Pending
<1>12. ASSUME NEW r \in due \ missed'
       PROVE  /\ r \in Held => r \in Held'
              /\ Pending(r) /\ Reachable(r) => r \in Held' \/ Pending(r)'
  <2>1. r \in Hosted /\ ~IsPrefix(Head(todo), r.ns)
    BY <1>0, <1>1, <1>12 DEF ListOK, Within
  <2>2. ASSUME r \in Range(got) PROVE FALSE
    <3>1. pc = "repos" /\ r.ns = ProjectKey(Head(todo))
      BY <1>0, <2>2, Empty DEF PhaseOK
    <3>2. Has(Head(todo), r)
      BY <1>0, <1>4, <2>1, <3>1, HasOwn, HostedIn
    <3>. QED
      BY <1>1, <2>1, <3>2 DEF Has
  <2>3. ~Unread(r)
    BY <1>1, <2>1 DEF Unread, Has
  <2>4. Pending(r) => Pending(r)'
    BY <1>6, <1>10, <2>3, <1>3 DEF Pending, Working
  <2>. QED
    BY <1>7, <2>2, <2>4
<1>13. CountsOK'
  BY <1>0, <1>1, <1>3, <1>6, <1>7, <1>11, <1>12, CommandStep
<1>. QED
  BY <1>6, <1>8, <1>9, <1>13 DEF ListInv

\* The languages of one repository: it stays in, or is not what was asked for,
\* or its call failed and it is missed.
LEMMA OneRepository ==
    ASSUME ListInv, pc = "languages", lang, acc # <<>>, acc' = Tail(acc),
           UNCHANGED <<service, pc, scope, lang, top, todo, pages, result, due, created, deleted>>,
           missed \subseteq missed',
           \/ got' = Append(got, Head(acc))
           \/ got' = got /\ (Head(acc).speaks => Head(acc) \in missed')
    PROVE  ListInv'
<1>0. ServiceOK /\ ListOK /\ PhaseOK /\ RouteOK /\ CountsOK
  BY DEF ListInv
<1>1. svc' = svc /\ repos' = repos /\ late' = late
  BY DEF service
<1>2. acc \in Seq(Universe(svc)) /\ got \in Seq(Universe(svc))
  BY <1>0 DEF ListOK
<1>3. /\ acc' \in Seq(Universe(svc)) /\ Head(acc) \in Universe(svc)
      /\ Range(acc) = {Head(acc)} \cup Range(acc')
      /\ Repeats(acc) = Repeats(acc') \cup ({Head(acc)} \cap Range(acc'))
  BY <1>2, RangeTail
<1>4. /\ Append(got, Head(acc)) \in Seq(Universe(svc))
      /\ Range(Append(got, Head(acc))) = Range(got) \cup {Head(acc)}
      /\ Repeats(Append(got, Head(acc))) = Repeats(got) \cup (Range(got) \cap {Head(acc)})
  BY <1>2, <1>3, RangeAppend
<1>5. /\ got' \in Seq(Universe(svc)) /\ Range(got) \subseteq Range(got')
      /\ Range(got') \subseteq Range(got) \cup {Head(acc)}
      /\ Repeats(got') \subseteq Repeats(got) \cup (Range(got) \cap {Head(acc)})
      /\ Head(acc) \in Range(got') \/ (Head(acc).speaks => Head(acc) \in missed')
  BY <1>2, <1>4
<1>6. Held' \subseteq Held /\ Held \subseteq Held' \cup {Head(acc)}
  BY <1>3, <1>5 DEF Held
<1>7. Twice' \subseteq Twice
  BY <1>3, <1>5 DEF Twice
<1>8. Active /\ Working /\ Active' /\ svc.plugin = "gitlab"
  BY <1>0 DEF Active, Listing, Working, PhaseOK
<1>9. ServiceOK'
  BY <1>0, SameService
<1>10. ListOK'
  <2>1. Hosted' = Hosted /\ Askable' = Askable /\ Universe(svc)' = Universe(svc)
    BY SameService
  <2>. QED
    BY <1>0, <1>1, <1>3, <1>5, <1>6, <1>8, <2>1 DEF ListOK
<1>11. PhaseOK'
  <2>1. top # <<>> /\ todo = <<>>
    BY <1>0, <1>8 DEF PhaseOK
  <2>. QED
    BY <1>1, <1>8, <2>1 DEF PhaseOK
<1>12. RouteOK'
  BY <1>0, <1>1, <1>8 DEF RouteOK
<1>13. \A r : Pending(r)' <=> Pending(r)
  <2>1. Hosted' = Hosted /\ \A g, r : Has(g, r)' = Has(g, r)
    BY SameService
  <2>2. Later' = Later /\ todo = <<>> /\ pc \notin {"groups", "own"}
    BY <1>0 DEF Later, PhaseOK
  <2>. QED
    BY <2>1, <2>2 DEF Pending, Unread, Working
<1>14. ASSUME NEW r \in due \ missed'
       PROVE  /\ r \in Held => r \in Held'
              /\ Pending(r) /\ Reachable(r) => r \in Held' \/ Pending(r)'
  <2>1. r.speaks
    BY <1>0, <1>8, <1>14 DEF ListOK
  <2>2. Range(got') \subseteq Held'
    BY DEF Held
  <2>. QED
    BY <1>5, <1>6, <1>13, <1>14, <2>1, <2>2
<1>15. CountsOK'
  BY <1>0, <1>6, <1>7, <1>8, <1>13, <1>14, CommandStep
<1>. QED
  BY <1>9, <1>10, <1>11, <1>12, <1>15 DEF ListInv

LEMMA LanguagesReadStep ==
    ASSUME ListInv, LanguagesRead
    PROVE  ListInv'
<1>1. /\ pc = "languages" /\ lang /\ acc # <<>> /\ acc' = Tail(acc)
      /\ UNCHANGED <<service, pc, scope, lang, top, todo, pages, result, ghosts>>
      /\ got' = IF Head(acc).speaks THEN Append(got, Head(acc)) ELSE got
  BY DEF LanguagesRead
<1>2. due' = due /\ missed' = missed /\ created' = created /\ deleted' = deleted
  BY <1>1 DEF ghosts
<1>. QED
  BY <1>1, <1>2, OneRepository

LEMMA SkipRepositoryStep ==
    ASSUME ListInv, pc = "languages", lang, acc # <<>>, SkipRepository,
           UNCHANGED <<service, due, created, deleted>>
    PROVE  ListInv'
  BY OneRepository DEF SkipRepository

\* The namespace is done: what was found is what the list has.
LEMMA GroupDoneStep ==
    ASSUME ListInv, GroupDone
    PROVE  ListInv'
<1>0. ServiceOK /\ ListOK /\ PhaseOK /\ RouteOK /\ CountsOK
  BY DEF ListInv
<1>1. pc = "languages" /\ NextNamespace(got \o acc) /\ UNCHANGED <<service, ghosts>>
  BY DEF GroupDone
<1>2. svc' = svc /\ repos' = repos /\ late' = late /\ due' = due /\ missed' = missed
      /\ created' = created /\ deleted' = deleted
  BY <1>1 DEF service, ghosts
<1>3. Working /\ Active /\ top # <<>> /\ todo = <<>>
  BY <1>0, <1>1 DEF PhaseOK, Working, Active, Listing
<1>4. acc \in Seq(Universe(svc)) /\ got \in Seq(Universe(svc))
  BY <1>0 DEF ListOK
<1>5. /\ got \o acc \in Seq(Universe(svc)) /\ Range(got \o acc) = Range(got) \cup Range(acc)
      /\ Repeats(got \o acc) = Repeats(got) \cup Repeats(acc) \cup (Range(got) \cap Range(acc))
  BY <1>4, Joined
<1>6. /\ top' \in Seq(Askable) /\ todo' \in Seq(Askable) /\ result' \in Seq(Universe(svc))
      /\ pages' = 0 /\ acc' = <<>> /\ got' = <<>> /\ scope' = scope /\ lang' = lang
      /\ Held' = Range(result) \cup Range(got \o acc)
      /\ Twice' = Repeats(result) \cup Repeats(got \o acc) \cup (Range(result) \cap Range(got \o acc))
      /\ PhaseOK' /\ RouteOK'
      /\ Active' => \A r : Pending(r)' <=> r \in Hosted /\ \E g \in Range(Tail(top)) : Has(g, r)
  BY <1>0, <1>1, <1>3, <1>5, NextNamespaceStep
<1>7. Held' = Held /\ Twice' \subseteq Twice
  BY <1>5, <1>6 DEF Held, Twice
<1>8. ServiceOK'
  BY <1>0, <1>1, SameService
<1>9. ListOK'
  <2>1. Hosted' = Hosted /\ Askable' = Askable /\ Universe(svc)' = Universe(svc)
    BY <1>1, SameService
  <2>2. acc' \in Seq(Universe(svc)) /\ got' \in Seq(Universe(svc)) /\ pages' \in Nat
    BY <1>6
  <2>. QED
    BY <1>0, <1>2, <1>3, <1>6, <1>7, <2>1, <2>2 DEF ListOK
<1>10. ASSUME Active' PROVE CountsOK'
  <2>1. Later = Range(Tail(top))
    BY <1>3 DEF Later
  <2>2. \A r : Pending(r)' <=> Pending(r)
    BY <1>1, <1>3, <1>6, <1>10, <2>1 DEF Pending, Unread, Working
  <2>. QED
    BY <1>0, <1>1, <1>2, <1>3, <1>6, <1>7, <2>2, CommandStep
<1>11. CountsOK'
  BY <1>10 DEF CountsOK
<1>. QED
  BY <1>6, <1>8, <1>9, <1>11 DEF ListInv

\* A namespace that fails is missed with all it has.
LEMMA SkipNamespaceStep ==
    ASSUME ListInv, pc \in {"repos", "subgroups"}, SkipNamespace,
           UNCHANGED <<service, due, created, deleted>>
    PROVE  ListInv'
<1>0. ServiceOK /\ ListOK /\ PhaseOK /\ RouteOK /\ CountsOK
  BY DEF ListInv
<1>1. ~InSubgroup /\ scope = All /\ NextNamespace(<<>>) /\ missed' = missed \cup Within(Head(top))
  BY DEF SkipNamespace
<1>2. svc' = svc /\ repos' = repos /\ late' = late
  BY DEF service
<1>3. Working /\ Active /\ top # <<>> /\ todo # <<>>
  BY <1>0 DEF PhaseOK, Working, Active, Listing
<1>4. <<>> \in Seq(Universe(svc)) /\ Range(<<>>) = {} /\ Repeats(<<>>) = {}
  BY Empty
<1>5. /\ top' \in Seq(Askable) /\ todo' \in Seq(Askable) /\ result' \in Seq(Universe(svc))
      /\ pages' = 0 /\ acc' = <<>> /\ got' = <<>> /\ scope' = scope /\ lang' = lang
      /\ Held' = Range(result) \cup Range(<<>>)
      /\ Twice' = Repeats(result) \cup Repeats(<<>>) \cup (Range(result) \cap Range(<<>>))
      /\ PhaseOK' /\ RouteOK'
      /\ Active' => \A r : Pending(r)' <=> r \in Hosted /\ \E g \in Range(Tail(top)) : Has(g, r)
  BY <1>0, <1>1, <1>3, <1>4, NextNamespaceStep
<1>6. Held' \subseteq Held /\ Twice' \subseteq Twice /\ Held \subseteq Held' \cup Range(acc) \cup Range(got)
  BY <1>4, <1>5 DEF Held, Twice
<1>7. ServiceOK'
  BY <1>0, SameService
<1>8. ListOK'
  <2>1. Hosted' = Hosted /\ Askable' = Askable /\ Universe(svc)' = Universe(svc)
    BY SameService
  <2>2. acc' \in Seq(Universe(svc)) /\ got' \in Seq(Universe(svc)) /\ pages' \in Nat
    BY <1>4, <1>5
  <2>. QED
    BY <1>0, <1>2, <1>3, <1>5, <1>6, <2>1, <2>2 DEF ListOK
\* All groups under way are within the namespace.
<1>9. /\ Head(top) \in DOMAIN repos /\ Head(todo) = Head(top) /\ Range(todo) \subseteq Askable
      /\ \A g \in Range(todo) : g \in Seq(Names) /\ IsPrefix(Head(top), g) /\ ProjectKey(g) = g
      /\ Head(todo) \in Range(todo) /\ Range(Tail(todo)) \subseteq Range(todo) /\ Head(top) \in Seq(Names)
  <2>1. /\ Head(top) \in Range(top) /\ Head(todo) \in Range(todo) /\ Range(todo) \subseteq Askable
        /\ Range(Tail(todo)) \subseteq Range(todo)
    BY <1>0, <1>3, Behind DEF ListOK
  <2>2. Head(top) \in DOMAIN repos
    BY <1>0, <1>1, <1>3, <2>1, RangeIndex, ServiceFacts DEF RouteOK
  <2>3. Head(top) \in Seq(Names)
    BY <1>0, <2>2, ServiceFacts
  <2>4. CASE svc.plugin = "gitlab"
    <3>1. Head(todo) = Head(top)
      BY <1>1, <2>4 DEF InSubgroup
    <3>2. \A g \in Range(todo) : g \in Seq(Names) /\ ProjectKey(g) = g
      BY <1>0, <2>1, <2>4, KeyOf, ServiceFacts
    <3>3. \A g \in Range(todo) : IsPrefix(Head(top), g)
      BY <1>0, <1>3, <2>4 DEF RouteOK
    <3>. QED
      BY <2>1, <2>2, <2>3, <3>1, <3>2, <3>3
  <2>5. CASE svc.plugin # "gitlab"
    <3>1. todo = <<Head(top)>>
      BY <1>0, <1>3, <2>5 DEF RouteOK
    <3>2. Range(todo) = {Head(top)} /\ Head(todo) = Head(top)
      BY <2>2, <3>1, Single
    <3>3. IsPrefix(Head(top), Head(top)) /\ ProjectKey(Head(top)) = Head(top)
      BY <1>0, <2>1, <2>2, <2>3, <3>2, KeyOf, PrefixOrder
    <3>. QED
      BY <2>1, <2>2, <2>3, <3>2, <3>3
  <2>. QED
    BY <2>4, <2>5
<1>10. \A r \in Hosted : \A g \in Range(todo) : Has(g, r) => IsPrefix(Head(top), r.ns)
  <2>1. ASSUME NEW r \in Hosted, NEW g \in Range(todo), Has(g, r) PROVE IsPrefix(Head(top), r.ns)
    <3>1. r.ns \in Seq(Names)
      BY <1>0, HostedIn, ServiceFacts
    <3>2. IsPrefix(g, r.ns)
      <4>1. CASE svc.plugin = "gitlab"
        BY <2>1, <4>1 DEF Has
      <4>2. CASE svc.plugin # "gitlab"
        <5>1. r.ns = g
          BY <1>9, <2>1, <4>2 DEF Has
        <5>. QED
          BY <3>1, <5>1, PrefixOrder
      <4>. QED
        BY <4>1, <4>2
    <3>. QED
      BY <1>9, <3>1, <3>2, PrefixOrder
  <2>. QED
    BY <2>1
<1>11. Later = Range(Tail(top)) \cup Range(Tail(todo))
  BY <1>3 DEF Later
<1>12. ASSUME Active', NEW r PROVE Pending(r)' => Pending(r)
  BY <1>3, <1>5, <1>11, <1>12 DEF Pending
<1>13. ASSUME Active', NEW r \in due \ missed'
       PROVE  /\ r \in Held => r \in Held'
              /\ Pending(r) /\ Reachable(r) => r \in Held' \/ Pending(r)'
  <2>1. r \in Hosted /\ ~IsPrefix(Head(top), r.ns)
    BY <1>0, <1>1, <1>13 DEF ListOK, Within
  <2>2. ASSUME r \in Range(got) PROVE FALSE
    <3>1. r.ns = ProjectKey(Head(todo))
      BY <1>0, <2>2, Empty DEF PhaseOK
    <3>2. IsPrefix(Head(top), r.ns)
      BY <1>9, <3>1
    <3>. QED
      BY <2>1, <3>2
  <2>3. ASSUME r \in Range(acc) PROVE FALSE
    <3>1. CASE svc.plugin = "gitlab"
      <4>1. Has(Head(top), r)
        BY <1>0, <2>3 DEF PhaseOK
      <4>. QED
        BY <2>1, <3>1, <4>1 DEF Has
    <3>2. CASE svc.plugin # "gitlab"
      BY <1>0, <1>3, <2>3, <3>2, Empty DEF RouteOK
    <3>. QED
      BY <3>1, <3>2
  <2>4. ~Unread(r) /\ \A g \in Range(Tail(todo)) : ~Has(g, r)
    BY <1>9, <1>10, <2>1 DEF Unread
  <2>5. Pending(r) => Pending(r)'
    BY <1>3, <1>5, <1>11, <1>13, <2>4 DEF Pending, Working
  <2>. QED
    BY <1>6, <2>2, <2>3, <2>5
<1>14. ASSUME Active' PROVE CountsOK'
  BY <1>0, <1>1, <1>3, <1>5, <1>6, <1>12, <1>13, <1>14, CommandStep
<1>15. CountsOK'
  BY <1>14 DEF CountsOK
<1>. QED
  BY <1>5, <1>7, <1>8, <1>15 DEF ListInv

\* When no list is under way, nothing is promised of one.
LEMMA Ended ==
    ASSUME ServiceOK, UNCHANGED service, ListOK',
           pc' \in {"idle", "failed", "saved", "fetched", "analysed", "links"}
    PROVE  ListInv'
<1>1. ServiceOK'
  BY SameService
<1>2. ~Working' /\ ~Active'
  BY DEF Working, Active, Listing
<1>3. PhaseOK' /\ RouteOK' /\ CountsOK'
  BY <1>2 DEF PhaseOK, RouteOK, CountsOK
<1>. QED
  BY <1>1, <1>3 DEF ListInv

LEMMA Failing ==
    ASSUME ListInv, pc' = "failed", UNCHANGED <<service, listVars, due, created, deleted>>
    PROVE  ListInv'
<1>0. ServiceOK /\ ListOK
  BY DEF ListInv
<1>1. ~Active' /\ Held' = Held
  BY DEF Active, Listing, Held, listVars
<1>2. late' = late /\ Hosted' = Hosted /\ Askable' = Askable /\ Universe(svc)' = Universe(svc)
  BY SameService DEF service
<1>3. ListOK'
  BY <1>0, <1>1, <1>2 DEF ListOK, listVars
<1>. QED
  BY <1>0, <1>3, Ended

LEMMA CallFailsStep ==
    ASSUME ListInv, CallFails
    PROVE  ListInv'
<1>1. /\ UNCHANGED <<service, due, created, deleted>>
      /\ \/ pc' = "failed" /\ UNCHANGED listVars
         \/ pc \in {"repos", "subgroups"} /\ SkipSubgroup
         \/ pc \in {"repos", "subgroups"} /\ SkipNamespace
         \/ pc = "languages" /\ lang /\ acc # <<>> /\ SkipRepository
  BY DEF CallFails, FailList
<1>2. CASE pc' = "failed" /\ UNCHANGED listVars
  BY <1>1, <1>2, Failing
<1>3. CASE pc \in {"repos", "subgroups"} /\ SkipSubgroup
  BY <1>1, <1>3, SkipSubgroupStep
<1>4. CASE pc \in {"repos", "subgroups"} /\ SkipNamespace
  BY <1>1, <1>4, SkipNamespaceStep
<1>5. CASE pc = "languages" /\ lang /\ acc # <<>> /\ SkipRepository
  BY <1>1, <1>5, SkipRepositoryStep
<1>. QED
  BY <1>1, <1>2, <1>3, <1>4, <1>5

\* The namespaces are known: their repositories are what was before the list.
LEMMA GroupsListedStep ==
    ASSUME ListInv, GroupsListed
    PROVE  ListInv'
<1>0. ServiceOK /\ ListOK /\ PhaseOK /\ RouteOK /\ CountsOK
  BY DEF ListInv
<1>1. /\ pc = "groups" /\ top' = NamedGroups
      /\ todo' = (IF NamedGroups = <<>> THEN <<>> ELSE <<Head(NamedGroups)>>)
      /\ pc' = CASE NamedGroups # <<>> -> "repos"
                 [] NamedGroups = <<>> /\ svc.plugin = "github" -> "own"
                 [] OTHER -> "failed"
      /\ UNCHANGED <<service, scope, lang, got, pages, acc, result, due, missed, created, deleted>>
  BY DEF GroupsListed, ghosts
<1>2. svc' = svc /\ repos' = repos /\ late' = late
  BY <1>1 DEF service
<1>3. /\ Active /\ scope = All /\ Held = {} /\ Held' = {} /\ pages = 0
      /\ Range(got) = {} /\ Range(acc) = {} /\ Range(result) = {}
  BY <1>0, <1>1 DEF Active, Listing, PhaseOK, Held
<1>4. /\ NamedGroups \in Seq(Askable) /\ Repeats(NamedGroups) = {}
      /\ Range(NamedGroups) \subseteq Range(svc.groups)
      /\ NamedGroups = <<>> => svc.groups = <<>>
  <2>1. NamedGroups \in Seq(DOMAIN repos) /\ DOMAIN repos \subseteq Askable
    BY <1>0, NamedGroupsFacts, ServiceFacts DEF Askable
  <2>2. NamedGroups \in Seq(Askable)
    BY <2>1
  <2>. QED
    BY <1>0, <2>2, NamedGroupsFacts
<1>5. ServiceOK'
  BY <1>0, <1>1, SameService
<1>6. Hosted' = Hosted /\ Askable' = Askable /\ Universe(svc)' = Universe(svc)
      /\ (\A g, r : Has(g, r)' = Has(g, r)) /\ Namespaces(All)' = Namespaces(All)
  BY <1>1, SameService
<1>7. Twice' = Twice
  BY <1>1 DEF Twice
<1>8. CASE NamedGroups # <<>>
  <2>1. /\ Head(NamedGroups) \in Askable
        /\ Range(NamedGroups) = {Head(NamedGroups)} \cup Range(Tail(NamedGroups))
    BY <1>4, <1>8, RangeTail
  <2>2. /\ pc' = "repos" /\ todo' = <<Head(NamedGroups)>> /\ todo' \in Seq(Askable) /\ todo' # <<>>
        /\ Head(todo') = Head(NamedGroups) /\ Tail(todo') = <<>>
        /\ Range(todo') = {Head(NamedGroups)} /\ Repeats(todo') = {}
    BY <1>1, <1>8, <2>1, Single
  <2>3. ListOK'
    <3>1. Active' /\ top' \in Seq(Askable) /\ todo' \in Seq(Askable) /\ Held' \cap late' = {}
      BY <1>1, <1>3, <1>4, <2>2 DEF Active, Listing
    <3>. QED
      BY <1>0, <1>1, <1>2, <1>3, <1>6, <3>1 DEF ListOK
  <2>4. PhaseOK'
    BY <1>1, <1>3, <1>8, <2>2 DEF PhaseOK
  <2>5. RouteOK'
    <3>1. svc.plugin # "gitlab" => acc = <<>>
      <4>1. acc \in Seq(Universe(svc))
        BY <1>0 DEF ListOK
      <4>2. acc # <<>> => Head(acc) \in Range(acc)
        BY <4>1, Behind
      <4>. QED
        BY <1>3, <4>2
    <3>2. svc.plugin = "gitlab" => IsPrefix(Head(NamedGroups), Head(NamedGroups))
      BY <1>0, <2>1, HasOwn, KeyOf, ServiceFacts, PrefixOrder
    <3>. QED
      BY <1>1, <1>2, <1>3, <1>4, <2>2, <3>1, <3>2 DEF RouteOK
  <2>6. Namespaces(scope) = Range(NamedGroups)
    <3>1. svc.groups # <<>>
      <4>1. svc.groups = <<>> => NamedGroups = <<>>
        <5>1. Range(NamedGroups) \subseteq Range(svc.groups) /\ Head(NamedGroups) \in Range(NamedGroups)
          BY <1>4, <2>1
        <5>. QED
          BY <5>1, Empty
      <4>. QED
        BY <1>8, <4>1
    <3>. QED
      BY <1>3, <3>1 DEF Namespaces
  <2>7. \A r : Pending(r)' <=> Pending(r)
    <3>1. \A r : r \in Hosted => (Unread(r)' <=> Has(Head(NamedGroups), r))
      BY <1>0, <1>1, <1>2, <1>3, <1>6, <2>2, NothingRead DEF Unread
    <3>2. Later' = Range(Tail(NamedGroups))
      BY <1>1, <2>2, Empty DEF Later
    <3>. QED
      BY <1>1, <1>6, <2>1, <2>2, <2>6, <3>1, <3>2 DEF Pending, Working
  <2>8. CountsOK'
    BY <1>0, <1>1, <1>3, <1>7, <2>7, CommandStep
  <2>. QED
    BY <1>5, <2>3, <2>4, <2>5, <2>8 DEF ListInv
<1>9. CASE NamedGroups = <<>> /\ svc.plugin = "github"
  <2>1. pc' = "own" /\ todo' = <<>> /\ top' = <<>> /\ svc.groups = <<>>
    BY <1>1, <1>4, <1>9
  <2>2. ListOK'
    <3>1. Active' /\ top' \in Seq(Askable) /\ todo' \in Seq(Askable) /\ Held' \cap late' = {}
      BY <1>1, <1>3, <2>1 DEF Active, Listing
    <3>. QED
      BY <1>0, <1>1, <1>2, <1>3, <1>6, <3>1 DEF ListOK
  <2>3. PhaseOK' /\ RouteOK'
    BY <1>1, <1>2, <1>3, <1>9, <2>1 DEF PhaseOK, RouteOK, Working
  <2>4. \A r : Pending(r)' <=> Pending(r)
    BY <1>1, <1>3, <1>6, <2>1 DEF Pending, Working
  <2>5. CountsOK'
    BY <1>0, <1>1, <1>3, <1>7, <2>4, CommandStep
  <2>. QED
    BY <1>5, <2>2, <2>3, <2>5 DEF ListInv
<1>10. CASE NamedGroups = <<>> /\ svc.plugin # "github"
  <2>1. pc' = "failed" /\ todo' = <<>> /\ top' = <<>>
    BY <1>1, <1>10
  <2>2. ListOK'
    <3>1. ~Active' /\ top' \in Seq(Askable) /\ todo' \in Seq(Askable) /\ Held' \cap late' = {}
      BY <1>1, <1>3, <2>1 DEF Active, Listing
    <3>. QED
      BY <1>0, <1>1, <1>2, <1>3, <1>6, <3>1 DEF ListOK
  <2>. QED
    BY <1>0, <1>1, <2>1, <2>2, Ended
<1>. QED
  BY <1>8, <1>9, <1>10

\* The repositories of GitHub's user, one page of them.
LEMMA OwnListedStep ==
    ASSUME ListInv, OwnListed
    PROVE  ListInv'
<1>0. ServiceOK /\ ListOK /\ PhaseOK /\ RouteOK /\ CountsOK
  BY DEF ListInv
<1>1. /\ pc = "own" /\ result' = FirstPage(repos[svc.user])
      /\ pc' = IF result' = <<>> THEN "failed" ELSE "listed"
      /\ UNCHANGED <<service, scope, lang, top, todo, got, pages, acc, due, missed, created, deleted>>
  BY DEF OwnListed, ghosts
<1>2. svc' = svc /\ repos' = repos /\ late' = late
  BY <1>1 DEF service
<1>3. /\ Active /\ scope = All /\ Held = {} /\ svc.plugin = "github" /\ svc.groups = <<>>
      /\ Range(got) = {} /\ Range(acc) = {}
  BY <1>0, <1>1 DEF Active, Listing, PhaseOK, Held
<1>4. /\ svc.user \in DOMAIN repos /\ repos[svc.user] \in Seq(Universe(svc)) /\ IsInjective(repos[svc.user])
      /\ \A r \in Range(repos[svc.user]) : r.ns = svc.user
  BY <1>0, <1>3, ServiceFacts
<1>5. result' \in Seq(Universe(svc)) /\ Repeats(result') = {} /\ Range(result') = First(repos[svc.user], PageSize)
  BY <1>1, <1>4, FirstPageHolds
<1>6. acc = <<>> /\ got = <<>>
  <2>1. acc \in Seq(Universe(svc)) /\ got \in Seq(Universe(svc))
    BY <1>0 DEF ListOK
  <2>2. (acc # <<>> => Head(acc) \in Range(acc)) /\ (got # <<>> => Head(got) \in Range(got))
    BY <2>1, Behind
  <2>. QED
    BY <1>3, <2>2
<1>7. Held' = Range(result') /\ Twice' = {} /\ Range(result') \subseteq Range(repos[svc.user])
  <2>1. Range(acc') = {} /\ Range(got') = {} /\ Repeats(acc') = {} /\ Repeats(got') = {}
    BY <1>1, <1>6, Empty
  <2>2. First(repos[svc.user], PageSize) \subseteq Range(repos[svc.user])
    BY DEF First, Range
  <2>. QED
    BY <1>5, <2>1, <2>2 DEF Held, Twice
<1>8. \A r \in Hosted : (Pending(r) <=> r.ns = svc.user) /\ r \in Range(repos[r.ns])
  <2>1. Namespaces(scope) = {svc.user}
    BY <1>3 DEF Namespaces
  <2>2. ProjectKey(svc.user) = svc.user
    BY <1>3 DEF ProjectKey
  <2>. QED
    BY <1>0, <1>1, <1>3, <2>1, <2>2, HostedIn DEF Pending, Has, Working
<1>9. ServiceOK'
  BY <1>0, <1>1, SameService
<1>10. ListOK'
  <2>1. Held' \cap late' = {} /\ due' \subseteq Hosted'
    BY <1>0, <1>1, <1>2, <1>4, <1>7, HostedIn, SameService DEF ListOK, ServiceOK
  <2>2. Askable' = Askable /\ Universe(svc)' = Universe(svc)
    BY <1>1, SameService
  <2>. QED
    BY <1>0, <1>1, <1>2, <1>3, <1>5, <2>1, <2>2 DEF ListOK
<1>11. PhaseOK' /\ RouteOK'
  BY <1>1, <1>6 DEF PhaseOK, RouteOK, Working
<1>12. \A r : ~Pending(r)'
  BY <1>1 DEF Pending, Working
<1>13. \A r \in due : Pending(r) /\ Reachable(r) => r \in Held'
  <2>1. ASSUME NEW r \in Hosted, Pending(r), Reachable(r) PROVE r \in Held'
    <3>1. r.ns = svc.user
      BY <1>8, <2>1
    <3>2. r \in Range(FirstPage(repos[svc.user]))
      BY <1>3, <2>1, <3>1 DEF Reachable, ReadsAllPages
    <3>. QED
      BY <1>1, <1>7, <3>2
  <2>. QED
    BY <1>0, <2>1 DEF ListOK
<1>14. CountsOK'
  BY <1>0, <1>1, <1>3, <1>7, <1>12, <1>13, CommandStep
<1>. QED
  BY <1>9, <1>10, <1>11, <1>14 DEF ListInv

\* A list begins: all that is asked for is before it.
LEMMA ListStep ==
    ASSUME ListInv, NEW s \in Scopes, NEW l \in BOOLEAN, List(s, l)
    PROVE  ListInv'
<1>0. ServiceOK /\ ListOK
  BY DEF ListInv
<1>1. /\ scope' = s /\ lang' = l
      /\ top' = (IF s = All THEN <<>> ELSE <<s>>) /\ todo' = top'
      /\ got' = <<>> /\ pages' = 0 /\ acc' = <<>> /\ result' = <<>>
      /\ pc' = IF s = All THEN "groups" ELSE "repos"
      /\ due' = Asked(s, l) /\ missed' = {} /\ created' = 0 /\ deleted' = 0
      /\ UNCHANGED service
  BY DEF List
<1>2. svc' = svc /\ repos' = repos /\ late' = late
  BY <1>1 DEF service
<1>3. Hosted' = Hosted /\ Askable' = Askable /\ Universe(svc)' = Universe(svc)
      /\ (\A g, r : Has(g, r)' = Has(g, r)) /\ (\A r : Reachable(r)' = Reachable(r))
      /\ Namespaces(s)' = Namespaces(s)
  BY <1>1, SameService
<1>4. Held' = {} /\ Twice' = {}
  BY <1>1, Empty DEF Held, Twice
<1>5. s \in {All} \cup Askable
  BY <1>0, ServiceFacts DEF Scopes, Askable
<1>6. s # All => /\ <<s>> \in Seq(Askable) /\ <<s>> # <<>> /\ Head(<<s>>) = s /\ Tail(<<s>>) = <<>>
                 /\ Range(<<s>>) = {s} /\ Repeats(<<s>>) = {}
  BY <1>5, Single
<1>7. ServiceOK'
  BY <1>0, <1>1, SameService
<1>8. ListOK'
  <2>1. top' \in Seq(Askable) /\ todo' \in Seq(Askable)
    BY <1>1, <1>6
  <2>2. /\ got' \in Seq(Universe(svc)) /\ acc' \in Seq(Universe(svc)) /\ result' \in Seq(Universe(svc))
        /\ pages' \in Nat /\ created' \in Nat /\ deleted' \in Nat
    BY <1>1
  <2>3. due' \subseteq Hosted /\ (lang' => \A r \in due' : r.speaks)
    BY <1>1 DEF Asked
  <2>. QED
    BY <1>1, <1>2, <1>3, <1>4, <1>5, <2>1, <2>2, <2>3 DEF ListOK
<1>9. PhaseOK'
  <2>1. Range(got') = {} /\ Range(acc') = {}
    BY <1>1, Empty
  <2>. QED
    BY <1>1, <1>4, <1>6, <2>1 DEF PhaseOK, Working
<1>10. RouteOK'
  <2>1. ASSUME s # All, svc.plugin = "gitlab" PROVE IsPrefix(s, s)
    <3>1. s \in DOMAIN repos
      BY <1>0, <1>5, <2>1, KeyOf
    <3>. QED
      BY <1>0, <3>1, PrefixOrder, ServiceFacts
  <2>. QED
    BY <1>1, <1>2, <1>6, <2>1 DEF RouteOK, Working
<1>11. ASSUME NEW r \in due' PROVE Pending(r)' /\ Reachable(r)'
  <2>1. r \in Hosted /\ Reachable(r) /\ \E g \in Namespaces(s) : Has(g, r)
    BY <1>1, <1>11 DEF Asked
  <2>2. CASE s = All
    BY <1>1, <1>3, <2>1, <2>2 DEF Pending
  <2>3. CASE s # All
    <3>1. Has(s, r)
      BY <2>1, <2>3 DEF Namespaces
    <3>2. Unread(r)'
      BY <1>0, <1>1, <1>2, <1>3, <1>6, <2>1, <2>3, <3>1, NothingRead DEF Unread
    <3>. QED
      BY <1>1, <1>3, <2>1, <2>3, <3>2 DEF Pending, Working
  <2>. QED
    BY <2>2, <2>3
<1>12. CountsOK'
  <2>1. Lost' = {} /\ Doubled' = {}
    BY <1>4, <1>11 DEF Lost, Doubled
  <2>. QED
    BY <1>1, <2>1, FS_EmptySet DEF CountsOK
<1>. QED
  BY <1>7, <1>8, <1>9, <1>10, <1>12 DEF ListInv

LEMMA SaveStep ==
    ASSUME ListInv, Save
    PROVE  ListInv'
<1>0. ServiceOK /\ ListOK
  BY DEF ListInv
<1>1. /\ top' = <<>> /\ todo' = <<>> /\ got' = <<>> /\ pages' = 0 /\ acc' = <<>> /\ result' = <<>>
      /\ pc' \in {"saved", "idle"}
      /\ UNCHANGED <<service, scope, due, created, deleted>>
  BY DEF Save, ghosts
<1>2. ~Active' /\ Held' = {}
  BY <1>1, Empty DEF Active, Listing, Held
<1>3. Hosted' = Hosted /\ Askable' = Askable /\ Universe(svc)' = Universe(svc)
  BY <1>1, SameService
<1>4. /\ top' \in Seq(Askable) /\ todo' \in Seq(Askable) /\ pages' \in Nat
      /\ got' \in Seq(Universe(svc)) /\ acc' \in Seq(Universe(svc)) /\ result' \in Seq(Universe(svc))
  BY <1>1
<1>5. ListOK'
  BY <1>0, <1>1, <1>2, <1>3, <1>4 DEF ListOK
<1>. QED
  BY <1>0, <1>1, <1>5, Ended

\* The commands that use the file, and the links.
LEMMA UseStep ==
    ASSUME ListInv, UNCHANGED <<service, listVars>>, pc' \in {"fetched", "analysed", "links"},
           EndOfList \/ UNCHANGED ghosts
    PROVE  ListInv'
<1>0. ServiceOK /\ ListOK
  BY DEF ListInv
<1>1. ~Active' /\ Held' = Held
  BY DEF Active, Listing, Held, listVars
<1>2. late' = late /\ Hosted' = Hosted /\ Askable' = Askable /\ Universe(svc)' = Universe(svc)
  BY SameService DEF service
<1>3. created' \in Nat /\ deleted' \in Nat /\ due' \subseteq Hosted
  BY <1>0 DEF EndOfList, ghosts, ListOK
<1>4. ListOK'
  BY <1>0, <1>1, <1>2, <1>3 DEF ListOK, listVars
<1>. QED
  BY <1>0, <1>4, Ended

-----------------------------------------------------------------------------
(***************************************************************************)
(* The steps of the service.                                               *)
(***************************************************************************)
\* A set that has at most one member more is finite, and larger by one at most.
LEMMA OneMore ==
    ASSUME NEW S, IsFiniteSet(S), NEW x, NEW T, T \subseteq S \cup {x}
    PROVE  IsFiniteSet(T) /\ Cardinality(T) \in Nat /\ Cardinality(S) \in Nat
           /\ Cardinality(T) <= Cardinality(S) + 1
<1>1. /\ IsFiniteSet(S \cup {x})
      /\ Cardinality(S \cup {x}) = IF x \in S THEN Cardinality(S) ELSE Cardinality(S) + 1
  BY FS_AddElement
<1>2. IsFiniteSet(T) /\ Cardinality(T) <= Cardinality(S \cup {x})
  BY <1>1, FS_Subset
<1>3. Cardinality(T) \in Nat /\ Cardinality(S) \in Nat
  BY <1>2, FS_CardinalityType
<1>. QED
  BY <1>1, <1>2, <1>3

LEMMA NoMore ==
    ASSUME NEW S, IsFiniteSet(S), NEW T, T \subseteq S
    PROVE  IsFiniteSet(T) /\ Cardinality(T) \in Nat /\ Cardinality(S) \in Nat
           /\ Cardinality(T) <= Cardinality(S)
<1>1. IsFiniteSet(T) /\ Cardinality(T) <= Cardinality(S)
  BY FS_Subset
<1>2. Cardinality(T) \in Nat /\ Cardinality(S) \in Nat
  BY <1>1, FS_CardinalityType
<1>. QED
  BY <1>1, <1>2

\* When the service changes, the command does not: what it knows stays.
LEMMA SameCommand ==
    ASSUME ServiceOK, ListOK, PhaseOK, RouteOK, svc' = svc, late' \subseteq late, DOMAIN repos' = DOMAIN repos,
           UNCHANGED <<pc, listVars>>, created' \in Nat, deleted' \in Nat,
           due' \subseteq due, due' \subseteq Hosted', ServiceOK'
    PROVE  /\ ListOK' /\ PhaseOK' /\ RouteOK'
           /\ Held' = Held /\ Twice' = Twice /\ Active' = Active /\ Working' = Working /\ Later' = Later
           /\ ReadsAllPages' = ReadsAllPages /\ Universe(svc)' = Universe(svc)
           /\ \A g, r : Has(g, r)' = Has(g, r)
           /\ \A s : Namespaces(s)' = Namespaces(s)
           /\ \A r : Nested(r)' = Nested(r)
<1>1. Held' = Held /\ Twice' = Twice /\ Active' = Active /\ Working' = Working /\ Later' = Later
  BY DEF Held, Twice, Active, Working, Later, Listing, listVars
<1>2. ReadsAllPages' = ReadsAllPages /\ Universe(svc)' = Universe(svc) /\ Askable' = Askable
      /\ NamedGroups' = NamedGroups
  BY DEF ReadsAllPages, Askable, NamedGroups
<1>3. ASSUME NEW g, NEW r PROVE Has(g, r)' = Has(g, r)
  BY DEF Has, ProjectKey
<1>4. ASSUME NEW s PROVE Namespaces(s)' = Namespaces(s)
  BY <1>2 DEF Namespaces
<1>5. ASSUME NEW r PROVE Nested(r)' = Nested(r)
  BY DEF Nested, listVars
<1>6. ListOK'
  BY <1>1, <1>2 DEF ListOK, listVars
<1>7. PhaseOK'
  <2>1. (pc = "repos" => \A r \in Range(got) : r.ns = ProjectKey(Head(todo)))'
    BY DEF PhaseOK, ProjectKey, listVars
  <2>2. (pc \in {"repos", "subgroups"} => \A r \in Range(acc) : Has(Head(top), r))'
    BY DEF PhaseOK, Has, ProjectKey, listVars
  <2>. QED
    BY <1>1, <1>2, <2>1, <2>2 DEF PhaseOK, listVars
<1>8. RouteOK'
  BY <1>1 DEF RouteOK, listVars
<1>. QED
  BY <1>1, <1>2, <1>3, <1>4, <1>5, <1>6, <1>7, <1>8

\* A new repository is in no list yet.  It moves at most one other behind the
\* answered pages, where that one is found again; or, on GitHub, off the page.
LEMMA CreatedStep ==
    ASSUME ListInv, Created
    PROVE  ListInv'
<1>0. ServiceOK /\ ListOK /\ PhaseOK /\ RouteOK /\ CountsOK
  BY DEF ListInv
<1>1. PICK n \in late : /\ late' = late \ {n}
                        /\ \E j \in 1 .. Len(repos[n.ns]) + 1 :
                              repos' = [repos EXCEPT ![n.ns] = InsertAt(@, j, n)]
  BY DEF Created
<1>i. PICK i \in 1 .. Len(repos[n.ns]) + 1 : repos' = [repos EXCEPT ![n.ns] = InsertAt(@, i, n)]
  BY <1>1
<1>2. /\ Listing /\ svc' = svc /\ created' = created + 1
      /\ UNCHANGED <<pc, listVars, due, missed, deleted>>
  BY DEF Created
<1>. DEFINE h == n.ns
            t == InsertAt(repos[h], i, n)
<1>3. n \in Universe(svc) /\ h \in DOMAIN repos
  <2>1. n \in Universe(svc)
    BY <1>0 DEF ServiceOK, Universe
  <2>. QED
    BY <1>0, <2>1, ServiceFacts DEF OnePlace
<1>4. /\ repos[h] \in Seq(Universe(svc)) /\ IsInjective(repos[h]) /\ n \notin Range(repos[h])
      /\ \A r \in Range(repos[h]) : r.ns = h
  BY <1>0, <1>3, ServiceFacts DEF ServiceOK
<1>5. /\ t \in Seq(Universe(svc)) /\ IsInjective(t) /\ Range(t) = Range(repos[h]) \cup {n}
      /\ \A m \in Nat : /\ First(t, m) \subseteq First(repos[h], m) \cup {n}
                        /\ \E x : First(repos[h], m) \ {x} \subseteq First(t, m)
  <2>. DEFINE U == Universe(svc)
              s == repos[h]
  <2>1. s \in Seq(U) /\ n \in U /\ i \in 1 .. Len(s) + 1 /\ IsInjective(s) /\ n \notin Range(s)
    BY <1>i, <1>3, <1>4
  <2>. HIDE DEF U, s
  <2>2. LET w == InsertAt(s, i, n)
        IN  /\ w \in Seq(U) /\ IsInjective(w) /\ Range(w) = Range(s) \cup {n}
            /\ \A m \in Nat : /\ First(w, m) \subseteq First(s, m) \cup {n}
                              /\ \E x : First(s, m) \ {x} \subseteq First(w, m)
    BY <2>1, Inserted
  <2>. QED
    BY <2>2 DEF U, s
<1>. HIDE DEF t
<1>6. /\ DOMAIN repos' = DOMAIN repos /\ repos'[h] = t
      /\ \A g \in DOMAIN repos : g # h => repos'[g] = repos[g]
      /\ repos \in [DOMAIN svc.repos -> Seq(Universe(svc))]
  BY <1>0, <1>i, <1>3 DEF ServiceOK, t
<1>7. ServiceOK'
  <2>1. repos' \in [DOMAIN svc.repos -> Seq(Universe(svc))]
    BY <1>0, <1>i, <1>3, <1>5, <1>6 DEF ServiceOK, t
  <2>2. ASSUME NEW g \in DOMAIN repos
        PROVE  /\ Range(repos'[g]) \cap late' = {}
               /\ \A r \in Range(repos'[g]) : r.ns = g
               /\ IsInjective(repos'[g])
    <3>1. CASE g = h
      <4>1. Range(repos[h]) \cap late = {}
        BY <1>0, <1>3 DEF ServiceOK
      <4>. QED
        BY <1>1, <1>4, <1>5, <1>6, <3>1, <4>1
    <3>2. CASE g # h
      BY <1>0, <1>1, <1>6, <3>2 DEF ServiceOK
    <3>. QED
      BY <3>1, <3>2
  <2>. QED
    BY <1>0, <1>1, <1>2, <1>6, <2>1, <2>2 DEF ServiceOK
<1>8. Hosted' = Hosted \cup {n}
  <2>1. \A r : r \in Hosted' <=> \E g \in DOMAIN repos : r \in Range(repos'[g])
    BY <1>6 DEF Hosted
  <2>2. \A r : r \in Hosted <=> \E g \in DOMAIN repos : r \in Range(repos[g])
    BY DEF Hosted
  <2>3. \A g \in DOMAIN repos : Range(repos'[g]) = IF g = h THEN Range(repos[g]) \cup {n} ELSE Range(repos[g])
    BY <1>5, <1>6
  <2>. QED
    BY <1>3, <2>1, <2>2, <2>3
<1>9. n \notin Hosted /\ n \notin Held /\ due \subseteq Hosted /\ created \in Nat /\ deleted \in Nat
      /\ pages \in Nat
  BY <1>0, HostedIn DEF ListOK
<1>10. /\ ListOK' /\ PhaseOK' /\ RouteOK'
       /\ Held' = Held /\ Twice' = Twice /\ Active' = Active /\ Working' = Working /\ Later' = Later
       /\ ReadsAllPages' = ReadsAllPages /\ Universe(svc)' = Universe(svc)
       /\ \A g, r : Has(g, r)' = Has(g, r)
       /\ \A s : Namespaces(s)' = Namespaces(s)
       /\ \A r : Nested(r)' = Nested(r)
  <2>1. late' \subseteq late /\ created' \in Nat /\ deleted' \in Nat /\ due' \subseteq due /\ due' \subseteq Hosted'
    BY <1>1, <1>2, <1>8, <1>9
  <2>. QED
    BY <1>0, <1>2, <1>6, <1>7, <2>1, SameCommand
<1>11. pages * PageSize \in Nat /\ PageSize \in Nat
  BY <1>9, Edges
<1>12. PICK x : First(repos[h], pages * PageSize) \ {x} \subseteq First(t, pages * PageSize)
  BY <1>5, <1>11
<1>13. PICK y : First(repos[h], PageSize) \ {y} \subseteq First(t, PageSize)
  BY <1>5, <1>11
<1>14. First(t, pages * PageSize) \subseteq First(repos[h], pages * PageSize) \cup {n}
  BY <1>5, <1>11
\* What was before the list still is, and one more may be.
<1>15. ASSUME NEW r \in Hosted
       PROVE  (Pending(r) => Pending(r)') /\ (Pending(r)' => Pending(r) \/ r = x)
  <2>1. r # n /\ r \in Hosted' /\ r.ns \in DOMAIN repos
    BY <1>0, <1>8, <1>9, HostedIn
  <2>2. /\ r \notin First(repos[r.ns], pages * PageSize) => r \notin First(repos'[r.ns], pages * PageSize)
        /\ r \notin First(repos'[r.ns], pages * PageSize) => r \notin First(repos[r.ns], pages * PageSize) \/ r = x
    <3>1. CASE r.ns = h
      BY <1>6, <1>12, <1>14, <2>1, <3>1
    <3>2. CASE r.ns # h
      BY <1>6, <2>1, <3>2
    <3>. QED
      BY <3>1, <3>2
  <2>3. Unread(r)' <=> /\ todo # <<>> /\ Has(Head(todo), r)
                       /\ r.ns = ProjectKey(Head(todo)) =>
                             pc = "repos" /\ r \notin First(repos'[r.ns], pages * PageSize)
    BY <1>2 DEF Unread, Has, ProjectKey, listVars
  <2>4. (Unread(r) => Unread(r)') /\ (Unread(r)' => Unread(r) \/ r = x)
    BY <2>2, <2>3 DEF Unread
  <2>. QED
    BY <1>2, <1>10, <2>1, <2>4 DEF Pending, listVars
<1>16. Lost' \subseteq Lost \cup {y} /\ (ReadsAllPages => Lost' \subseteq Lost)
  <2>1. ASSUME NEW r \in Lost', r \notin Lost PROVE r = y /\ ~ReadsAllPages
    <3>1. r \in due \ missed /\ r \notin Held /\ ~(Pending(r)' /\ Reachable(r)') /\ Pending(r) /\ Reachable(r)
      BY <1>2, <1>10, <2>1 DEF Lost
    <3>2. r \in Hosted /\ Pending(r)'
      BY <1>9, <1>15, <3>1
    <3>3. ~Reachable(r)'
      BY <3>1, <3>2
    <3>4. r \in Range(FirstPage(repos[r.ns])) /\ r \notin Range(FirstPage(repos'[r.ns])) /\ ~ReadsAllPages
      BY <1>10, <3>1, <3>3 DEF Reachable
    <3>5. r.ns = h
      BY <1>0, <1>6, <3>2, <3>4, HostedIn
    <3>6. Range(FirstPage(repos[h])) = First(repos[h], PageSize) /\ Range(FirstPage(t)) = First(t, PageSize)
      BY <1>4, <1>5, FirstPageHolds
    <3>. QED
      BY <1>6, <1>13, <3>4, <3>5, <3>6
  <2>. QED
    BY <2>1
<1>17. Doubled' \subseteq Doubled \cup {x}
  <2>1. ASSUME NEW r \in Doubled' PROVE r \in Doubled \cup {x}
    <3>1. r \in Universe(svc) /\ ~Nested(r) /\ (r \in Twice \/ (r \in Held /\ Pending(r)'))
      BY <1>10, <2>1 DEF Doubled
    <3>2. Pending(r)' => r \in Hosted \cup {n}
      BY <1>8 DEF Pending
    <3>3. r \in Twice \/ (r \in Held /\ (Pending(r) \/ r = x))
      BY <1>9, <1>15, <3>1, <3>2
    <3>. QED
      BY <3>1, <3>3 DEF Doubled
  <2>. QED
    BY <2>1
<1>18. CountsOK'
  <2>1. ASSUME Active
        PROVE  /\ IsFiniteSet(Lost') /\ Cardinality(Lost') <= IF ReadsAllPages THEN deleted ELSE created + 1
               /\ IsFiniteSet(Doubled') /\ Cardinality(Doubled') <= created + 1
    <3>1. /\ IsFiniteSet(Lost) /\ Cardinality(Lost) <= IF ReadsAllPages THEN deleted ELSE created
          /\ IsFiniteSet(Doubled) /\ Cardinality(Doubled) <= created
      BY <1>0, <2>1 DEF CountsOK
    <3>2. /\ IsFiniteSet(Doubled') /\ Cardinality(Doubled') \in Nat /\ Cardinality(Doubled) \in Nat
          /\ Cardinality(Doubled') <= Cardinality(Doubled) + 1
      BY <1>17, <3>1, OneMore
    <3>3. CASE ReadsAllPages
      <4>1. /\ IsFiniteSet(Lost') /\ Cardinality(Lost') \in Nat /\ Cardinality(Lost) \in Nat
            /\ Cardinality(Lost') <= Cardinality(Lost)
        BY <1>16, <3>1, <3>3, NoMore
      <4>. QED
        BY <1>9, <3>1, <3>2, <3>3, <4>1
    <3>4. CASE ~ReadsAllPages
      <4>1. /\ IsFiniteSet(Lost') /\ Cardinality(Lost') \in Nat /\ Cardinality(Lost) \in Nat
            /\ Cardinality(Lost') <= Cardinality(Lost) + 1
        BY <1>16, <3>1, OneMore
      <4>. QED
        BY <1>9, <3>1, <3>2, <3>4, <4>1
    <3>. QED
      BY <3>3, <3>4
  <2>. QED
    BY <1>2, <1>10, <2>1 DEF CountsOK
<1>. QED
  BY <1>7, <1>10, <1>18 DEF ListInv

\* A repository that goes is no longer asked for.  It moves at most one other
\* among the answered pages, where it was not when they were read.
LEMMA DeletedStep ==
    ASSUME ListInv, Deleted
    PROVE  ListInv'
<1>0. ServiceOK /\ ListOK /\ PhaseOK /\ RouteOK /\ CountsOK
  BY DEF ListInv
<1>1. PICK h \in DOMAIN repos :
          \E j \in 1 .. Len(repos[h]) :
              repos' = [repos EXCEPT ![h] = RemoveAt(@, j)] /\ due' = due \ {repos[h][j]}
  BY DEF Deleted
<1>i. PICK i \in 1 .. Len(repos[h]) :
          repos' = [repos EXCEPT ![h] = RemoveAt(@, i)] /\ due' = due \ {repos[h][i]}
  BY <1>1
<1>2. /\ Listing /\ svc' = svc /\ late' = late /\ deleted' = deleted + 1
      /\ UNCHANGED <<pc, listVars, missed, created>>
  BY DEF Deleted
<1>. DEFINE n == repos[h][i]
            t == RemoveAt(repos[h], i)
<1>3. /\ repos[h] \in Seq(Universe(svc)) /\ IsInjective(repos[h])
      /\ \A r \in Range(repos[h]) : r.ns = h
  BY <1>0, <1>1, ServiceFacts
<1>4. /\ t \in Seq(Universe(svc)) /\ IsInjective(t) /\ Range(t) = Range(repos[h]) \ {n}
      /\ \A m \in Nat : /\ First(repos[h], m) \ {n} \subseteq First(t, m)
                        /\ \E x : First(t, m) \subseteq First(repos[h], m) \cup {x}
  BY <1>i, <1>3, Removed
<1>5. n.ns = h
  <2>1. i \in DOMAIN repos[h]
    BY <1>i, <1>3
  <2>. QED
    BY <1>3, <2>1, RangeMember
<1>. HIDE DEF t, n
<1>6. /\ DOMAIN repos' = DOMAIN repos /\ repos'[h] = t
      /\ \A g \in DOMAIN repos : g # h => repos'[g] = repos[g]
      /\ repos \in [DOMAIN svc.repos -> Seq(Universe(svc))]
  BY <1>0, <1>i DEF ServiceOK, t
<1>7. ServiceOK'
  <2>1. repos' \in [DOMAIN svc.repos -> Seq(Universe(svc))]
    BY <1>0, <1>i, <1>4, <1>6 DEF ServiceOK, t
  <2>2. ASSUME NEW g \in DOMAIN repos
        PROVE  /\ Range(repos'[g]) \cap late' = {}
               /\ \A r \in Range(repos'[g]) : r.ns = g
               /\ IsInjective(repos'[g])
    <3>1. CASE g = h
      <4>1. Range(repos[h]) \cap late = {}
        BY <1>0, <1>1 DEF ServiceOK
      <4>. QED
        BY <1>2, <1>3, <1>4, <1>6, <3>1, <4>1
    <3>2. CASE g # h
      BY <1>0, <1>2, <1>6, <3>2 DEF ServiceOK
    <3>. QED
      BY <3>1, <3>2
  <2>. QED
    BY <1>0, <1>2, <1>6, <2>1, <2>2 DEF ServiceOK
<1>8. Hosted' = Hosted \ {n}
  <2>1. \A r : r \in Hosted' <=> \E g \in DOMAIN repos : r \in Range(repos'[g])
    BY <1>6 DEF Hosted
  <2>2. \A r : r \in Hosted <=> \E g \in DOMAIN repos : r \in Range(repos[g])
    BY DEF Hosted
  <2>3. \A g \in DOMAIN repos : Range(repos'[g]) = IF g = h THEN Range(repos[g]) \ {n} ELSE Range(repos[g])
    BY <1>4, <1>6
  <2>4. \A g \in DOMAIN repos : n \in Range(repos[g]) => g = h
    BY <1>0, <1>5, ServiceFacts
  <2>. QED
    BY <1>1, <2>1, <2>2, <2>3, <2>4
<1>9. due' = due \ {n} /\ due \subseteq Hosted /\ created \in Nat /\ deleted \in Nat /\ pages \in Nat
  BY <1>0, <1>i DEF ListOK, n
<1>10. /\ ListOK' /\ PhaseOK' /\ RouteOK'
       /\ Held' = Held /\ Twice' = Twice /\ Active' = Active /\ Working' = Working /\ Later' = Later
       /\ ReadsAllPages' = ReadsAllPages /\ Universe(svc)' = Universe(svc)
       /\ \A g, r : Has(g, r)' = Has(g, r)
       /\ \A s : Namespaces(s)' = Namespaces(s)
       /\ \A r : Nested(r)' = Nested(r)
  <2>1. late' \subseteq late /\ created' \in Nat /\ deleted' \in Nat /\ due' \subseteq due /\ due' \subseteq Hosted'
    BY <1>2, <1>8, <1>9
  <2>. QED
    BY <1>0, <1>2, <1>6, <1>7, <2>1, SameCommand
<1>11. pages * PageSize \in Nat /\ PageSize \in Nat
  BY <1>9, Edges
<1>12. PICK x : First(t, pages * PageSize) \subseteq First(repos[h], pages * PageSize) \cup {x}
  BY <1>4, <1>11
<1>13. First(repos[h], PageSize) \ {n} \subseteq First(t, PageSize)
  BY <1>4, <1>11
<1>14. First(repos[h], pages * PageSize) \ {n} \subseteq First(t, pages * PageSize)
  BY <1>4, <1>11
\* What is before the list was so, and one that was may no longer be.
<1>15. ASSUME NEW r \in Hosted, r # n
       PROVE  /\ Pending(r) => Pending(r)' \/ r = x
              /\ Pending(r) /\ ~ReadsAllPages => Pending(r)'
              /\ Pending(r)' => Pending(r)
  <2>1. r \in Hosted' /\ r.ns \in DOMAIN repos
    BY <1>0, <1>8, <1>15, HostedIn
  <2>2. /\ r \notin First(repos[r.ns], pages * PageSize) => r \notin First(repos'[r.ns], pages * PageSize) \/ r = x
        /\ r \notin First(repos'[r.ns], pages * PageSize) => r \notin First(repos[r.ns], pages * PageSize)
    <3>1. CASE r.ns = h
      BY <1>6, <1>12, <1>14, <1>15, <2>1, <3>1
    <3>2. CASE r.ns # h
      BY <1>6, <2>1, <3>2
    <3>. QED
      BY <3>1, <3>2
  <2>3. Unread(r)' <=> /\ todo # <<>> /\ Has(Head(todo), r)
                       /\ r.ns = ProjectKey(Head(todo)) =>
                             pc = "repos" /\ r \notin First(repos'[r.ns], pages * PageSize)
    BY <1>2 DEF Unread, Has, ProjectKey, listVars
  <2>4. (Unread(r) => Unread(r)' \/ r = x) /\ (Unread(r)' => Unread(r))
    BY <2>2, <2>3 DEF Unread
  <2>5. ASSUME ~ReadsAllPages, pc = "repos" PROVE r \notin First(repos'[r.ns], pages * PageSize)
    <3>1. pages = 0
      BY <1>0, <2>5 DEF PhaseOK
    <3>2. repos'[r.ns] \in Seq(Universe(svc))
      BY <1>4, <1>6, <2>1
    <3>3. First(repos'[r.ns], 0) = {} /\ 0 * PageSize = 0
      BY <3>2, FirstMembers, Edges
    <3>. QED
      BY <3>1, <3>3
  <2>6. ~ReadsAllPages => (Unread(r) => Unread(r)')
    BY <2>3, <2>5 DEF Unread
  <2>. QED
    BY <1>2, <1>10, <2>1, <2>4, <2>6 DEF Pending, listVars
<1>16. Lost' \subseteq Lost \cup {x} /\ (~ReadsAllPages => Lost' \subseteq Lost)
  <2>1. ASSUME NEW r \in Lost', r \notin Lost PROVE r = x /\ ReadsAllPages
    <3>1. r \in due \ missed /\ r # n /\ r \notin Held /\ ~(Pending(r)' /\ Reachable(r)')
          /\ Pending(r) /\ Reachable(r) /\ r \in Hosted
      BY <1>2, <1>9, <1>10, <2>1 DEF Lost
    <3>2. Reachable(r)'
      <4>1. CASE ReadsAllPages
        BY <1>10, <4>1 DEF Reachable
      <4>2. CASE ~ReadsAllPages
        <5>1. r \in Range(FirstPage(repos[r.ns])) /\ r.ns \in DOMAIN repos
          BY <1>0, <3>1, <4>2, HostedIn DEF Reachable
        <5>2. CASE r.ns = h
          <6>1. Range(FirstPage(repos[h])) = First(repos[h], PageSize) /\ Range(FirstPage(t)) = First(t, PageSize)
            BY <1>3, <1>4, FirstPageHolds
          <6>2. r \in Range(FirstPage(repos'[r.ns]))
            BY <1>6, <1>13, <3>1, <5>1, <5>2, <6>1
          <6>. QED
            BY <6>2 DEF Reachable
        <5>3. CASE r.ns # h
          <6>1. r \in Range(FirstPage(repos'[r.ns]))
            BY <1>6, <5>1, <5>3
          <6>. QED
            BY <6>1 DEF Reachable
        <5>. QED
          BY <5>2, <5>3
      <4>. QED
        BY <4>1, <4>2
    <3>. QED
      BY <1>15, <3>1, <3>2
  <2>. QED
    BY <2>1
<1>17. Doubled' \subseteq Doubled
  <2>1. ASSUME NEW r \in Doubled' PROVE r \in Doubled
    <3>1. r \in Universe(svc) /\ ~Nested(r) /\ (r \in Twice \/ (r \in Held /\ Pending(r)'))
      BY <1>10, <2>1 DEF Doubled
    <3>2. Pending(r)' => r \in Hosted \ {n}
      BY <1>8 DEF Pending
    <3>3. r \in Twice \/ (r \in Held /\ Pending(r))
      BY <1>15, <3>1, <3>2
    <3>. QED
      BY <3>1, <3>3 DEF Doubled
  <2>. QED
    BY <2>1
<1>18. CountsOK'
  <2>1. ASSUME Active
        PROVE  /\ IsFiniteSet(Lost') /\ Cardinality(Lost') <= IF ReadsAllPages THEN deleted + 1 ELSE created
               /\ IsFiniteSet(Doubled') /\ Cardinality(Doubled') <= created
    <3>1. /\ IsFiniteSet(Lost) /\ Cardinality(Lost) <= IF ReadsAllPages THEN deleted ELSE created
          /\ IsFiniteSet(Doubled) /\ Cardinality(Doubled) <= created
      BY <1>0, <2>1 DEF CountsOK
    <3>2. /\ IsFiniteSet(Doubled') /\ Cardinality(Doubled') \in Nat /\ Cardinality(Doubled) \in Nat
          /\ Cardinality(Doubled') <= Cardinality(Doubled)
      BY <1>17, <3>1, NoMore
    <3>3. CASE ReadsAllPages
      <4>1. /\ IsFiniteSet(Lost') /\ Cardinality(Lost') \in Nat /\ Cardinality(Lost) \in Nat
            /\ Cardinality(Lost') <= Cardinality(Lost) + 1
        BY <1>16, <3>1, OneMore
      <4>. QED
        BY <1>9, <3>1, <3>2, <3>3, <4>1
    <3>4. CASE ~ReadsAllPages
      <4>1. /\ IsFiniteSet(Lost') /\ Cardinality(Lost') \in Nat /\ Cardinality(Lost) \in Nat
            /\ Cardinality(Lost') <= Cardinality(Lost)
        BY <1>16, <3>1, <3>4, NoMore
      <4>. QED
        BY <1>9, <3>1, <3>2, <3>4, <4>1
    <3>. QED
      BY <3>3, <3>4
  <2>. QED
    BY <1>2, <1>10, <2>1 DEF CountsOK
<1>. QED
  BY <1>7, <1>10, <1>18 DEF ListInv

-----------------------------------------------------------------------------
(***************************************************************************)
(* Every list keeps the counts.                                            *)
(***************************************************************************)
\* Every step of the links visits one of them.
LEMMA LinkStep ==
    ASSUME NEW reading \in Readings, Open(reading) \/ Follow(reading) \/ OpenUserPage(reading)
    PROVE  /\ pc' = "links" /\ EndOfList /\ UNCHANGED <<service, listVars, file, clones, scans>>
           /\ \E link, what : Visit(link, reading, what)
<1>1. \E link, what : Visit(link, reading, what)
  <2>1. CASE Open(reading)
    BY <2>1 DEF Open
  <2>2. CASE Follow(reading)
    BY <2>2 DEF Follow
  <2>3. CASE OpenUserPage(reading)
    BY <2>3 DEF OpenUserPage
  <2>. QED
    BY <2>1, <2>2, <2>3
<1>. QED
  BY <1>1 DEF Visit

LEMMA ListInit ==
    ASSUME Init
    PROVE  ListInv
<1>1. /\ svc \in Services /\ repos = svc.repos /\ late = svc.late /\ pc = "idle" /\ scope = All
      /\ top = <<>> /\ todo = <<>> /\ got = <<>> /\ pages = 0 /\ acc = <<>> /\ result = <<>>
      /\ due = {} /\ created = 0 /\ deleted = 0
  BY DEF Init
<1>2. ServiceType(svc) /\ OnePlace(svc)
  BY <1>1, ServicesAssumption
<1>3. ServiceOK
  <2>1. \A g \in DOMAIN svc.repos : svc.repos[g] \in Seq(Repositories)
    BY <1>2 DEF ServiceType
  <2>2. ASSUME NEW g \in DOMAIN svc.repos PROVE svc.repos[g] \in Seq(Universe(svc))
    <3>1. svc.repos[g] \in Seq(Repositories)
      BY <2>1
    <3>2. \A i \in 1 .. Len(svc.repos[g]) : svc.repos[g][i] \in Range(svc.repos[g])
      BY <3>1, RangeMember
    <3>3. \A i \in 1 .. Len(svc.repos[g]) : svc.repos[g][i] \in Universe(svc)
      BY <3>2 DEF Universe
    <3>. QED
      BY <3>1, <3>3
  <2>3. svc.repos \in [DOMAIN svc.repos -> Seq(Universe(svc))]
    BY <1>2, <2>2 DEF ServiceType
  <2>. QED
    BY <1>1, <1>2, <2>3 DEF ServiceOK, OnePlace
<1>4. Held = {}
  BY <1>1, Empty DEF Held
<1>5. ListOK
  BY <1>1, <1>4 DEF ListOK, Active, Listing
<1>6. ~Working /\ ~Active
  BY <1>1 DEF Working, Active, Listing
<1>7. PhaseOK /\ RouteOK /\ CountsOK
  BY <1>1, <1>4, <1>6 DEF PhaseOK, RouteOK, CountsOK
<1>. QED
  BY <1>3, <1>5, <1>7 DEF ListInv

LEMMA ListNext ==
    ASSUME ListInv, [Next]_vars
    PROVE  ListInv'
<1>1. CASE \E s \in Scopes, l \in BOOLEAN : List(s, l)
  BY <1>1, ListStep
<1>2. CASE GroupsListed
  BY <1>2, GroupsListedStep
<1>3. CASE RepoPage
  BY <1>3, RepoPageStep
<1>4. CASE SubgroupsListed
  BY <1>4, SubgroupsListedStep
<1>5. CASE LanguagesRead
  BY <1>5, LanguagesReadStep
<1>6. CASE GroupDone
  BY <1>6, GroupDoneStep
<1>7. CASE OwnListed
  BY <1>7, OwnListedStep
<1>8. CASE CallFails
  BY <1>8, CallFailsStep
<1>9. CASE Save
  BY <1>9, SaveStep
<1>10. CASE Created
  BY <1>10, CreatedStep
<1>11. CASE Deleted
  BY <1>11, DeletedStep
<1>12. CASE \E auth \in {"http", "ssh"} : Fetch(auth)
  <2>1. UNCHANGED <<service, listVars>> /\ pc' = "fetched" /\ EndOfList
    BY <1>12 DEF Fetch
  <2>. QED
    BY <2>1, UseStep
<1>13. CASE Analyse
  <2>1. UNCHANGED <<service, listVars>> /\ pc' = "analysed" /\ UNCHANGED ghosts
    BY <1>13 DEF Analyse
  <2>. QED
    BY <2>1, UseStep
<1>14. CASE \E reading \in Readings : Open(reading) \/ Follow(reading) \/ OpenUserPage(reading)
  <2>1. UNCHANGED <<service, listVars>> /\ pc' = "links" /\ EndOfList
    BY <1>14, LinkStep
  <2>. QED
    BY <2>1, UseStep
<1>15. CASE UNCHANGED vars
  <2>1. UNCHANGED <<service, pc, listVars, ghosts>>
    BY <1>15 DEF vars
  <2>2. svc' = svc /\ repos' = repos /\ late' = late /\ pc' = pc /\ scope' = scope /\ lang' = lang /\ top' = top
        /\ todo' = todo /\ got' = got /\ pages' = pages /\ acc' = acc /\ result' = result
        /\ due' = due /\ missed' = missed /\ created' = created /\ deleted' = deleted
    BY <2>1 DEF service, listVars, ghosts
  <2>3. /\ Hosted' = Hosted /\ Universe(svc)' = Universe(svc) /\ ReadsAllPages' = ReadsAllPages
        /\ Askable' = Askable /\ Held' = Held /\ Twice' = Twice /\ Active' = Active /\ Working' = Working
    BY <2>1, <2>2, SameService DEF Held, Twice, Active, Working, Listing
  <2>4. ServiceOK /\ ListOK /\ PhaseOK /\ RouteOK /\ CountsOK
    BY DEF ListInv
  <2>5. ServiceOK' /\ ListOK' /\ RouteOK'
    BY <2>1, <2>2, <2>3, <2>4, SameService DEF ListOK, RouteOK
  <2>6. PhaseOK' /\ CountsOK'
    <3>1. \A g, r : Has(g, r)' = Has(g, r)
      BY <2>1, SameService
    <3>2. \A g : ProjectKey(g)' = ProjectKey(g)
      BY <2>1, SameService
    <3>3. \A r : Reachable(r)' = Reachable(r)
      BY <2>1, SameService
    <3>4. \A s : Namespaces(s)' = Namespaces(s)
      BY <2>1, SameService
    <3>5. (\A r \in Range(got) : r.ns = ProjectKey(Head(todo)))' = (\A r \in Range(got) : r.ns = ProjectKey(Head(todo)))
      BY <2>2 DEF ProjectKey
    <3>6. (\A r \in Range(acc) : Has(Head(top), r))' = (\A r \in Range(acc) : Has(Head(top), r))
      BY <2>2 DEF Has, ProjectKey
    <3>7. PhaseOK'
      BY <2>2, <2>3, <2>4, <3>5, <3>6 DEF PhaseOK
    <3>8. Later' = Later
      BY <2>2 DEF Later
    <3>9. ASSUME NEW r PROVE Unread(r)' = Unread(r)
      BY <2>2 DEF Unread, Has, ProjectKey
    <3>10. ASSUME NEW r PROVE (\E g \in Namespaces(scope) : Has(g, r))' = (\E g \in Namespaces(scope) : Has(g, r))
      BY <2>2, <3>4 DEF Has, ProjectKey
    <3>11. ASSUME NEW r PROVE Pending(r)' = Pending(r)
      BY <2>2, <2>3, <3>1, <3>8, <3>9, <3>10 DEF Pending
    <3>12. Lost' = Lost /\ Doubled' = Doubled
      BY <2>2, <2>3, <3>3, <3>11 DEF Lost, Doubled, Nested
    <3>. QED
      BY <2>2, <2>3, <2>4, <3>7, <3>12 DEF CountsOK
  <2>. QED
    BY <2>5, <2>6 DEF ListInv
<1>. QED
  BY <1>1, <1>2, <1>3, <1>4, <1>5, <1>6, <1>7, <1>8, <1>9, <1>10, <1>11, <1>12, <1>13, <1>14, <1>15 DEF Next

\* Through every list, what it has and what is still before it account for all
\* that is asked for, apart from one repository for each that moved the pages;
\* and for no repository twice, on the same condition.
THEOREM ListsKeepTheirCounts == Spec => []ListInv
<1>1. Init => ListInv
  BY ListInit
<1>2. ListInv /\ [Next]_vars => ListInv'
  BY ListNext
<1>. QED
  BY <1>1, <1>2, PTL DEF Spec

-----------------------------------------------------------------------------
(***************************************************************************)
(* What the file has and what it has twice.                                *)
(***************************************************************************)
\* A set whose members all come from those of another is not larger.
LEMMA NotLarger ==
    ASSUME NEW S, IsFiniteSet(S), NEW f, S \subseteq DOMAIN f, NEW T, \A y \in T : \E x \in S : f[x] = y
    PROVE  IsFiniteSet(T) /\ Cardinality(T) \in Nat /\ Cardinality(T) <= Cardinality(S) /\ Cardinality(S) \in Nat
<1>. DEFINE U == {x \in S : f[x] \in T}
            g == [x \in U |-> f[x]]
<1>1. IsFiniteSet(U) /\ Cardinality(U) \in Nat /\ Cardinality(S) \in Nat /\ Cardinality(U) <= Cardinality(S)
  BY NoMore
<1>2. g \in Surjection(U, T)
  <2>1. g \in [U -> T]
    OBVIOUS
  <2>2. \A y \in T : \E x \in U : g[x] = y
    OBVIOUS
  <2>. QED
    BY <2>1, <2>2 DEF Surjection
<1>3. IsFiniteSet(T) /\ Cardinality(T) <= Cardinality(U)
  BY <1>1, <1>2, FS_Surjection
<1>4. Cardinality(T) \in Nat
  BY <1>3, FS_CardinalityType
<1>. QED
  BY <1>1, <1>3, <1>4

\* An entry is that of one repository only.
LEMMA OneEntry ==
    ASSUME ServiceOK, NEW r \in Universe(svc), NEW q \in Universe(svc),
           ToRepositoryParams(r) = ToRepositoryParams(q)
    PROVE  r = q
<1>1. r.ns = q.ns /\ r.name = q.name
  <2>1. ToRepositoryParams(r).ns = r.ns /\ ToRepositoryParams(r).repo = r.name
    BY DEF ToRepositoryParams
  <2>2. ToRepositoryParams(q).ns = q.ns /\ ToRepositoryParams(q).repo = q.name
    BY DEF ToRepositoryParams
  <2>. QED
    BY <2>1, <2>2
<1>. QED
  BY <1>1, ServiceFacts DEF OnePlace

LEMMA EntriesOf ==
    ASSUME NEW T, NEW s \in Seq(T)
    PROVE  /\ Len(Entries(s)) = Len(s) /\ DOMAIN Entries(s) = 1 .. Len(s)
           /\ \A i \in 1 .. Len(s) : Entries(s)[i] = ToRepositoryParams(s[i])
           /\ Range(Entries(s)) = {ToRepositoryParams(r) : r \in Range(s)}
<1>1. DOMAIN Entries(s) = 1 .. Len(s) /\ Len(s) \in Nat
      /\ \A i \in 1 .. Len(s) : Entries(s)[i] = ToRepositoryParams(s[i])
  BY DEF Entries
<1>2. Len(Entries(s)) = Len(s)
  BY <1>1
<1>3. DOMAIN s = 1 .. Len(s)
  OBVIOUS
<1>4. ASSUME NEW e \in Range(Entries(s)) PROVE \E r \in Range(s) : e = ToRepositoryParams(r)
  <2>1. PICK i \in 1 .. Len(s) : Entries(s)[i] = e
    BY <1>1, RangeIndex
  <2>. QED
    BY <1>1, <1>3, <2>1, RangeMember
<1>5. ASSUME NEW r \in Range(s) PROVE ToRepositoryParams(r) \in Range(Entries(s))
  <2>1. PICK i \in 1 .. Len(s) : s[i] = r
    BY <1>3, RangeIndex
  <2>. QED
    BY <1>1, <2>1, RangeMember
<1>. QED
  BY <1>1, <1>2, <1>4, <1>5

LEMMA Saved ==
    ASSUME ListInv, Save, pc = "listed"
    PROVE  NothingUnlisted' /\ TwiceOnlyInSubgroups'
<1>0. ServiceOK /\ ListOK /\ PhaseOK /\ CountsOK
  BY DEF ListInv
<1>1. file' = Entries(result) /\ UNCHANGED <<svc, scope, due, missed, created, deleted>>
  BY DEF Save, service, ghosts
<1>2. acc = <<>> /\ got = <<>> /\ result \in Seq(Universe(svc)) /\ created \in Nat /\ deleted \in Nat
  BY <1>0 DEF PhaseOK, ListOK
<1>3. Held = Range(result) /\ Repeats(result) \subseteq Twice
  BY <1>2, Empty DEF Held, Twice
<1>4. \A r : ~Pending(r)
  BY DEF Pending, Working
<1>5. /\ IsFiniteSet(Lost) /\ Cardinality(Lost) <= IF ReadsAllPages THEN deleted ELSE created
      /\ IsFiniteSet(Doubled) /\ Cardinality(Doubled) <= created
  BY <1>0 DEF CountsOK, Active
<1>6. /\ DOMAIN Entries(result) = 1 .. Len(result) /\ DOMAIN result = 1 .. Len(result)
      /\ \A i \in 1 .. Len(result) : Entries(result)[i] = ToRepositoryParams(result[i])
      /\ Range(Entries(result)) = {ToRepositoryParams(r) : r \in Range(result)}
  BY <1>2, EntriesOf
<1>7. /\ \A r : ToRepositoryParams(r)' = ToRepositoryParams(r)
      /\ ReadsAllPages' = ReadsAllPages
  BY <1>1 DEF ToRepositoryParams, HttpLink, SshLink, ReadsAllPages
<1>8. NothingUnlisted'
  <2>. DEFINE X == {r \in due \ missed : ToRepositoryParams(r) \notin Range(Entries(result))}
  <2>1. X \subseteq Lost
    <3>1. ASSUME NEW r \in X PROVE r \in Lost
      BY <1>3, <1>4, <1>6 DEF Lost
    <3>. QED
      BY <3>1
  <2>2. Cardinality(X) \in Nat /\ Cardinality(Lost) \in Nat /\ Cardinality(X) <= Cardinality(Lost)
    BY <1>5, <2>1, NoMore
  <2>3. Cardinality(X) <= IF ReadsAllPages THEN deleted ELSE created
    BY <1>2, <1>5, <2>2
  <2>4. {r \in due' \ missed' : ToRepositoryParams(r)' \notin Range(file')} = X
    BY <1>1, <1>7
  <2>. QED
    BY <1>1, <1>7, <2>3, <2>4 DEF NothingUnlisted
<1>9. TwiceOnlyInSubgroups'
  <2>. DEFINE f == Entries(result)
              twice == {e \in Range(f) : \E i, j \in DOMAIN f : i # j /\ e = f[i] /\ e = f[j]}
              once == {e \in twice : ~(svc.plugin = "gitlab" /\ scope = All /\ Len(e.ns) > 1)}
              entry == [r \in Doubled |-> ToRepositoryParams(r)]
  <2>1. ASSUME NEW e \in once PROVE \E r \in Doubled : entry[r] = e
    <3>1. PICK i \in DOMAIN f, j \in DOMAIN f : i # j /\ e = f[i] /\ e = f[j]
      OBVIOUS
    <3>d. i \in 1 .. Len(result) /\ j \in 1 .. Len(result)
      BY <1>6, <3>1
    <3>u. result[i] \in Universe(svc) /\ result[j] \in Universe(svc)
      BY <1>2, <3>d
    <3>2. /\ i \in 1 .. Len(result) /\ j \in 1 .. Len(result)
          /\ e = ToRepositoryParams(result[i]) /\ e = ToRepositoryParams(result[j])
          /\ result[i] \in Universe(svc) /\ result[j] \in Universe(svc)
      <4>1. f[i] = ToRepositoryParams(result[i]) /\ f[j] = ToRepositoryParams(result[j])
        BY <1>6, <3>d
      <4>. HIDE DEF f, twice, once
      <4>. QED
        BY <3>1, <3>d, <3>u, <4>1
    <3>3. result[i] = result[j]
      BY <1>0, <3>2, OneEntry
    <3>4. result[i] \in Repeats(result)
      BY <1>6, <3>1, <3>2, <3>3, RangeMember DEF Repeats
    <3>5. e.ns = result[i].ns
      <4>1. ToRepositoryParams(result[i]).ns = result[i].ns
        BY DEF ToRepositoryParams
      <4>. HIDE DEF f, twice, once, entry
      <4>. QED
        BY <3>2, <4>1
    <3>6. ~Nested(result[i])
      BY <3>5 DEF Nested
    <3>7. result[i] \in Doubled
      BY <1>3, <3>2, <3>4, <3>6 DEF Doubled
    <3>. QED
      BY <3>2, <3>7
  <2>2. Cardinality(once) \in Nat /\ Cardinality(Doubled) \in Nat /\ Cardinality(once) <= Cardinality(Doubled)
    <3>1. Doubled \subseteq DOMAIN entry
      OBVIOUS
    <3>. HIDE DEF once, entry
    <3>. QED
      BY <1>5, <2>1, <3>1, NotLarger
  <2>3. Cardinality(once) <= created
    BY <1>2, <1>5, <2>2
  <2>. QED
    BY <1>1, <2>3 DEF TwiceOnlyInSubgroups
<1>. QED
  BY <1>8, <1>9

\* Only the end of a list leads to a file that nothing has used yet.
LEMMA OnlySaves ==
    ASSUME [Next]_vars, pc' = "saved"
    PROVE  (Save /\ pc = "listed") \/ UNCHANGED vars
<1>1. CASE \E s \in Scopes, l \in BOOLEAN : List(s, l)
  BY <1>1 DEF List
<1>2. CASE GroupsListed
  BY <1>2 DEF GroupsListed
<1>3. CASE RepoPage
  BY <1>3 DEF RepoPage, NextNamespace
<1>4. CASE SubgroupsListed
  BY <1>4 DEF SubgroupsListed, NextGroup
<1>5. CASE LanguagesRead
  BY <1>5 DEF LanguagesRead
<1>6. CASE GroupDone
  BY <1>6 DEF GroupDone, NextNamespace
<1>7. CASE OwnListed
  BY <1>7 DEF OwnListed
<1>8. CASE CallFails
  BY <1>8 DEF CallFails, SkipSubgroup, SkipNamespace, FailList, SkipRepository, NextGroup, NextNamespace
<1>9. CASE Save
  BY <1>9 DEF Save
<1>10. CASE Created
  BY <1>10 DEF Created, Listing
<1>11. CASE Deleted
  BY <1>11 DEF Deleted, Listing
<1>12. CASE \E auth \in {"http", "ssh"} : Fetch(auth)
  BY <1>12 DEF Fetch
<1>13. CASE Analyse
  BY <1>13 DEF Analyse
<1>14. CASE \E reading \in Readings : Open(reading) \/ Follow(reading) \/ OpenUserPage(reading)
  BY <1>14, LinkStep
<1>. QED
  BY <1>1, <1>2, <1>3, <1>4, <1>5, <1>6, <1>7, <1>8, <1>9, <1>10, <1>11, <1>12, <1>13, <1>14 DEF Next

LEMMA SavedNext ==
    ASSUME ListInv, NothingUnlisted, TwiceOnlyInSubgroups, [Next]_vars
    PROVE  NothingUnlisted' /\ TwiceOnlyInSubgroups'
<1>1. CASE pc' # "saved"
  BY <1>1 DEF NothingUnlisted, TwiceOnlyInSubgroups
<1>2. CASE pc' = "saved" /\ Save /\ pc = "listed"
  BY <1>2, Saved
<1>3. CASE UNCHANGED vars
  <2>1. UNCHANGED <<svc, pc, scope, file, due, missed, created, deleted>>
    BY <1>3 DEF vars, service, listVars, ghosts
  <2>2. \A r : ToRepositoryParams(r)' = ToRepositoryParams(r)
    BY <2>1 DEF ToRepositoryParams, HttpLink, SshLink
  <2>3. ReadsAllPages' = ReadsAllPages
    BY <2>1 DEF ReadsAllPages
  <2>4. NothingUnlisted'
    BY <2>1, <2>2, <2>3 DEF NothingUnlisted
  <2>5. TwiceOnlyInSubgroups'
    BY <2>1 DEF TwiceOnlyInSubgroups
  <2>. QED
    BY <2>4, <2>5
<1>. QED
  BY <1>1, <1>2, <1>3, OnlySaves

\* The file of every list has all it was asked for, apart from what stood
\* behind a call that failed and from one repository for each deletion that
\* moved the pages; on GitHub, for each new repository that moved one off the
\* page (NothingUnlisted).
THEOREM NothingEverUnlisted == Spec => []NothingUnlisted
<1>1. Init => ListInv /\ NothingUnlisted /\ TwiceOnlyInSubgroups
  <2>1. Init => pc = "idle"
    BY DEF Init
  <2>. QED
    BY <2>1, ListInit DEF NothingUnlisted, TwiceOnlyInSubgroups
<1>2. ListInv /\ NothingUnlisted /\ TwiceOnlyInSubgroups /\ [Next]_vars
      => ListInv' /\ NothingUnlisted' /\ TwiceOnlyInSubgroups'
  BY ListNext, SavedNext
<1>. QED
  BY <1>1, <1>2, PTL DEF Spec

\* A repository stands twice in a file only when all groups of GitLab were
\* listed and it is in a subgroup, or when a new repository moved it to the
\* next page, one for each new one (TwiceOnlyInSubgroups).
THEOREM TwiceOnlyForCause == Spec => []TwiceOnlyInSubgroups
<1>1. Init => ListInv /\ NothingUnlisted /\ TwiceOnlyInSubgroups
  <2>1. Init => pc = "idle"
    BY DEF Init
  <2>. QED
    BY <2>1, ListInit DEF NothingUnlisted, TwiceOnlyInSubgroups
<1>2. ListInv /\ NothingUnlisted /\ TwiceOnlyInSubgroups /\ [Next]_vars
      => ListInv' /\ NothingUnlisted' /\ TwiceOnlyInSubgroups'
  BY ListNext, SavedNext
<1>. QED
  BY <1>1, <1>2, PTL DEF Spec

-----------------------------------------------------------------------------
(***************************************************************************)
(* The folders.                                                            *)
(***************************************************************************)
\* The words that stand in addresses, and all that stands between slashes.
Words ==
    {"scm", "projects", "users", "repos", "browse", "commits", "pull-requests", "diff", "refs", "heads",
     "-", "tree", "merge_requests", "diffs", "pull", "files", "blob", "commit",
     "feature", "5", "sha", "dir", "main.go"}
Segments == Names \cup Words

LEMMA WordsAreSegments == Words \subseteq Segments /\ Names \subseteq Segments
  BY DEF Segments

\* A path without empty segments is its own segments.
LEMMA NoEmptySegments ==
    ASSUME NEW s \in Seq(Segments)
    PROVE  GetPathDirs(s) = s
<1>. DEFINE n == Len(s)
            dirs == {i \in DOMAIN s : s[i] # ""}
<1>1. n \in Nat /\ DOMAIN s = 1 .. n
  OBVIOUS
<1>2. dirs = 1 .. n
  <2>1. \A i \in 1 .. n : s[i] \in Segments
    BY <1>1
  <2>2. \A i \in 1 .. n : s[i] # ""
    BY <2>1 DEF Segments, Names, Words
  <2>. QED
    BY <1>1, <2>2
<1>3. \A m \in Nat : Cardinality(1 .. m) = m
  <2>1. ASSUME NEW m \in Nat PROVE Cardinality(1 .. m) = m
    <3>1. Cardinality(1 .. m) = IF 1 > m THEN 0 ELSE m - 1 + 1
      BY FS_Interval
    <3>. QED
      BY <3>1
  <2>. QED
    BY <2>1
<1>. DEFINE place(i) == Cardinality({j \in dirs : j <= i})
<1>4. ASSUME NEW i \in 1 .. n PROVE place(i) = i
  <2>1. {j \in 1 .. n : j <= i} = 1 .. i
    BY <1>1
  <2>2. Cardinality(1 .. i) = i
    BY <1>1, <1>3
  <2>. QED
    BY <1>2, <2>1, <2>2
<1>5. ASSUME NEW k \in 1 .. n PROVE (CHOOSE i \in dirs : place(i) = k) = k
  <2>1. k \in dirs /\ place(k) = k
    BY <1>2, <1>4
  <2>2. \A i \in dirs : place(i) = k => i = k
    BY <1>2, <1>4
  <2>. HIDE DEF place, dirs
  <2>. QED
    BY <2>1, <2>2
<1>6. Cardinality(dirs) = n
  BY <1>1, <1>2, <1>3
<1>7. GetPathDirs(s) = [k \in 1 .. Cardinality(dirs) |-> s[CHOOSE i \in dirs : place(i) = k]]
  BY DEF GetPathDirs
<1>. HIDE DEF place, dirs
<1>8. GetPathDirs(s) = [k \in 1 .. n |-> s[k]]
  BY <1>5, <1>6, <1>7
<1>9. [k \in 1 .. n |-> s[k]] = s
  BY <1>1
<1>. QED
  BY <1>8, <1>9

\* A path of three parts, each of which can be told from it.
LEMMA ThreeParts ==
    ASSUME NEW T, NEW s \in Seq(T), NEW a \in T, NEW b \in T
    PROVE  LET p == <<a>> \o s \o <<b>>
           IN  /\ p \in Seq(T) /\ Len(p) = Len(s) + 2
               /\ p[1] = a /\ p[Len(s) + 2] = b
               /\ \A i \in 1 .. Len(s) : p[i + 1] = s[i]
<1>. DEFINE q == <<a>> \o s
            p == q \o <<b>>
            n == Len(s)
<1>1. n \in Nat /\ \A i \in 1 .. n : s[i] \in T
  OBVIOUS
<1>2. q \in Seq(T) /\ Len(q) = n + 1 /\ q[1] = a /\ \A i \in 1 .. n : q[i + 1] = s[i]
  BY <1>1
<1>. HIDE DEF q
<1>3. p \in Seq(T) /\ Len(p) = n + 2 /\ p[n + 2] = b /\ \A i \in 1 .. n + 1 : p[i] = q[i]
  BY <1>1, <1>2
<1>4. p[1] = a /\ \A i \in 1 .. n : p[i + 1] = s[i]
  <2>. HIDE DEF p
  <2>. QED
    BY <1>1, <1>2, <1>3
<1>. QED
  BY <1>3, <1>4 DEF p, q

\* The names of a repository.
LEMMA UniverseFacts ==
    ASSUME ServiceOK, NEW r \in Universe(svc)
    PROVE  /\ r \in Repositories /\ r.ns \in DOMAIN svc.repos /\ r.ns \in Seq(Names) /\ r.ns # <<>>
           /\ Len(r.ns) \in Nat /\ Len(r.ns) > 0 /\ r.name \in Names /\ svc.host \in Names
           /\ r.slug \in Names
<1>1. ServiceType(svc) /\ OnePlace(svc)
  BY ServiceFacts
<1>2. r \in Repositories
  <2>1. CASE r \in svc.late
    BY <1>1, <2>1 DEF ServiceType
  <2>2. CASE r \notin svc.late
    <3>1. PICK g \in DOMAIN svc.repos : r \in Range(svc.repos[g])
      BY <2>2 DEF Universe
    <3>2. svc.repos[g] \in Seq(Repositories)
      BY <1>1 DEF ServiceType
    <3>. QED
      BY <3>1, <3>2, RangeIndex
  <2>. QED
    BY <2>1, <2>2
<1>3. r.ns \in DOMAIN svc.repos
  BY <1>1 DEF OnePlace
<1>4. r.ns \in Seq(Names) /\ r.ns # <<>> /\ svc.host \in Names
  BY <1>1, <1>3 DEF ServiceType
<1>5. r.name \in Names /\ r.slug \in Names
  BY <1>2 DEF Repositories
<1>. QED
  BY <1>2, <1>3, <1>4, <1>5

LEMMA LinkHosts ==
    ASSUME ServiceOK, NEW r \in Universe(svc)
    PROVE  /\ HttpLink(r).host = svc.host /\ HttpLink(r) # NoLink
           /\ SshLink(r) # NoLink => SshLink(r).host = svc.host
<1>1. svc.host # ""
  BY UniverseFacts DEF Names
<1>2. NoLink.host = ""
  BY DEF NoLink, Https, Address
<1>3. HttpLink(r).host = svc.host
  BY DEF HttpLink, Https, Address
<1>4. SshLink(r) = NoLink \/ SshLink(r).host = svc.host
  BY DEF SshLink, Ssh, Address
<1>. QED
  BY <1>1, <1>2, <1>3, <1>4

\* The parts of a folder that a user of Bitbucket does not have are the names
\* of the repository.
LEMMA TrimHomeFacts ==
    ASSUME ServiceOK, NEW r \in Universe(svc)
    PROVE  /\ TrimHome(r.ns) \in Seq(Names)
           /\ \/ TrimHome(r.ns) = r.ns
              \/ /\ svc.plugin = "bitbucket"
                 /\ \E u \in DOMAIN Home : r.ns = <<Home[u]>> /\ TrimHome(r.ns) = <<u>>
<1>1. r.ns \in Seq(Names)
  BY UniverseFacts
<1>2. CASE svc.plugin = "bitbucket" /\ \E u \in DOMAIN Home : r.ns = <<Home[u]>>
  <2>. DEFINE v == CHOOSE u \in DOMAIN Home : r.ns = <<Home[u]>>
  <2>1. v \in DOMAIN Home /\ r.ns = <<Home[v]>>
    BY <1>2
  <2>2. TrimHome(r.ns) = <<v>>
    BY <1>2 DEF TrimHome
  <2>. HIDE DEF v
  <2>3. v \in Names
    BY <2>1, HomeAssumption
  <2>4. <<v>> \in Seq(Names)
    BY <2>3
  <2>. QED
    BY <1>2, <2>1, <2>2, <2>4
<1>3. CASE ~(svc.plugin = "bitbucket" /\ \E u \in DOMAIN Home : r.ns = <<Home[u]>>)
  BY <1>1, <1>3 DEF TrimHome
<1>. QED
  BY <1>2, <1>3

LEMMA FolderOf ==
    ASSUME NEW domain \in Names, NEW ns \in Seq(Names), NEW repo \in Names
    PROVE  Folder(domain, ns, repo) = <<domain>> \o ns \o <<repo>>
<1>1. <<domain>> \o ns \o <<repo>> \in Seq(Segments)
  <2>1. ns \in Seq(Segments) /\ domain \in Segments /\ repo \in Segments
    BY WordsAreSegments
  <2>. QED
    BY <2>1, ThreeParts
<1>. QED
  BY <1>1, NoEmptySegments DEF Folder

LEMMA EntryParts ==
    ASSUME NEW r
    PROVE  /\ ToRepositoryParams(r).domain = IF svc.plugin = "github" THEN r.homepage ELSE ""
           /\ ToRepositoryParams(r).ns = r.ns /\ ToRepositoryParams(r).repo = r.name
           /\ ToRepositoryParams(r).http = HttpLink(r) /\ ToRepositoryParams(r).ssh = SshLink(r)
  BY DEF ToRepositoryParams

\* Where a repository that can be cloned is cloned.
LEMMA FetchedTo ==
    ASSUME ServiceOK, NEW r \in Universe(svc), NEW auth \in {"http", "ssh"},
           GetCloneURL(ToRepositoryParams(r), auth) # NoLink
    PROVE  \E domain \in Names :
              /\ FetchFolder(ToRepositoryParams(r), auth) = <<domain>> \o TrimHome(r.ns) \o <<r.name>>
              /\ ToRepositoryParams(r).domain = "" => domain = svc.host
<1>. DEFINE e == ToRepositoryParams(r)
            domain == IF e.domain = "" THEN GetDomain(GetCloneURL(e, auth)) ELSE e.domain
<1>1. /\ e.domain = (IF svc.plugin = "github" THEN r.homepage ELSE "")
      /\ e.ns = r.ns /\ e.repo = r.name /\ e.http = HttpLink(r) /\ e.ssh = SshLink(r)
  BY EntryParts
<1>2. r \in Repositories /\ r.ns \in Seq(Names) /\ r.name \in Names /\ svc.host \in Names
      /\ TrimHome(r.ns) \in Seq(Names)
  BY UniverseFacts, TrimHomeFacts
<1>3. GetDomain(GetCloneURL(e, auth)) = svc.host
  <2>. HIDE DEF e
  <2>1. GetCloneURL(e, auth) \in {HttpLink(r), SshLink(r)}
    BY <1>1 DEF GetCloneURL
  <2>2. GetCloneURL(e, auth) # NoLink
    BY DEF e
  <2>. QED
    BY <2>1, <2>2, LinkHosts DEF GetDomain
<1>4. r.homepage \in STRING
  BY <1>2 DEF Repositories
<1>. HIDE DEF e
<1>5. domain \in Names /\ (e.domain = "" => domain = svc.host)
  BY <1>1, <1>2, <1>3, <1>4 DEF Names
<1>6. FetchFolder(e, auth) = Folder(domain, TrimHome(r.ns), r.name)
  BY <1>1 DEF FetchFolder
<1>. HIDE DEF domain
<1>7. FetchFolder(e, auth) = <<domain>> \o TrimHome(r.ns) \o <<r.name>>
  BY <1>2, <1>5, <1>6, FolderOf
<1>. QED
  BY <1>5, <1>7 DEF e

\* A plain entry is scanned where it is cloned, and is alone there.
LEMMA OneFolder ==
    ASSUME ServiceOK, NEW r \in Universe(svc), NEW auth \in {"http", "ssh"},
           PlainEntry(ToRepositoryParams(r))
    PROVE  /\ GetCloneURL(ToRepositoryParams(r), auth) # NoLink
           /\ FetchFolder(ToRepositoryParams(r), auth) = AnalyseFolder(ToRepositoryParams(r))
           /\ \A q \in Universe(svc) :
                 /\ GetCloneURL(ToRepositoryParams(q), auth) # NoLink
                 /\ FetchFolder(ToRepositoryParams(q), auth) = FetchFolder(ToRepositoryParams(r), auth)
                 => q = r
<1>. DEFINE e == ToRepositoryParams(r)
<1>1. /\ e.domain = "" /\ e.ssh # NoLink
      /\ svc.plugin = "bitbucket" => \A u \in DOMAIN Home : e.ns \notin {<<u>>, <<Home[u]>>}
  BY DEF PlainEntry
<1>2. e.ns = r.ns /\ e.repo = r.name /\ e.http = HttpLink(r) /\ e.ssh = SshLink(r)
  BY EntryParts
<1>3. r.ns \in Seq(Names) /\ r.name \in Names /\ svc.host \in Names
  BY UniverseFacts
<1>4. TrimHome(r.ns) = r.ns
  BY <1>1, <1>2, TrimHomeFacts
<1>5. GetCloneURL(e, auth) # NoLink
  BY <1>1, <1>2, LinkHosts DEF GetCloneURL
<1>6. FetchFolder(e, auth) = <<svc.host>> \o r.ns \o <<r.name>>
  BY <1>1, <1>4, <1>5, FetchedTo
<1>7. AnalyseFolder(e) = <<svc.host>> \o r.ns \o <<r.name>>
  <2>. HIDE DEF e
  <2>1. AnalyseFolder(e) = Folder(svc.host, r.ns, r.name)
    BY <1>1, <1>2, LinkHosts DEF AnalyseFolder, GetDomain
  <2>. QED
    BY <1>3, <2>1, FolderOf
<1>8. ASSUME NEW q \in Universe(svc), GetCloneURL(ToRepositoryParams(q), auth) # NoLink,
             FetchFolder(ToRepositoryParams(q), auth) = FetchFolder(e, auth)
      PROVE  q = r
  <2>1. PICK domain \in Names : FetchFolder(ToRepositoryParams(q), auth) = <<domain>> \o TrimHome(q.ns) \o <<q.name>>
    BY <1>8, FetchedTo
  <2>2. TrimHome(q.ns) \in Seq(Names) /\ q.name \in Names
    BY UniverseFacts, TrimHomeFacts
  <2>3. <<domain>> \o TrimHome(q.ns) \o <<q.name>> = <<svc.host>> \o r.ns \o <<r.name>>
    BY <1>6, <1>8, <2>1
  <2>4. TrimHome(q.ns) = r.ns /\ q.name = r.name
    <3>1. PICK s \in Seq(Names) : s = TrimHome(q.ns)
      BY <2>2
    <3>2. PICK t \in Seq(Names) : t = r.ns
      BY <1>3
    <3>3. PICK a \in Names : a = q.name
      BY <2>2
    <3>4. PICK b \in Names : b = r.name
      BY <1>3
    <3>5. PICK home \in Names : home = svc.host
      BY <1>3
    <3>6. <<domain>> \o s \o <<a>> = <<home>> \o t \o <<b>>
      BY <2>3, <3>1, <3>2, <3>3, <3>4, <3>5
    <3>7. s = t /\ a = b
      <4>. DEFINE p == <<domain>> \o s \o <<a>>
      <4>1. /\ Len(p) = Len(s) + 2 /\ p[1] = domain /\ p[Len(s) + 2] = a
            /\ \A i \in 1 .. Len(s) : p[i + 1] = s[i]
        BY ThreeParts
      <4>2. p = <<home>> \o t \o <<b>>
        BY <3>6, Zenon
      <4>l. Len(s) \in Nat /\ Len(t) \in Nat
        OBVIOUS
      <4>. HIDE DEF p
      <4>3. /\ Len(p) = Len(t) + 2 /\ p[1] = home /\ p[Len(t) + 2] = b
            /\ \A i \in 1 .. Len(t) : p[i + 1] = t[i]
        BY <4>2, ThreeParts
      <4>4. a = b /\ Len(s) = Len(t) /\ \A i \in 1 .. Len(s) : s[i] = t[i]
        BY <4>1, <4>l, <4>3
      <4>. QED
        BY <4>4, SeqEqual
    <3>. QED
      BY <3>1, <3>2, <3>3, <3>4, <3>7
  <2>5. q.ns = r.ns
    BY <1>1, <1>2, <2>4, TrimHomeFacts
  <2>. QED
    BY <2>4, <2>5, ServiceFacts DEF OnePlace
<1>. QED
  BY <1>5, <1>6, <1>7, <1>8

-----------------------------------------------------------------------------
(***************************************************************************)
(* The scans find their clones.                                            *)
(***************************************************************************)
\* The file has entries of repositories of the service.
FileOK == \E s \in Seq(Universe(svc)) : file = Entries(s)

\* Every entry that can be cloned has a clone, or shares the folder of one.
Cloned(auth) ==
    \A e \in Range(file) :
        GetCloneURL(e, auth) # NoLink =>
            LET folder == FetchFolder(e, auth)
            IN  /\ folder \in DOMAIN clones /\ clones[folder] \in Range(file)
                /\ GetCloneURL(clones[folder], auth) # NoLink
                /\ FetchFolder(clones[folder], auth) = folder

FoldersOK ==
    /\ FileOK
    /\ pc # "analysed" => scans = {}
    /\ pc = "fetched" => \E auth \in {"http", "ssh"} : Cloned(auth)

\* The service is the same one all the time.
LEMMA SameOwner ==
    ASSUME [Next]_vars
    PROVE  /\ svc' = svc
           /\ file' = file \/ (Save /\ pc = "listed" /\ file' = Entries(result))
           /\ UNCHANGED <<clones, scans>> \/ (\E auth \in {"http", "ssh"} : Fetch(auth)) \/ Analyse
<1>1. CASE \E s \in Scopes, l \in BOOLEAN : List(s, l)
  BY <1>1 DEF List, service, useVars
<1>2. CASE GroupsListed
  BY <1>2 DEF GroupsListed, service, useVars
<1>3. CASE RepoPage
  BY <1>3 DEF RepoPage, service, useVars
<1>4. CASE SubgroupsListed
  BY <1>4 DEF SubgroupsListed, service, useVars
<1>5. CASE LanguagesRead
  BY <1>5 DEF LanguagesRead, service, useVars
<1>6. CASE GroupDone
  BY <1>6 DEF GroupDone, service, useVars
<1>7. CASE OwnListed
  BY <1>7 DEF OwnListed, service, useVars
<1>8. CASE CallFails
  BY <1>8 DEF CallFails, service, useVars
<1>9. CASE Save
  BY <1>9 DEF Save, service, useVars
<1>10. CASE Created
  BY <1>10 DEF Created, useVars
<1>11. CASE Deleted
  BY <1>11 DEF Deleted, useVars
<1>12. CASE \E auth \in {"http", "ssh"} : Fetch(auth)
  BY <1>12 DEF Fetch, service
<1>13. CASE Analyse
  BY <1>13 DEF Analyse, service
<1>14. CASE \E reading \in Readings : Open(reading) \/ Follow(reading) \/ OpenUserPage(reading)
  BY <1>14, LinkStep DEF service
<1>15. CASE UNCHANGED vars
  BY <1>15 DEF vars, service, useVars
<1>. QED
  BY <1>1, <1>2, <1>3, <1>4, <1>5, <1>6, <1>7, <1>8, <1>9, <1>10, <1>11, <1>12, <1>13, <1>14, <1>15 DEF Next

LEMMA FileStep ==
    ASSUME ListInv, FileOK, [Next]_vars
    PROVE  FileOK'
<1>1. svc' = svc /\ (file' = file \/ file' = Entries(result))
  BY SameOwner
<1>2. PICK s \in Seq(Universe(svc)) : file = Entries(s)
  BY DEF FileOK
<1>3. result \in Seq(Universe(svc))
  BY DEF ListInv, ListOK
<1>4. PICK t \in Seq(Universe(svc)) : file' = Entries(t)
  BY <1>1, <1>2, <1>3
<1>5. Entries(t)' = Entries(t)
  BY <1>1 DEF Entries, ToRepositoryParams, HttpLink, SshLink
<1>. QED
  BY <1>1, <1>4, <1>5 DEF FileOK

\* Only a fetch leads to clones that have not been scanned.
LEMMA OnlyFetches ==
    ASSUME [Next]_vars, pc' = "fetched"
    PROVE  (\E auth \in {"http", "ssh"} : Fetch(auth)) \/ UNCHANGED vars
<1>1. CASE \E s \in Scopes, l \in BOOLEAN : List(s, l)
  BY <1>1 DEF List
<1>2. CASE GroupsListed
  BY <1>2 DEF GroupsListed
<1>3. CASE RepoPage
  BY <1>3 DEF RepoPage, NextNamespace
<1>4. CASE SubgroupsListed
  BY <1>4 DEF SubgroupsListed, NextGroup
<1>5. CASE LanguagesRead
  BY <1>5 DEF LanguagesRead
<1>6. CASE GroupDone
  BY <1>6 DEF GroupDone, NextNamespace
<1>7. CASE OwnListed
  BY <1>7 DEF OwnListed
<1>8. CASE CallFails
  BY <1>8 DEF CallFails, SkipSubgroup, SkipNamespace, FailList, SkipRepository, NextGroup, NextNamespace
<1>9. CASE Save
  BY <1>9 DEF Save
<1>10. CASE Created
  BY <1>10 DEF Created, Listing
<1>11. CASE Deleted
  BY <1>11 DEF Deleted, Listing
<1>12. CASE Analyse
  BY <1>12 DEF Analyse
<1>13. CASE \E reading \in Readings : Open(reading) \/ Follow(reading) \/ OpenUserPage(reading)
  BY <1>13, LinkStep
<1>. QED
  BY <1>1, <1>2, <1>3, <1>4, <1>5, <1>6, <1>7, <1>8, <1>9, <1>10, <1>11, <1>12, <1>13 DEF Next

\* Only the analyse command leads to scans.
LEMMA OnlyAnalyses ==
    ASSUME [Next]_vars, pc' = "analysed", pc # "analysed"
    PROVE  Analyse
<1>1. CASE \E s \in Scopes, l \in BOOLEAN : List(s, l)
  BY <1>1 DEF List
<1>2. CASE GroupsListed
  BY <1>2 DEF GroupsListed
<1>3. CASE RepoPage
  BY <1>3 DEF RepoPage, NextNamespace
<1>4. CASE SubgroupsListed
  BY <1>4 DEF SubgroupsListed, NextGroup
<1>5. CASE LanguagesRead
  BY <1>5 DEF LanguagesRead
<1>6. CASE GroupDone
  BY <1>6 DEF GroupDone, NextNamespace
<1>7. CASE OwnListed
  BY <1>7 DEF OwnListed
<1>8. CASE CallFails
  BY <1>8 DEF CallFails, SkipSubgroup, SkipNamespace, FailList, SkipRepository, NextGroup, NextNamespace
<1>9. CASE Save
  BY <1>9 DEF Save
<1>10. CASE Created
  BY <1>10 DEF Created, Listing
<1>11. CASE Deleted
  BY <1>11 DEF Deleted, Listing
<1>12. CASE \E auth \in {"http", "ssh"} : Fetch(auth)
  BY <1>12 DEF Fetch
<1>13. CASE \E reading \in Readings : Open(reading) \/ Follow(reading) \/ OpenUserPage(reading)
  BY <1>13, LinkStep
<1>14. CASE UNCHANGED vars
  BY <1>14 DEF vars
<1>. QED
  BY <1>1, <1>2, <1>3, <1>4, <1>5, <1>6, <1>7, <1>8, <1>9, <1>10, <1>11, <1>12, <1>13, <1>14 DEF Next

\* Once scanned, nothing more happens.
LEMMA AnalysedIsLast ==
    ASSUME [Next]_vars, pc = "analysed"
    PROVE  UNCHANGED vars
<1>1. \A s \in Scopes, l \in BOOLEAN : ~List(s, l)
  BY DEF List
<1>2. ~GroupsListed /\ ~RepoPage /\ ~SubgroupsListed /\ ~LanguagesRead /\ ~GroupDone /\ ~OwnListed
  BY DEF GroupsListed, RepoPage, SubgroupsListed, LanguagesRead, GroupDone, OwnListed
<1>3. ~CallFails /\ ~Save /\ ~Created /\ ~Deleted /\ ~Analyse
  BY DEF CallFails, Save, Created, Deleted, Analyse, Listing
<1>4. \A auth \in {"http", "ssh"} : ~Fetch(auth)
  BY DEF Fetch
<1>5. \A reading \in Readings : ~Open(reading) /\ ~Follow(reading) /\ ~OpenUserPage(reading)
  BY DEF Open, Follow, OpenUserPage
<1>. QED
  BY <1>1, <1>2, <1>3, <1>4, <1>5 DEF Next

LEMMA FetchClones ==
    ASSUME NEW auth \in {"http", "ssh"}, Fetch(auth)
    PROVE  Cloned(auth)'
<1>. DEFINE cloned == {e \in Range(file) : GetCloneURL(e, auth) # NoLink}
<1>1. PICK stays \in SUBSET cloned :
        /\ \A e \in cloned : \E d \in stays : FetchFolder(d, auth) = FetchFolder(e, auth)
        /\ clones' = [f \in {FetchFolder(e, auth) : e \in stays} |->
                        CHOOSE e \in stays : FetchFolder(e, auth) = f]
  BY DEF Fetch
<1>2. file' = file /\ svc' = svc
  BY DEF Fetch, service
<1>3. \A e : FetchFolder(e, auth)' = FetchFolder(e, auth)
  BY <1>2 DEF FetchFolder, TrimHome
<1>4. ASSUME NEW e \in Range(file), GetCloneURL(e, auth) # NoLink
      PROVE  LET folder == FetchFolder(e, auth)
             IN  /\ folder \in DOMAIN clones' /\ clones'[folder] \in Range(file)
                 /\ GetCloneURL(clones'[folder], auth) # NoLink
                 /\ FetchFolder(clones'[folder], auth) = folder
  <2>. DEFINE folder == FetchFolder(e, auth)
              c == CHOOSE d \in stays : FetchFolder(d, auth) = folder
  <2>1. PICK d \in stays : FetchFolder(d, auth) = folder
    BY <1>1, <1>4
  <2>2. c \in stays /\ FetchFolder(c, auth) = folder
    BY <2>1
  <2>3. folder \in DOMAIN clones' /\ clones'[folder] = c
    BY <1>1, <2>1
  <2>. HIDE DEF c
  <2>. QED
    BY <2>2, <2>3
<1>. QED
  BY <1>2, <1>3, <1>4 DEF Cloned

LEMMA FoldersNext ==
    ASSUME ListInv, FoldersOK, [Next]_vars
    PROVE  FoldersOK'
<1>1. FileOK'
  BY FileStep DEF FoldersOK
<1>2. pc' # "analysed" => scans' = {}
  <2>1. CASE pc = "analysed"
    BY <2>1, AnalysedIsLast DEF FoldersOK, vars, useVars
  <2>2. CASE pc # "analysed" /\ scans' = scans
    BY <2>2 DEF FoldersOK
  <2>3. CASE Analyse
    BY <2>3 DEF Analyse
  <2>4. CASE \E auth \in {"http", "ssh"} : Fetch(auth)
    BY <2>4 DEF Fetch, FoldersOK
  <2>. QED
    BY <2>1, <2>2, <2>3, <2>4, SameOwner
<1>3. pc' = "fetched" => \E auth \in {"http", "ssh"} : Cloned(auth)'
  <2>1. CASE \E auth \in {"http", "ssh"} : Fetch(auth)
    BY <2>1, FetchClones
  <2>2. CASE pc' = "fetched" /\ UNCHANGED vars
    <3>1. pc = "fetched" /\ svc' = svc /\ file' = file /\ clones' = clones
      BY <2>2 DEF vars, service, useVars
    <3>2. PICK auth \in {"http", "ssh"} : Cloned(auth)
      BY <3>1 DEF FoldersOK
    <3>3. \A e : FetchFolder(e, auth)' = FetchFolder(e, auth)
      BY <3>1 DEF FetchFolder, TrimHome
    <3>4. Cloned(auth)'
      BY <3>1, <3>2, <3>3 DEF Cloned
    <3>. QED
      BY <3>4
  <2>. QED
    BY <2>1, <2>2, OnlyFetches
<1>. QED
  BY <1>1, <1>2, <1>3 DEF FoldersOK

LEMMA ScansStep ==
    ASSUME ListInv, FoldersOK, ScansFindTheirClones, [Next]_vars
    PROVE  ScansFindTheirClones'
<1>1. CASE pc' # "analysed"
  <2>1. scans' = {}
    BY <1>1, FoldersNext DEF FoldersOK
  <2>. QED
    BY <2>1 DEF ScansFindTheirClones
<1>2. CASE UNCHANGED vars
  <2>1. svc' = svc /\ scans' = scans /\ clones' = clones
    BY <1>2 DEF vars, service, useVars
  <2>2. \A e : PlainEntry(e)' <=> PlainEntry(e)
    BY <2>1 DEF PlainEntry
  <2>. QED
    BY <2>1, <2>2 DEF ScansFindTheirClones
<1>3. CASE Analyse
  <2>1. /\ pc = "fetched" /\ scans' = {<<e, AnalyseFolder(e)>> : e \in Range(file)}
        /\ svc' = svc /\ clones' = clones
    BY <1>3 DEF Analyse, service
  <2>2. PICK auth \in {"http", "ssh"} : Cloned(auth)
    BY <2>1 DEF FoldersOK
  <2>3. PICK s \in Seq(Universe(svc)) : file = Entries(s)
    BY DEF FoldersOK, FileOK
  <2>4. Range(file) = {ToRepositoryParams(r) : r \in Range(s)} /\ Range(s) \subseteq Universe(svc)
    BY <2>3, EntriesOf, RangeIndex
  <2>5. ServiceOK
    BY DEF ListInv
  <2>6. ASSUME NEW e \in Range(file), PlainEntry(e)
        PROVE  AnalyseFolder(e) \in DOMAIN clones /\ clones[AnalyseFolder(e)] = e
    <3>1. PICK r \in Universe(svc) : e = ToRepositoryParams(r)
      BY <2>4
    <3>2. /\ GetCloneURL(e, auth) # NoLink
          /\ FetchFolder(e, auth) = AnalyseFolder(e)
          /\ \A q \in Universe(svc) :
                /\ GetCloneURL(ToRepositoryParams(q), auth) # NoLink
                /\ FetchFolder(ToRepositoryParams(q), auth) = FetchFolder(e, auth)
                => q = r
      BY <2>5, <2>6, <3>1, OneFolder
    <3>3. /\ AnalyseFolder(e) \in DOMAIN clones /\ clones[AnalyseFolder(e)] \in Range(file)
          /\ GetCloneURL(clones[AnalyseFolder(e)], auth) # NoLink
          /\ FetchFolder(clones[AnalyseFolder(e)], auth) = FetchFolder(e, auth)
      BY <2>2, <3>2 DEF Cloned
    <3>4. PICK q \in Universe(svc) : clones[AnalyseFolder(e)] = ToRepositoryParams(q)
      BY <2>4, <3>3
    <3>5. q = r
      BY <3>2, <3>3, <3>4
    <3>. QED
      BY <3>1, <3>3, <3>4, <3>5
  <2>7. \A e : PlainEntry(e)' <=> PlainEntry(e)
    BY <2>1 DEF PlainEntry
  <2>8. ASSUME NEW x \in scans', PlainEntry(x[1])' PROVE x[2] \in DOMAIN clones' /\ clones'[x[2]] = x[1]
    <3>1. PICK e \in Range(file) : x = <<e, AnalyseFolder(e)>>
      BY <2>1
    <3>2. x[1] = e /\ x[2] = AnalyseFolder(e)
      BY <3>1
    <3>3. PlainEntry(e)
      BY <2>7, <2>8, <3>2
    <3>. QED
      BY <2>1, <2>6, <3>2, <3>3
  <2>. QED
    BY <2>8 DEF ScansFindTheirClones
<1>4. pc' = "analysed" => Analyse \/ UNCHANGED vars
  <2>1. CASE pc = "analysed"
    BY <2>1, AnalysedIsLast
  <2>2. CASE pc # "analysed"
    BY <2>2, OnlyAnalyses
  <2>. QED
    BY <2>1, <2>2
<1>. QED
  BY <1>1, <1>2, <1>3, <1>4

\* The analyse command looks for a plain entry of the file where the fetch
\* command has put its clone, whichever address was cloned, and no other
\* repository is there (ScansFindTheirClones).
THEOREM ScansAlwaysFindTheirClones == Spec => []ScansFindTheirClones
<1>1. Init => ListInv /\ FoldersOK /\ ScansFindTheirClones
  <2>1. ASSUME Init PROVE FoldersOK /\ ScansFindTheirClones
    <3>1. file = <<>> /\ scans = {} /\ pc = "idle"
      BY <2>1 DEF Init
    <3>2. <<>> \in Seq(Universe(svc)) /\ Entries(<<>>) = <<>>
      BY DEF Entries
    <3>. QED
      BY <3>1, <3>2 DEF FoldersOK, FileOK, ScansFindTheirClones
  <2>. QED
    BY <2>1, ListInit
<1>2. ListInv /\ FoldersOK /\ ScansFindTheirClones /\ [Next]_vars
      => ListInv' /\ FoldersOK' /\ ScansFindTheirClones'
  BY ListNext, FoldersNext, ScansStep
<1>. QED
  BY <1>1, <1>2, PTL DEF Spec

-----------------------------------------------------------------------------
(***************************************************************************)
(* The links.                                                              *)
(***************************************************************************)
\* A link of the service to a page, and the address of a repository over SSH.
WebLink(path, ref) == [scheme |-> "https", host |-> svc.host, port |-> NoPort, path |-> path, at |-> ref]
SshAt(port, path) == [scheme |-> "ssh", host |-> svc.host, port |-> port, path |-> path, at |-> NoRef]

\* What is read of a repository.
ReadOf(ns, repo, branch, pr, page, ssh) ==
    [type |-> svc.plugin, host |-> svc.host, ns |-> ns, repo |-> repo, branch |-> branch, pr |-> pr,
     http |-> WebLink(page, NoRef), ssh |-> ssh]

LEMMA LinksOf ==
    ASSUME NEW path \in Seq(Segments)
    PROVE  /\ Https(svc.host, path) = WebLink(path, NoRef)
           /\ \A port : Ssh(svc.host, port, path) = SshAt(port, path)
<1>1. GetPathDirs(path) = path
  BY NoEmptySegments
<1>. QED
  BY <1>1 DEF Https, Ssh, Address, WebLink, SshAt

\* However a reader learns of the service, it knows its addresses.
LEMMA ReadByPlugin ==
    ASSUME ServiceOK, NEW link, link.host = svc.host, NEW reading \in Readings
    PROVE  ReadBy(link, reading) = ParseAs(link, svc.plugin)
<1>1. svc.plugin \in {"github", "gitlab", "bitbucket"} /\ HostKind[svc.host] \in {"generic", svc.plugin}
  BY ServiceFacts DEF ServiceType, Plugins
<1>2. CASE reading = "name"
  <2>1. StringToVCSType(svc.plugin) = svc.plugin /\ svc.plugin # "unknown"
    BY <1>1 DEF StringToVCSType
  <2>2. ReadBy(link, reading) = ParseForVCSType(link, svc.plugin)
    BY <1>2, <2>1 DEF ReadBy
  <2>. QED
    BY <2>1, <2>2 DEF ParseForVCSType
<1>3. CASE reading = "map"
  <2>1. ResolveVCSType(link, [h \in {svc.host} |-> svc.plugin]) = svc.plugin
    BY DEF ResolveVCSType
  <2>2. ReadBy(link, reading) = ParseWithOptions(link, [h \in {svc.host} |-> svc.plugin])
    BY <1>3 DEF ReadBy
  <2>. QED
    BY <2>1, <2>2 DEF ParseWithOptions
<1>4. CASE reading = "nothing"
  <2>1. HostKind[svc.host] = svc.plugin /\ svc.plugin # "generic"
    BY <1>1, <1>4 DEF Readings
  <2>2. DetermineVCSType(link) = svc.plugin
    BY <2>1 DEF DetermineVCSType
  <2>3. ReadBy(link, reading) = ParseForVCSType(link, "unknown")
    BY <1>4 DEF ReadBy
  <2>. QED
    BY <2>2, <2>3 DEF ParseForVCSType
<1>. QED
  BY <1>2, <1>3, <1>4 DEF Readings

\* A page and what stands behind it.
LEMMA PathConcat ==
    ASSUME NEW s \in Seq(Segments), NEW t \in Seq(Segments)
    PROVE  /\ s \o t \in Seq(Segments) /\ Len(s \o t) = Len(s) + Len(t) /\ Len(s) \in Nat /\ Len(t) \in Nat
           /\ \A i \in 1 .. Len(s) : (s \o t)[i] = s[i]
           /\ \A i \in 1 .. Len(t) : (s \o t)[Len(s) + i] = t[i]
  OBVIOUS

\* The segments behind a page that the links of a report have.
LEMMA Tails ==
    /\ LET t == <<"tree">> \o Branch
       IN  t \in Seq(Segments) /\ Len(t) = 2 /\ t[1] = "tree" /\ t[2] = "feature"
    /\ LET t == <<"-", "tree">> \o Branch
       IN  t \in Seq(Segments) /\ Len(t) = 3 /\ t[1] = "-" /\ t[2] = "tree" /\ t[3] = "feature"
    /\ LET t == <<"refs", "heads">> \o Branch
       IN  t \in Seq(Segments) /\ Len(t) = 3 /\ t[3] = "feature"
    /\ LET t == <<"browse">> \o File
       IN  t \in Seq(Segments) /\ Len(t) = 3 /\ t[1] = "browse"
    /\ LET t == <<"blob", Sha>> \o File
       IN  t \in Seq(Segments) /\ Len(t) = 4 /\ t[1] = "blob"
<1>0. Words \subseteq Segments
  BY WordsAreSegments
<1>1. ASSUME NEW a \in Segments, NEW b \in Segments
      PROVE  LET t == <<a>> \o <<b>> IN t \in Seq(Segments) /\ Len(t) = 2 /\ t[1] = a /\ t[2] = b
  OBVIOUS
<1>2. ASSUME NEW a \in Segments, NEW b \in Segments, NEW c \in Segments
      PROVE  /\ LET t == <<a, b>> \o <<c>>
                IN  t \in Seq(Segments) /\ Len(t) = 3 /\ t[1] = a /\ t[2] = b /\ t[3] = c
             /\ LET t == <<a>> \o <<b, c>>
                IN  t \in Seq(Segments) /\ Len(t) = 3 /\ t[1] = a
  OBVIOUS
<1>3. ASSUME NEW a \in Segments, NEW b \in Segments, NEW c \in Segments, NEW d \in Segments
      PROVE  LET t == <<a, b>> \o <<c, d>> IN t \in Seq(Segments) /\ Len(t) = 4 /\ t[1] = a
  OBVIOUS
<1>4. "tree" \in Segments /\ "feature" \in Segments /\ "-" \in Segments /\ "refs" \in Segments
      /\ "heads" \in Segments /\ "browse" \in Segments /\ "dir" \in Segments /\ "main.go" \in Segments
      /\ "blob" \in Segments /\ "sha" \in Segments
  BY <1>0 DEF Words
<1>5. LET t == <<"tree">> \o <<"feature">>
      IN  t \in Seq(Segments) /\ Len(t) = 2 /\ t[1] = "tree" /\ t[2] = "feature"
  BY <1>1, <1>4
<1>6. LET t == <<"-", "tree">> \o <<"feature">>
      IN  t \in Seq(Segments) /\ Len(t) = 3 /\ t[1] = "-" /\ t[2] = "tree" /\ t[3] = "feature"
  BY <1>2, <1>4
<1>7. LET t == <<"refs", "heads">> \o <<"feature">>
      IN  t \in Seq(Segments) /\ Len(t) = 3 /\ t[3] = "feature"
  BY <1>2, <1>4
<1>8. LET t == <<"browse">> \o <<"dir", "main.go">>
      IN  t \in Seq(Segments) /\ Len(t) = 3 /\ t[1] = "browse"
  BY <1>2, <1>4
<1>9. LET t == <<"blob", "sha">> \o <<"dir", "main.go">>
      IN  t \in Seq(Segments) /\ Len(t) = 4 /\ t[1] = "blob"
  BY <1>3, <1>4
<1>. QED
  BY <1>5, <1>6, <1>7, <1>8, <1>9 DEF Branch, File, Sha

LEMMA EndsInBranch ==
    ASSUME NEW b \in Seq(Segments), Len(b) > 0, b[Len(b)] = "feature"
    PROVE  IsSuffix(Branch, b)
<1>. DEFINE n == Len(b)
            r == Reverse(b)
            f == Reverse(Branch)
<1>1. "feature" \in Segments
  BY WordsAreSegments DEF Words
<1>2. Branch \in Seq(Segments) /\ Len(Branch) = 1 /\ Branch[1] = "feature"
  BY <1>1 DEF Branch
<1>3. n \in Nat /\ \A i \in 1 .. n : b[i] \in Segments
  OBVIOUS
<1>4. r \in Seq(Segments) /\ Len(r) = n /\ r[1] = b[n]
  BY <1>3 DEF Reverse
<1>5. f \in Seq(Segments) /\ Len(f) = 1 /\ f[1] = "feature"
  BY <1>2 DEF Reverse
<1>. HIDE DEF r, f
<1>6. SubSeq(f, 1, 1) \in Seq(Segments) /\ Len(SubSeq(f, 1, 1)) = 1 /\ SubSeq(f, 1, 1)[1] = "feature"
  BY <1>5
<1>7. SubSeq(r, 1, 1) \in Seq(Segments) /\ Len(SubSeq(r, 1, 1)) = 1 /\ SubSeq(r, 1, 1)[1] = "feature"
  BY <1>3, <1>4
<1>8. SubSeq(f, 1, 1) = SubSeq(r, 1, 1)
  BY <1>6, <1>7, SeqEqual
<1>9. IsPrefix(f, r)
  BY <1>3, <1>4, <1>5, <1>8 DEF IsPrefix
<1>. QED
  BY <1>9 DEF IsSuffix, r, f

\* The page of a repository, and what stands behind it.
LEMMA PageAndTail ==
    ASSUME NEW ns \in Seq(Names), NEW n \in Names, NEW rest \in Seq(Segments)
    PROVE  LET base == Append(ns, n)
               d    == base \o rest
           IN  /\ base \in Seq(Segments) /\ Len(base) = Len(ns) + 1 /\ Len(ns) \in Nat
               /\ d \in Seq(Segments) /\ Len(d) = Len(ns) + 1 + Len(rest) /\ Len(rest) \in Nat
               /\ \A i \in 1 .. Len(ns) : d[i] = ns[i]
               /\ d[Len(ns) + 1] = n
               /\ \A i \in 1 .. Len(ns) + 1 : d[i] = base[i]
               /\ \A i \in 1 .. Len(rest) : d[Len(ns) + 1 + i] = rest[i]
<1>. DEFINE base == Append(ns, n)
<1>1. n \in Segments /\ ns \in Seq(Segments)
  BY WordsAreSegments
<1>2. /\ base \in Seq(Segments) /\ Len(base) = Len(ns) + 1 /\ Len(ns) \in Nat
      /\ \A i \in 1 .. Len(ns) : base[i] = ns[i]
      /\ base[Len(ns) + 1] = n
  BY <1>1
<1>. HIDE DEF base
<1>. DEFINE d == base \o rest
<1>3. /\ d \in Seq(Segments) /\ Len(d) = Len(base) + Len(rest) /\ Len(rest) \in Nat
      /\ \A i \in 1 .. Len(base) : d[i] = base[i]
      /\ \A i \in 1 .. Len(rest) : d[Len(base) + i] = rest[i]
  BY <1>2, PathConcat
<1>. HIDE DEF d
<1>4. /\ Len(d) = Len(ns) + 1 + Len(rest)
      /\ \A i \in 1 .. Len(ns) : d[i] = ns[i]
      /\ d[Len(ns) + 1] = n
      /\ \A i \in 1 .. Len(ns) + 1 : d[i] = base[i]
      /\ \A i \in 1 .. Len(rest) : d[Len(ns) + 1 + i] = rest[i]
  BY <1>2, <1>3
<1>. QED
  BY <1>2, <1>3, <1>4 DEF d, base

\* A part of a path.
LEMMA Part ==
    ASSUME NEW T, NEW s \in Seq(T), NEW a \in 1 .. Len(s) + 1, NEW b \in 0 .. Len(s), a <= b + 1
    PROVE  /\ SubSeq(s, a, b) \in Seq(T) /\ Len(SubSeq(s, a, b)) = b - a + 1
           /\ \A i \in 1 .. b - a + 1 : SubSeq(s, a, b)[i] = s[a + i - 1]
  OBVIOUS

\* GitHub's pages are all read as ones of the repository.
LEMMA GithubReads ==
    ASSUME NEW u, NEW ns \in Seq(Names), Len(ns) = 1, NEW n \in Names, NEW rest \in Seq(Segments),
           u.path = Append(ns, n) \o rest
    PROVE  \E branch, pr :
              /\ ParseGithub(u) = WithGenericURLs(u, "github", ns, n, branch, pr)
              /\ Len(rest) = 2 /\ rest[1] = "tree" =>
                    branch \in Seq(Segments) /\ Len(branch) = 1 /\ branch[1] = rest[2]
              /\ Len(rest) >= 2 /\ rest[1] = "pull" => pr = rest[2]
<1>. DEFINE d == u.path
            pr == IF Len(d) > 3 /\ d[3] = "pull" THEN d[4] ELSE ""
            branch == IF Len(d) > 3 /\ d[3] = "tree" THEN SubSeq(d, 4, Len(d)) ELSE NoRef
<1>1. /\ d \in Seq(Segments) /\ Len(d) = 2 + Len(rest) /\ Len(rest) \in Nat
      /\ d[1] = ns[1] /\ d[2] = n /\ \A i \in 1 .. Len(rest) : d[2 + i] = rest[i]
  <2>1. /\ d \in Seq(Segments) /\ Len(d) = Len(ns) + 1 + Len(rest) /\ Len(rest) \in Nat
        /\ \A i \in 1 .. Len(ns) : d[i] = ns[i]
        /\ d[Len(ns) + 1] = n
        /\ \A i \in 1 .. Len(rest) : d[Len(ns) + 1 + i] = rest[i]
    BY PageAndTail
  <2>. HIDE DEF d
  <2>. QED
    BY <2>1
<1>2. ParseGithub(u) = WithGenericURLs(u, "github", <<d[1]>>, d[2], branch, pr)
  <2>1. ~(Len(d) <= 1)
    BY <1>1
  <2>. QED
    BY <2>1 DEF ParseGithub
<1>. HIDE DEF d
<1>3. <<d[1]>> = ns
  BY <1>1
<1>4. Len(rest) = 2 /\ rest[1] = "tree" =>
          branch \in Seq(Segments) /\ Len(branch) = 1 /\ branch[1] = rest[2]
  <2>1. ASSUME Len(rest) = 2, rest[1] = "tree"
        PROVE  branch \in Seq(Segments) /\ Len(branch) = 1 /\ branch[1] = rest[2]
    <3>1. Len(d) = 4 /\ d[3] = "tree" /\ d[4] = rest[2]
      BY <1>1, <2>1
    <3>2. branch = SubSeq(d, 4, 4)
      BY <3>1
    <3>. HIDE DEF branch
    <3>3. SubSeq(d, 4, 4) \in Seq(Segments) /\ Len(SubSeq(d, 4, 4)) = 1 /\ SubSeq(d, 4, 4)[1] = d[4]
      <4>1. 4 \in 1 .. Len(d) /\ 4 \in 1 .. Len(d) + 1 /\ 4 \in 0 .. Len(d)
        BY <3>1
      <4>2. d \in Seq(Segments)
        BY <1>1
      <4>. HIDE DEF pr
      <4>. QED
        BY <4>1, <4>2, Part
    <3>. QED
      BY <3>1, <3>2, <3>3
  <2>. QED
    BY <2>1
<1>5. Len(rest) >= 2 /\ rest[1] = "pull" => pr = rest[2]
  <2>1. ASSUME Len(rest) >= 2 PROVE Len(d) > 3 /\ d[3] = rest[1] /\ d[4] = rest[2]
    BY <1>1, <2>1
  <2>. QED
    BY <2>1
<1>6. ParseGithub(u) = WithGenericURLs(u, "github", ns, n, branch, pr)
  <2>1. d[2] = n
    BY <1>1
  <2>. QED
    BY <1>2, <1>3, <2>1
<1>. HIDE DEF branch, pr
<1>. QED
  BY <1>4, <1>5, <1>6

\* GitLab's pages are too, but for those whose address has the name of a page
\* before the dash.
LEMMA GitlabReads ==
    ASSUME NEW u, NEW ns \in Seq(Names), ns # <<>>, NEW n \in Names, NEW rest \in Seq(Segments),
           u.path = Append(ns, n) \o rest, ~HasPageName(Append(ns, n)),
           rest = <<>> \/ (Len(rest) >= 3 /\ rest[1] = "-" /\ rest[2] \in {"tree", "merge_requests"})
    PROVE  \E branch, pr :
              /\ ParseGitlab(u) = WithGenericURLs(u, "gitlab", ns, n, branch, pr)
              /\ Len(rest) = 3 /\ rest[2] = "tree" =>
                    branch \in Seq(Segments) /\ Len(branch) = 1 /\ branch[1] = rest[3]
              /\ Len(rest) >= 3 /\ rest[2] = "merge_requests" => pr = rest[3]
<1>. DEFINE d == u.path
            k == Len(ns) + 1
            words == {i \in 4 .. Len(d) : d[i] \in {"merge_requests", "tree"}}
            w == IF words = {} THEN 0 ELSE Min(words)
            inDash(word) == w > 0 /\ d[w] = word /\ d[w - 1] = "-"
<1>0. d \in Seq(Segments)
  BY PageAndTail
<1>1. /\ Len(ns) \in Nat /\ Len(ns) >= 1 /\ k \in Nat /\ k >= 2
      /\ Len(d) = k + Len(rest) /\ Len(rest) \in Nat
      /\ \A i \in 1 .. Len(ns) : d[i] = ns[i]
      /\ d[k] = n
      /\ \A i \in 1 .. Len(rest) : d[k + i] = rest[i]
  <2>1. /\ Len(d) = Len(ns) + 1 + Len(rest) /\ Len(rest) \in Nat /\ Len(ns) \in Nat
        /\ \A i \in 1 .. Len(ns) : d[i] = ns[i]
        /\ d[Len(ns) + 1] = n
        /\ \A i \in 1 .. Len(rest) : d[Len(ns) + 1 + i] = rest[i]
    BY PageAndTail
  <2>2. Len(ns) >= 1
    BY <2>1
  <2>. HIDE DEF d
  <2>. QED
    BY <2>1, <2>2
<1>2. \A i \in 4 .. k : d[i] \notin {"merge_requests", "tree"}
  <2>1. /\ Len(Append(ns, n)) = k /\ \A i \in 1 .. k : d[i] = Append(ns, n)[i]
    BY PageAndTail
  <2>2. \A i \in 4 .. Len(Append(ns, n)) : Append(ns, n)[i] \notin {"tree", "merge_requests"}
    BY DEF HasPageName
  <2>. HIDE DEF d
  <2>. QED
    BY <1>1, <2>1, <2>2
<1>3. ~(Len(d) <= 1)
  <2>. HIDE DEF d
  <2>. QED
    BY <1>1
<1>4. ParseGitlab(u) =
        IF inDash("merge_requests") /\ w < Len(d)
        THEN WithGenericURLs(u, "gitlab", SubSeq(d, 1, w - 3), d[w - 2], NoRef, d[w + 1])
        ELSE IF inDash("tree")
        THEN WithGenericURLs(u, "gitlab", SubSeq(d, 1, w - 3), d[w - 2], SubSeq(d, w + 1, Len(d)), "")
        ELSE WithGenericURLs(u, "gitlab", Front(d), Last(d), NoRef, "")
  BY <1>3 DEF ParseGitlab
<1>. HIDE DEF d
<1>5. SubSeq(d, 1, Len(ns)) = ns
  <2>. DEFINE p == SubSeq(d, 1, Len(ns))
  <2>1. /\ d \in Seq(Segments) /\ 1 \in 1 .. Len(d) + 1 /\ Len(ns) \in 0 .. Len(d) /\ 1 <= Len(ns) + 1
    BY <1>0, <1>1
  <2>. HIDE DEF words, w, inDash, k
  <2>2. p \in Seq(Segments) /\ Len(p) = Len(ns) - 1 + 1 /\ \A i \in 1 .. Len(ns) - 1 + 1 : p[i] = d[1 + i - 1]
    BY <2>1, Part
  <2>. HIDE DEF p
  <2>3. ns \in Seq(Segments)
    BY WordsAreSegments
  <2>4. Len(p) = Len(ns) /\ \A i \in 1 .. Len(p) : p[i] = ns[i]
    BY <1>1, <2>2
  <2>5. p = ns
    BY <2>2, <2>3, <2>4, SeqEqual
  <2>. QED
    BY <2>5 DEF p
<1>6. CASE rest = <<>>
  <2>1. Len(rest) = 0 /\ Len(d) = k
    BY <1>1, <1>6
  <2>2. words = {}
    BY <1>1, <1>2, <2>1
  <2>3. ParseGitlab(u) = WithGenericURLs(u, "gitlab", Front(d), Last(d), NoRef, "")
    <3>1. w = 0
      BY <2>2
    <3>. HIDE DEF w
    <3>2. ~inDash("merge_requests") /\ ~inDash("tree")
      BY <3>1
    <3>. HIDE DEF inDash
    <3>. QED
      BY <1>4, <3>2
  <2>4. Front(d) = ns /\ Last(d) = n
    BY <1>1, <1>5, <2>1 DEF Front, Last
  <2>5. ParseGitlab(u) = WithGenericURLs(u, "gitlab", ns, n, NoRef, "")
    BY <2>3, <2>4
  <2>6. Len(rest) # 3 /\ ~(Len(rest) >= 3)
    BY <2>1
  <2>. HIDE DEF w, words, inDash, k
  <2>. QED
    BY <2>5, <2>6
<1>7. CASE Len(rest) >= 3 /\ rest[1] = "-" /\ rest[2] \in {"tree", "merge_requests"}
  <2>1. Len(d) >= k + 3 /\ d[k + 1] = "-" /\ d[k + 2] = rest[2] /\ d[k + 3] = rest[3]
    BY <1>1, <1>7
  <2>2. k + 2 \in words /\ \A i \in words : k + 2 <= i /\ i \in Nat
    <3>1. k + 2 \in words
      BY <1>1, <1>7, <2>1
    <3>2. ASSUME NEW i \in words PROVE k + 2 <= i /\ i \in Nat
      <4>1. i \in 4 .. Len(d) /\ d[i] \in {"merge_requests", "tree"}
        OBVIOUS
      <4>2. ~(i <= k) /\ i # k + 1
        BY <1>1, <1>2, <2>1, <4>1
      <4>. QED
        BY <1>1, <4>1, <4>2
    <3>. QED
      BY <3>1, <3>2
  <2>. HIDE DEF words
  <2>3. w = k + 2
    <3>1. Min(words) = k + 2
      <4>1. \A x \in words : (\A y \in words : x <= y) => x = k + 2
        BY <1>1, <2>2
      <4>. QED
        BY <2>2, <4>1 DEF Min
    <3>. QED
      BY <2>2, <3>1
  <2>. HIDE DEF w
  <2>4. w > 0 /\ d[w] = rest[2] /\ d[w - 1] = "-" /\ w < Len(d) /\ d[w - 2] = n /\ w - 3 = Len(ns) /\ d[w + 1] = rest[3]
    BY <1>1, <2>1, <2>3
  <2>5. CASE rest[2] = "merge_requests"
    <3>1. ParseGitlab(u) = WithGenericURLs(u, "gitlab", ns, n, NoRef, rest[3])
      BY <1>4, <1>5, <2>4, <2>5
    <3>. QED
      BY <2>5, <3>1
  <2>6. CASE rest[2] = "tree"
    <3>. DEFINE branch == SubSeq(d, w + 1, Len(d))
    <3>1. ParseGitlab(u) = WithGenericURLs(u, "gitlab", ns, n, branch, "")
      BY <1>4, <1>5, <2>4, <2>6
    <3>2. ASSUME Len(rest) = 3
          PROVE  branch \in Seq(Segments) /\ Len(branch) = 1 /\ branch[1] = rest[3]
      <4>1. d \in Seq(Segments) /\ w + 1 \in 1 .. Len(d) + 1 /\ Len(d) \in 0 .. Len(d) /\ w + 1 = Len(d)
        BY <1>0, <1>1, <2>3, <3>2
      <4>. DEFINE a == w + 1
                  b == Len(d)
      <4>2. SubSeq(d, b, b) \in Seq(Segments) /\ Len(SubSeq(d, b, b)) = b - b + 1
            /\ \A i \in 1 .. b - b + 1 : SubSeq(d, b, b)[i] = d[b + i - 1]
        BY <4>1, Part
      <4>. HIDE DEF inDash, k
      <4>. QED
        BY <2>4, <4>1, <4>2
    <3>. QED
      BY <2>6, <3>1, <3>2
  <2>. QED
    BY <1>7, <2>5, <2>6
<1>. QED
  BY <1>6, <1>7

LEMMA GenericRead ==
    ASSUME NEW u, u.host = svc.host, NEW ns \in Seq(Names), NEW n \in Names, NEW branch, NEW pr
    PROVE  WithGenericURLs(u, svc.plugin, ns, n, branch, pr) =
               ReadOf(ns, n, branch, pr, Append(ns, n), SshAt(NoPort, Append(ns, n)))
<1>1. Append(ns, n) \in Seq(Segments)
  <2>1. ns \in Seq(Segments) /\ n \in Segments
    BY WordsAreSegments
  <2>. QED
    BY <2>1
<1>2. Https(u.host, Append(ns, n)) = WebLink(Append(ns, n), NoRef)
      /\ Ssh(u.host, NoPort, Append(ns, n)) = SshAt(NoPort, Append(ns, n))
  BY <1>1, LinksOf
<1>. QED
  BY <1>2 DEF WithGenericURLs, Read, ReadOf

\* The pages and addresses of Bitbucket.
LEMMA FourParts ==
    ASSUME NEW a \in Segments, NEW b \in Segments, NEW c \in Segments, NEW d \in Segments
    PROVE  /\ <<a, b, c, d>> \in Seq(Segments) /\ <<a>> \o <<b>> \o <<c, d>> = <<a, b, c, d>>
           /\ <<a, b, c>> \in Seq(Segments) /\ <<a>> \o <<b>> \o <<c>> = <<a, b, c>>
           /\ <<a, b>> \in Seq(Segments) /\ Append(<<a>>, b) = <<a, b>>
<1>. DEFINE f == <<a>> \o <<b>> \o <<c, d>>
            g == <<a, b, c, d>>
            s == <<a>> \o <<b>> \o <<c>>
            t == <<a, b, c>>
            p == Append(<<a>>, b)
            q == <<a, b>>
<1>1. f \in Seq(Segments) /\ Len(f) = 4 /\ f[1] = a /\ f[2] = b /\ f[3] = c /\ f[4] = d
  OBVIOUS
<1>2. g \in Seq(Segments) /\ Len(g) = 4 /\ g[1] = a /\ g[2] = b /\ g[3] = c /\ g[4] = d
  OBVIOUS
<1>3. s \in Seq(Segments) /\ Len(s) = 3 /\ s[1] = a /\ s[2] = b /\ s[3] = c
  OBVIOUS
<1>4. t \in Seq(Segments) /\ Len(t) = 3 /\ t[1] = a /\ t[2] = b /\ t[3] = c
  OBVIOUS
<1>5. p \in Seq(Segments) /\ Len(p) = 2 /\ p[1] = a /\ p[2] = b
  OBVIOUS
<1>6. q \in Seq(Segments) /\ Len(q) = 2 /\ q[1] = a /\ q[2] = b
  OBVIOUS
<1>. HIDE DEF f, g, s, t, p, q
<1>7. (\A i \in 1 .. Len(f) : f[i] = g[i]) /\ (\A i \in 1 .. Len(s) : s[i] = t[i])
      /\ (\A i \in 1 .. Len(p) : p[i] = q[i])
  BY <1>1, <1>2, <1>3, <1>4, <1>5, <1>6
<1>8. f = g
  BY <1>1, <1>2, <1>7, SeqEqual
<1>9. s = t
  BY <1>3, <1>4, <1>7, SeqEqual
<1>10. p = q
  BY <1>5, <1>6, <1>7, SeqEqual
<1>. QED
  BY <1>2, <1>4, <1>6, <1>8, <1>9, <1>10 DEF f, g, s, t, p, q

ReadsProject(u, k, n, branch, pr, port, q) ==
    WithBitbucketURLs(u, <<k>>, n, branch, pr, port, FALSE) =
        ReadOf(<<k>>, n, branch, pr, <<"projects", k, "repos", n>>, SshAt(q, <<k, n>>))

ReadsUser(u, v, n, branch, pr) ==
    WithBitbucketURLs(u, <<"users", v>>, n, branch, pr, NoPort, TRUE) =
        ReadOf(<<"users", v>>, n, branch, pr, <<"users", v, "repos", n>>, SshAt(LinkPort, <<Home[v], n>>))

LEMMA ProjectRead ==
    ASSUME NEW u, u.host = svc.host, svc.plugin = "bitbucket",
           NEW k \in Names, NEW n \in Names, NEW branch, NEW pr, NEW port
    PROVE  ReadsProject(u, k, n, branch, pr, port, IF port = NoPort THEN LinkPort ELSE port)
<1>1. "projects" \in Segments /\ "repos" \in Segments /\ k \in Segments /\ n \in Segments
  BY WordsAreSegments DEF Words
<1>2. /\ <<"projects", k, "repos", n>> \in Seq(Segments) /\ <<k, n>> \in Seq(Segments)
      /\ <<"projects">> \o <<k>> \o <<"repos", n>> = <<"projects", k, "repos", n>>
      /\ Append(<<k>>, n) = <<k, n>>
  BY <1>1, FourParts
<1>3. ~(Len(<<k>>) > 1 /\ <<k>>[1] = "users")
  OBVIOUS
<1>4. WithBitbucketURLs(u, <<k>>, n, branch, pr, port, FALSE) =
          Read(u, "bitbucket", <<k>>, n, branch, pr,
               Https(u.host, <<"projects">> \o <<k>> \o <<"repos", n>>),
               Ssh(u.host, IF port = NoPort THEN LinkPort ELSE port, Append(<<k>>, n)))
  BY <1>3 DEF WithBitbucketURLs
<1>5. /\ Https(svc.host, <<"projects", k, "repos", n>>) = WebLink(<<"projects", k, "repos", n>>, NoRef)
      /\ \A x : Ssh(svc.host, x, <<k, n>>) = SshAt(x, <<k, n>>)
  BY <1>2, LinksOf
<1>. QED
  BY <1>2, <1>4, <1>5 DEF Read, ReadOf, ReadsProject

LEMMA UserRead ==
    ASSUME NEW u, u.host = svc.host, svc.plugin = "bitbucket",
           NEW v \in DOMAIN Home, NEW n \in Names, NEW branch, NEW pr
    PROVE  ReadsUser(u, v, n, branch, pr)
<1>1. "users" \in Segments /\ "repos" \in Segments /\ v \in Segments /\ n \in Segments /\ Home[v] \in Segments
  BY WordsAreSegments, HomeAssumption DEF Words
<1>2. /\ <<"users", v, "repos", n>> \in Seq(Segments) /\ <<Home[v], n>> \in Seq(Segments)
      /\ <<"users">> \o <<v>> \o <<"repos", n>> = <<"users", v, "repos", n>>
      /\ Append(<<Home[v]>>, n) = <<Home[v], n>>
  <2>1. /\ <<"users", v, "repos", n>> \in Seq(Segments)
        /\ <<"users">> \o <<v>> \o <<"repos", n>> = <<"users", v, "repos", n>>
    <3>1. PICK w \in Segments : w = v
      BY <1>1
    <3>2. /\ <<"users", w, "repos", n>> \in Seq(Segments)
          /\ <<"users">> \o <<w>> \o <<"repos", n>> = <<"users", w, "repos", n>>
      <4>1. "users" \in Segments /\ "repos" \in Segments /\ w \in Segments /\ n \in Segments
        BY <1>1
      <4>. QED
        BY <4>1, FourParts
    <3>. QED
      BY <3>1, <3>2
  <2>2. PICK h \in Segments : h = Home[v]
    BY <1>1
  <2>3. <<h, n>> \in Seq(Segments) /\ Append(<<h>>, n) = <<h, n>>
    BY <1>1, FourParts
  <2>. QED
    BY <2>1, <2>2, <2>3
<1>3. Len(<<"users", v>>) > 1 /\ <<"users", v>>[1] = "users" /\ Tail(<<"users", v>>) = <<v>> /\ <<v>>[1] = v
  <2>1. ASSUME NEW a \in Segments, NEW b \in Segments
        PROVE  Len(<<a, b>>) > 1 /\ <<a, b>>[1] = a /\ Tail(<<a, b>>) = <<b>> /\ <<b>>[1] = b
    <3>1. <<a, b>> \in Seq(Segments) /\ Len(<<a, b>>) = 2 /\ <<a, b>>[1] = a /\ <<a, b>>[2] = b /\ <<b>>[1] = b
      OBVIOUS
    <3>2. Tail(<<a, b>>) \in Seq(Segments) /\ Len(Tail(<<a, b>>)) = 1 /\ Tail(<<a, b>>)[1] = b
      OBVIOUS
    <3>. QED
      BY <3>1, <3>2
  <2>. QED
    BY <1>1, <2>1
<1>4. WithBitbucketURLs(u, <<"users", v>>, n, branch, pr, NoPort, TRUE) =
          Read(u, "bitbucket", <<"users", v>>, n, branch, pr,
               Https(u.host, <<"users">> \o <<v>> \o <<"repos", n>>),
               Ssh(u.host, LinkPort, Append(<<Home[v]>>, n)))
  BY <1>3 DEF WithBitbucketURLs
<1>5. /\ Https(svc.host, <<"users", v, "repos", n>>) = WebLink(<<"users", v, "repos", n>>, NoRef)
      /\ Ssh(svc.host, LinkPort, <<Home[v], n>>) = SshAt(LinkPort, <<Home[v], n>>)
  BY <1>2, LinksOf
<1>. QED
  BY <1>2, <1>4, <1>5 DEF Read, ReadOf, ReadsUser

\* A page of Bitbucket and what stands behind it.
LEMMA WebPath ==
    ASSUME NEW a \in Segments, NEW b \in Segments, NEW c \in Segments, NEW d \in Segments, NEW rest \in Seq(Segments)
    PROVE  LET p == <<a, b, c, d>> \o rest
           IN  /\ p \in Seq(Segments) /\ Len(p) = 4 + Len(rest) /\ Len(rest) \in Nat
               /\ p[1] = a /\ p[2] = b /\ p[3] = c /\ p[4] = d
               /\ \A i \in 1 .. Len(rest) : p[4 + i] = rest[i]
<1>. DEFINE page == <<a, b, c, d>>
            p == page \o rest
<1>1. page \in Seq(Segments) /\ Len(page) = 4 /\ page[1] = a /\ page[2] = b /\ page[3] = c /\ page[4] = d
  OBVIOUS
<1>. HIDE DEF page
<1>2. /\ p \in Seq(Segments) /\ Len(p) = Len(page) + Len(rest) /\ Len(rest) \in Nat
      /\ \A i \in 1 .. Len(page) : p[i] = page[i]
      /\ \A i \in 1 .. Len(rest) : p[Len(page) + i] = rest[i]
  BY <1>1, PathConcat
<1>. HIDE DEF p
<1>3. /\ p \in Seq(Segments) /\ Len(p) = 4 + Len(rest) /\ Len(rest) \in Nat
      /\ p[1] = a /\ p[2] = b /\ p[3] = c /\ p[4] = d
      /\ \A i \in 1 .. Len(rest) : p[4 + i] = rest[i]
  BY <1>1, <1>2
<1>. QED
  BY <1>3 DEF p, page

LEMMA BitbucketSshReads ==
    ASSUME NEW u, u.scheme = "ssh", NEW k \in Names, NEW n \in Names, u.path = <<k, n>>
    PROVE  ParseBitbucket(u) = WithBitbucketURLs(u, <<k>>, n, NoRef, "", u.port, FALSE)
<1>1. Len(u.path) = 2 /\ u.path[1] = k /\ u.path[2] = n /\ u.path # <<>>
  OBVIOUS
<1>2. Last(u.path) = n /\ Len(u.path) # 1 /\ ~IsHttp(u)
  BY <1>1 DEF Last, IsHttp
<1>3. ParseBitbucket(u) = ParseBitbucketSsh(u)
  BY <1>1, <1>2 DEF ParseBitbucket
<1>4. ParseBitbucketSsh(u) = WithBitbucketURLs(u, <<u.path[1]>>, Last(u.path), NoRef, "", u.port, FALSE)
  BY <1>2 DEF ParseBitbucketSsh
<1>. QED
  BY <1>1, <1>2, <1>3, <1>4

LEMMA BitbucketScmReads ==
    ASSUME NEW u, u.scheme = "https", NEW k \in Names, NEW n \in Names, u.path = <<"scm", k, n>>
    PROVE  ParseBitbucket(u) = WithBitbucketURLs(u, <<k>>, n, NoRef, "", NoPort, FALSE)
<1>1. "scm" \in Segments /\ k \in Segments /\ n \in Segments
  BY WordsAreSegments DEF Words
<1>2. Len(u.path) = 3 /\ u.path[1] = "scm" /\ u.path[2] = k /\ u.path[3] = n /\ u.path # <<>>
  BY <1>1
<1>3. Last(u.path) = n /\ IsHttp(u)
  BY <1>2 DEF Last, IsHttp
<1>4. ParseBitbucket(u) = ParseBitbucketWeb(u)
  BY <1>2, <1>3 DEF ParseBitbucket
<1>5. Len(u.path) # 2 /\ ~IsUserRepo(u.path) /\ ~IsPullRequest(u.path) /\ ~IsProjectRepo(u.path)
      /\ Len(u.path) > 2
  BY <1>2 DEF IsUserRepo, IsPullRequest, IsProjectRepo
<1>6. ParseBitbucketWeb(u) = WithBitbucketURLs(u, <<u.path[2]>>, Last(u.path), NoRef, "", NoPort, FALSE)
  BY <1>2, <1>5 DEF ParseBitbucketWeb
<1>. QED
  BY <1>2, <1>3, <1>4, <1>6

LEMMA BitbucketProjectReads ==
    ASSUME NEW u, u.scheme = "https", NEW k \in Names, NEW n \in Names, NEW rest \in Seq(Segments),
           u.path = <<"projects", k, "repos", n>> \o rest
    PROVE  \E branch, pr :
              /\ ParseBitbucket(u) = WithBitbucketURLs(u, <<k>>, n, branch, pr, NoPort, FALSE)
              /\ IF Len(rest) >= 2 /\ rest[1] = "pull-requests" THEN pr = rest[2] ELSE branch = u.at
<1>. DEFINE d == u.path
<1>1. "projects" \in Segments /\ "repos" \in Segments /\ k \in Segments /\ n \in Segments
  BY WordsAreSegments DEF Words
<1>2. /\ d \in Seq(Segments) /\ Len(d) = 4 + Len(rest) /\ Len(rest) \in Nat
      /\ d[1] = "projects" /\ d[2] = k /\ d[3] = "repos" /\ d[4] = n
      /\ \A i \in 1 .. Len(rest) : d[4 + i] = rest[i]
  BY <1>1, WebPath
<1>. HIDE DEF d
<1>3. d # <<>> /\ Len(d) # 2 /\ ~IsUserRepo(d) /\ Len(d) > 3 /\ IsHttp(u) /\ IsProjectRepo(d)
  BY <1>2 DEF IsUserRepo, IsProjectRepo, IsHttp
<1>4. ParseBitbucket(u) = ParseBitbucketWeb(u)
  BY <1>3 DEF ParseBitbucket, d
<1>5. CASE Len(rest) >= 2 /\ rest[1] = "pull-requests"
  <2>1. d[5] = rest[1] /\ d[6] = rest[2] /\ Len(d) > 5
    BY <1>2, <1>5
  <2>2. IsPullRequest(d)
    BY <1>2, <1>5, <2>1 DEF IsPullRequest
  <2>3. ParseBitbucketWeb(u) = WithBitbucketURLs(u, <<d[2]>>, d[4], NoRef, d[6], NoPort, FALSE)
    BY <1>2, <1>3, <2>2 DEF ParseBitbucketWeb, d
  <2>4. ParseBitbucket(u) = WithBitbucketURLs(u, <<k>>, n, NoRef, rest[2], NoPort, FALSE)
    BY <1>2, <1>4, <2>1, <2>3
  <2>. QED
    BY <1>5, <2>4
<1>6. CASE ~(Len(rest) >= 2 /\ rest[1] = "pull-requests")
  <2>1. ~IsPullRequest(d)
    <3>1. Len(rest) >= 1 => d[5] = rest[1]
      BY <1>2
    <3>. QED
      BY <1>2, <1>6, <3>1 DEF IsPullRequest
  <2>2. ParseBitbucketWeb(u) = WithBitbucketURLs(u, <<d[2]>>, d[4], u.at, "", NoPort, FALSE)
    BY <1>2, <1>3, <2>1 DEF ParseBitbucketWeb, d
  <2>3. ParseBitbucket(u) = WithBitbucketURLs(u, <<k>>, n, u.at, "", NoPort, FALSE)
    BY <1>2, <1>4, <2>2
  <2>. QED
    BY <1>6, <2>3
<1>. QED
  BY <1>5, <1>6

LEMMA BitbucketUserReads ==
    ASSUME NEW u, u.scheme = "https", NEW v \in Names, NEW n \in Names, NEW rest \in Seq(Segments),
           u.path = <<"users", v, "repos", n>> \o rest
    PROVE  ParseBitbucket(u) = WithBitbucketURLs(u, <<"users", v>>, n, u.at, "", NoPort, TRUE)
<1>. DEFINE d == u.path
<1>1. "users" \in Segments /\ "repos" \in Segments /\ v \in Segments /\ n \in Segments
  BY WordsAreSegments DEF Words
<1>2. /\ Len(d) = 4 + Len(rest) /\ Len(rest) \in Nat
      /\ d[1] = "users" /\ d[2] = v /\ d[3] = "repos" /\ d[4] = n
  BY <1>1, WebPath
<1>3. d # <<>>
  <2>1. d \in Seq(Segments)
    BY <1>1, WebPath
  <2>. HIDE DEF d
  <2>. QED
    BY <1>2, <2>1
<1>. HIDE DEF d
<1>4. Len(d) # 2 /\ IsUserRepo(d) /\ Len(d) > 3 /\ IsHttp(u) /\ ~IsProjectRepo(d) /\ ~IsPullRequest(d)
  BY <1>2 DEF IsUserRepo, IsProjectRepo, IsPullRequest, IsHttp
<1>5. ParseBitbucket(u) = ParseBitbucketWeb(u)
  BY <1>3, <1>4 DEF ParseBitbucket, d
<1>6. ParseBitbucketWeb(u) = WithBitbucketURLs(u, <<d[1], d[2]>>, d[4], u.at, "", NoPort, TRUE)
  BY <1>2, <1>4 DEF ParseBitbucketWeb, d
<1>. QED
  BY <1>2, <1>5, <1>6

-----------------------------------------------------------------------------
(***************************************************************************)
(* What is known of a repository once one of its links was read.           *)
(***************************************************************************)
\* The page of a repository on its service.
ProjectPage(r) ==
    IF svc.plugin = "bitbucket" THEN <<"projects", r.ns[1], "repos", r.slug>> ELSE Append(r.ns, r.slug)

Knows(a, r) ==
    \E branch, pr, port :
        \/ a = ReadOf(r.ns, r.slug, branch, pr, ProjectPage(r), SshAt(port, Append(r.ns, r.slug)))
        \/ /\ svc.plugin = "bitbucket"
           /\ \E u \in DOMAIN Home :
                 /\ r.ns = <<Home[u]>>
                 /\ a = ReadOf(<<"users", u>>, r.slug, branch, pr, <<"users", u, "repos", r.slug>>,
                               SshAt(port, Append(r.ns, r.slug)))

\* What a link to the repository, a branch or a pull request has to be read as.
Answers(a, what, r) ==
    /\ Knows(a, r)
    /\ what = "branch" => IsSuffix(Branch, a.branch)
    /\ what = "pr" /\ a.ns[1] # "users" => a.pr = PrId

LEMMA GithubLink ==
    ASSUME ServiceOK, svc.plugin = "github", NEW r \in Universe(svc), NEW link, link.host = svc.host, NEW what,
           NEW rest \in Seq(Segments), link.path = Append(r.ns, r.slug) \o rest,
           what = "branch" => Len(rest) = 2 /\ rest[1] = "tree" /\ rest[2] = "feature",
           what = "pr" => Len(rest) >= 2 /\ rest[1] = "pull" /\ rest[2] = PrId
    PROVE  Answers(ParseAs(link, svc.plugin), what, r)
<1>1. r.ns \in Seq(Names) /\ r.slug \in Names
  BY UniverseFacts
<1>2. Len(r.ns) = 1
  <2>1. r.ns \in DOMAIN svc.repos
    BY UniverseFacts
  <2>. QED
    BY <2>1, ServiceFacts DEF Shape
<1>3. PICK branch, pr :
        /\ ParseGithub(link) = WithGenericURLs(link, "github", r.ns, r.slug, branch, pr)
        /\ Len(rest) = 2 /\ rest[1] = "tree" =>
              branch \in Seq(Segments) /\ Len(branch) = 1 /\ branch[1] = rest[2]
        /\ Len(rest) >= 2 /\ rest[1] = "pull" => pr = rest[2]
  BY <1>1, <1>2, GithubReads
<1>. DEFINE a == ParseAs(link, svc.plugin)
<1>4. a = WithGenericURLs(link, svc.plugin, r.ns, r.slug, branch, pr)
  BY <1>3 DEF ParseAs
<1>. HIDE DEF a
<1>5. a = ReadOf(r.ns, r.slug, branch, pr, Append(r.ns, r.slug), SshAt(NoPort, Append(r.ns, r.slug)))
  BY <1>1, <1>4, GenericRead
<1>6. Knows(a, r)
  BY <1>5 DEF Knows, ProjectPage
<1>7. a.branch = branch /\ a.pr = pr
  BY <1>5 DEF ReadOf
<1>8. ASSUME what = "branch"
      PROVE  IsSuffix(Branch, a.branch)
  <2>1. branch \in Seq(Segments) /\ Len(branch) = 1 /\ branch[1] = "feature"
    BY <1>3, <1>8
  <2>2. Len(branch) > 0 /\ branch[Len(branch)] = "feature"
    BY <2>1
  <2>3. IsSuffix(Branch, branch)
    BY <2>1, <2>2, EndsInBranch
  <2>. QED
    BY <1>7, <2>3
<1>9. what = "pr" => a.pr = PrId
  BY <1>3, <1>7
<1>. QED
  BY <1>6, <1>8, <1>9 DEF Answers, a

LEMMA GitlabLink ==
    ASSUME ServiceOK, svc.plugin = "gitlab", NEW r \in Universe(svc), NEW link, link.host = svc.host, NEW what,
           ~HasPageName(Append(r.ns, r.slug)),
           NEW rest \in Seq(Segments), link.path = Append(r.ns, r.slug) \o rest,
           rest = <<>> \/ (Len(rest) >= 3 /\ rest[1] = "-" /\ rest[2] \in {"tree", "merge_requests"}),
           what = "branch" => Len(rest) = 3 /\ rest[2] = "tree" /\ rest[3] = "feature",
           what = "pr" => Len(rest) >= 3 /\ rest[2] = "merge_requests" /\ rest[3] = PrId
    PROVE  Answers(ParseAs(link, svc.plugin), what, r)
<1>1. r.ns \in Seq(Names) /\ r.slug \in Names /\ r.ns # <<>>
  BY UniverseFacts
<1>3. PICK branch, pr :
        /\ ParseGitlab(link) = WithGenericURLs(link, "gitlab", r.ns, r.slug, branch, pr)
        /\ Len(rest) = 3 /\ rest[2] = "tree" =>
              branch \in Seq(Segments) /\ Len(branch) = 1 /\ branch[1] = rest[3]
        /\ Len(rest) >= 3 /\ rest[2] = "merge_requests" => pr = rest[3]
  BY <1>1, GitlabReads
<1>. DEFINE a == ParseAs(link, svc.plugin)
<1>4. a = WithGenericURLs(link, svc.plugin, r.ns, r.slug, branch, pr)
  BY <1>3 DEF ParseAs
<1>. HIDE DEF a
<1>5. a = ReadOf(r.ns, r.slug, branch, pr, Append(r.ns, r.slug), SshAt(NoPort, Append(r.ns, r.slug)))
  BY <1>1, <1>4, GenericRead
<1>6. Knows(a, r)
  BY <1>5 DEF Knows, ProjectPage
<1>7. a.branch = branch /\ a.pr = pr
  BY <1>5 DEF ReadOf
<1>8. ASSUME what = "branch"
      PROVE  IsSuffix(Branch, a.branch)
  <2>1. branch \in Seq(Segments) /\ Len(branch) = 1 /\ branch[1] = "feature"
    BY <1>3, <1>8
  <2>2. Len(branch) > 0 /\ branch[Len(branch)] = "feature"
    BY <2>1
  <2>3. IsSuffix(Branch, branch)
    BY <2>1, <2>2, EndsInBranch
  <2>. QED
    BY <1>7, <2>3
<1>9. what = "pr" => a.pr = PrId
  BY <1>3, <1>7
<1>. QED
  BY <1>6, <1>8, <1>9 DEF Answers, a

\* The key of the project of a repository of Bitbucket.
LEMMA BitbucketKey ==
    ASSUME ServiceOK, svc.plugin = "bitbucket", NEW r \in Universe(svc)
    PROVE  \E k \in Names : r.ns = <<k>> /\ r.ns[1] = k /\ Append(r.ns, r.slug) = <<k, r.slug>> /\ r.slug \in Names
<1>1. r.ns \in Seq(Names) /\ r.slug \in Names /\ r.ns \in DOMAIN svc.repos
  BY UniverseFacts
<1>2. Len(r.ns) = 1
  BY <1>1, ServiceFacts DEF Shape
<1>3. r.ns[1] \in Names /\ r.ns = <<r.ns[1]>>
  BY <1>1, <1>2
<1>4. PICK k \in Names : k = r.ns[1]
  BY <1>3
<1>5. PICK n \in Names : n = r.slug
  BY <1>1
<1>6. Append(<<k>>, n) = <<k, n>>
  <2>1. k \in Segments /\ n \in Segments
    BY WordsAreSegments
  <2>. QED
    BY <2>1, FourParts
<1>. QED
  BY <1>1, <1>3, <1>4, <1>5, <1>6

LEMMA ProjectLink ==
    ASSUME ServiceOK, svc.plugin = "bitbucket", NEW r \in Universe(svc), NEW link, link.host = svc.host, NEW what,
           link.scheme = "https",
           NEW rest \in Seq(Segments), link.path = <<"projects", r.ns[1], "repos", r.slug>> \o rest,
           what = "branch" =>
              /\ ~(Len(rest) >= 2 /\ rest[1] = "pull-requests")
              /\ link.at \in Seq(Segments) /\ Len(link.at) > 0 /\ link.at[Len(link.at)] = "feature",
           what = "pr" => Len(rest) >= 2 /\ rest[1] = "pull-requests" /\ rest[2] = PrId
    PROVE  Answers(ParseAs(link, svc.plugin), what, r)
<1>1. PICK k \in Names : r.ns = <<k>> /\ r.ns[1] = k /\ Append(r.ns, r.slug) = <<k, r.slug>> /\ r.slug \in Names
  BY BitbucketKey
<1>2. PICK n \in Names : n = r.slug
  BY <1>1
<1>3. PICK branch, pr :
         /\ ParseBitbucket(link) = WithBitbucketURLs(link, <<k>>, n, branch, pr, NoPort, FALSE)
         /\ IF Len(rest) >= 2 /\ rest[1] = "pull-requests" THEN pr = rest[2] ELSE branch = link.at
  <2>1. link.path = <<"projects", k, "repos", n>> \o rest
    BY <1>1, <1>2
  <2>. QED
    BY <2>1, BitbucketProjectReads
<1>. DEFINE a == ParseAs(link, svc.plugin)
<1>4. a = WithBitbucketURLs(link, <<k>>, n, branch, pr, NoPort, FALSE)
  BY <1>3 DEF ParseAs
<1>. HIDE DEF a
<1>5. a = ReadOf(<<k>>, n, branch, pr, <<"projects", k, "repos", n>>, SshAt(LinkPort, <<k, n>>))
  <2>1. WithBitbucketURLs(link, <<k>>, n, branch, pr, NoPort, FALSE)
          = ReadOf(<<k>>, n, branch, pr, <<"projects", k, "repos", n>>,
                   SshAt(IF NoPort = NoPort THEN LinkPort ELSE NoPort, <<k, n>>))
    <3>1. ReadsProject(link, k, n, branch, pr, NoPort, IF NoPort = NoPort THEN LinkPort ELSE NoPort)
      BY ProjectRead
    <3>. QED
      BY <3>1 DEF ReadsProject
  <2>. QED
    BY <1>4, <2>1
<1>6. Knows(a, r)
  BY <1>1, <1>2, <1>5 DEF Knows, ProjectPage
<1>7. a.branch = branch /\ a.pr = pr
  BY <1>5 DEF ReadOf
<1>8. what = "branch" => IsSuffix(Branch, a.branch)
  BY <1>3, <1>7, EndsInBranch
<1>9. what = "pr" => a.pr = PrId
  BY <1>3, <1>7
<1>. QED
  BY <1>6, <1>8, <1>9 DEF Answers, a

LEMMA UserLink ==
    ASSUME ServiceOK, svc.plugin = "bitbucket", NEW r \in Universe(svc), NEW link, link.host = svc.host, NEW what,
           link.scheme = "https", NEW v \in DOMAIN Home, r.ns = <<Home[v]>>,
           NEW rest \in Seq(Segments), link.path = <<"users", v, "repos", r.slug>> \o rest,
           what = "branch" =>
              link.at \in Seq(Segments) /\ Len(link.at) > 0 /\ link.at[Len(link.at)] = "feature"
    PROVE  Answers(ParseAs(link, svc.plugin), what, r)
<1>1. PICK k \in Names : r.ns = <<k>> /\ r.ns[1] = k /\ Append(r.ns, r.slug) = <<k, r.slug>> /\ r.slug \in Names
  BY BitbucketKey
<1>2. k = Home[v] /\ v \in Names
  <2>1. <<Home[v]>>[1] = Home[v]
    OBVIOUS
  <2>. QED
    BY <1>1, <2>1, HomeAssumption
<1>3. ParseBitbucket(link) = WithBitbucketURLs(link, <<"users", v>>, r.slug, link.at, "", NoPort, TRUE)
  <2>1. PICK n \in Names : n = r.slug
    BY <1>1
  <2>2. PICK w \in Names : w = v
    BY <1>2
  <2>3. link.path = <<"users", w, "repos", n>> \o rest
    BY <2>1, <2>2
  <2>4. ParseBitbucket(link) = WithBitbucketURLs(link, <<"users", w>>, n, link.at, "", NoPort, TRUE)
    BY <2>3, BitbucketUserReads
  <2>. QED
    BY <2>1, <2>2, <2>4
<1>. DEFINE a == ParseAs(link, svc.plugin)
<1>4. a = WithBitbucketURLs(link, <<"users", v>>, r.slug, link.at, "", NoPort, TRUE)
  BY <1>3 DEF ParseAs
<1>. HIDE DEF a
<1>5. a = ReadOf(<<"users", v>>, r.slug, link.at, "", <<"users", v, "repos", r.slug>>, SshAt(LinkPort, <<Home[v], r.slug>>))
  <2>1. PICK n \in Names : n = r.slug
    BY <1>1
  <2>2. WithBitbucketURLs(link, <<"users", v>>, n, link.at, "", NoPort, TRUE)
          = ReadOf(<<"users", v>>, n, link.at, "", <<"users", v, "repos", n>>, SshAt(LinkPort, <<Home[v], n>>))
    <3>1. ReadsUser(link, v, n, link.at, "")
      BY UserRead
    <3>. QED
      BY <3>1 DEF ReadsUser
  <2>. QED
    BY <1>4, <2>1, <2>2
<1>6. Knows(a, r)
  <2>1. SshAt(LinkPort, <<Home[v], r.slug>>) = SshAt(LinkPort, Append(r.ns, r.slug))
    BY <1>1, <1>2
  <2>. QED
    BY <1>5, <2>1 DEF Knows
<1>7. a.branch = link.at /\ a.ns = <<"users", v>>
  BY <1>5 DEF ReadOf
<1>8. what = "branch" => IsSuffix(Branch, a.branch)
  BY <1>7, EndsInBranch
<1>9. a.ns[1] = "users"
  BY <1>7
<1>. QED
  BY <1>6, <1>8, <1>9 DEF Answers, a

LEMMA BitbucketAddress ==
    ASSUME ServiceOK, svc.plugin = "bitbucket", NEW r \in Universe(svc), NEW link, link.host = svc.host,
           \/ link.scheme = "ssh" /\ link.path = Append(r.ns, r.slug)
           \/ link.scheme = "https" /\ link.path = <<"scm">> \o r.ns \o <<r.slug>>
    PROVE  Answers(ParseAs(link, svc.plugin), "repo", r)
<1>1. PICK k \in Names : r.ns = <<k>> /\ r.ns[1] = k /\ Append(r.ns, r.slug) = <<k, r.slug>> /\ r.slug \in Names
  BY BitbucketKey
<1>2. PICK n \in Names : n = r.slug
  BY <1>1
<1>3. \E port : ParseBitbucket(link) = WithBitbucketURLs(link, <<k>>, n, NoRef, "", port, FALSE)
  <2>1. CASE link.scheme = "ssh" /\ link.path = Append(r.ns, r.slug)
    <3>1. link.path = <<k, n>>
      BY <1>1, <1>2, <2>1
    <3>. QED
      BY <2>1, <3>1, BitbucketSshReads
  <2>2. CASE link.scheme = "https" /\ link.path = <<"scm">> \o r.ns \o <<r.slug>>
    <3>1. <<"scm">> \o <<k>> \o <<n>> = <<"scm", k, n>>
      <4>1. "scm" \in Segments /\ k \in Segments /\ n \in Segments
        BY WordsAreSegments DEF Words
      <4>. QED
        BY <4>1, FourParts
    <3>2. link.path = <<"scm", k, n>>
      BY <1>1, <1>2, <2>2, <3>1
    <3>. QED
      BY <2>2, <3>2, BitbucketScmReads
  <2>. QED
    BY <2>1, <2>2
<1>4. PICK port : ParseBitbucket(link) = WithBitbucketURLs(link, <<k>>, n, NoRef, "", port, FALSE)
  BY <1>3
<1>. DEFINE a == ParseAs(link, svc.plugin)
            q == IF port = NoPort THEN LinkPort ELSE port
<1>5. a = WithBitbucketURLs(link, <<k>>, n, NoRef, "", port, FALSE)
  BY <1>4 DEF ParseAs
<1>. HIDE DEF a
<1>6. a = ReadOf(<<k>>, n, NoRef, "", <<"projects", k, "repos", n>>, SshAt(q, <<k, n>>))
  <2>1. WithBitbucketURLs(link, <<k>>, n, NoRef, "", port, FALSE)
          = ReadOf(<<k>>, n, NoRef, "", <<"projects", k, "repos", n>>, SshAt(q, <<k, n>>))
    <3>1. ReadsProject(link, k, n, NoRef, "", port, q)
      BY ProjectRead
    <3>. QED
      BY <3>1 DEF ReadsProject
  <2>. QED
    BY <1>5, <2>1
<1>. HIDE DEF q
<1>7. Knows(a, r)
  BY <1>1, <1>2, <1>6 DEF Knows, ProjectPage
<1>. QED
  BY <1>7 DEF Answers, a

-----------------------------------------------------------------------------
(***************************************************************************)
(* The links of a report to one page.                                      *)
(***************************************************************************)
\* What a link of the report leads to.
LinkedFrom(a, link, what) ==
    \/ what = "repo" /\ link = a.http
    \/ what = "repo" /\ link = a.ssh
    \/ what = "branch" /\ link = BranchURL(a, Branch)
    \/ what = "pr" /\ link = PRURL([a EXCEPT !.pr = PrId])
    \/ what = "pr" /\ link = PRDiffLink([a EXCEPT !.pr = PrId])
    \/ what = "repo" /\ svc.plugin # "gitlab" /\ link = FilePermalink(a, Sha, File)
    \/ what = "repo" /\ svc.plugin # "gitlab" /\ link = CommitURL(a, Sha)

\* What stands behind the page in the links of a pull request and a commit.
LEMMA MoreTails ==
    /\ LET t == <<"pull", PrId>>
       IN  t \in Seq(Segments) /\ Len(t) = 2 /\ t[1] = "pull" /\ t[2] = PrId
    /\ LET t == <<"pull-requests", PrId>>
       IN  t \in Seq(Segments) /\ Len(t) = 2 /\ t[1] = "pull-requests" /\ t[2] = PrId
    /\ LET t == <<"-", "merge_requests", PrId>>
       IN  t \in Seq(Segments) /\ Len(t) = 3 /\ t[1] = "-" /\ t[2] = "merge_requests" /\ t[3] = PrId
    /\ LET t == <<"commit", Sha>> IN t \in Seq(Segments) /\ Len(t) = 2 /\ t[1] = "commit"
    /\ LET t == <<"commits", Sha>> IN t \in Seq(Segments) /\ Len(t) = 2 /\ t[1] = "commits"
    /\ LET t == <<"browse">> IN t \in Seq(Segments) /\ Len(t) = 1 /\ t[1] = "browse"
<1>0. Words \subseteq Segments
  BY WordsAreSegments
<1>1. ASSUME NEW a \in Segments, NEW b \in Segments
      PROVE  LET t == <<a, b>> IN t \in Seq(Segments) /\ Len(t) = 2 /\ t[1] = a /\ t[2] = b
  OBVIOUS
<1>2. ASSUME NEW a \in Segments, NEW b \in Segments, NEW c \in Segments
      PROVE  LET t == <<a, b, c>> IN t \in Seq(Segments) /\ Len(t) = 3 /\ t[1] = a /\ t[2] = b /\ t[3] = c
  OBVIOUS
<1>3. ASSUME NEW a \in Segments
      PROVE  LET t == <<a>> IN t \in Seq(Segments) /\ Len(t) = 1 /\ t[1] = a
  OBVIOUS
<1>4. "pull" \in Segments /\ "pull-requests" \in Segments /\ "-" \in Segments /\ "merge_requests" \in Segments
      /\ "5" \in Segments /\ "commit" \in Segments /\ "commits" \in Segments /\ "sha" \in Segments
      /\ "browse" \in Segments
  BY <1>0 DEF Words
<1>5. LET t == <<"pull", "5">> IN t \in Seq(Segments) /\ Len(t) = 2 /\ t[1] = "pull" /\ t[2] = "5"
  BY <1>1, <1>4
<1>6. LET t == <<"pull-requests", "5">>
      IN  t \in Seq(Segments) /\ Len(t) = 2 /\ t[1] = "pull-requests" /\ t[2] = "5"
  BY <1>1, <1>4
<1>7. LET t == <<"-", "merge_requests", "5">>
      IN  t \in Seq(Segments) /\ Len(t) = 3 /\ t[1] = "-" /\ t[2] = "merge_requests" /\ t[3] = "5"
  BY <1>2, <1>4
<1>8. LET t == <<"commit", "sha">> IN t \in Seq(Segments) /\ Len(t) = 2 /\ t[1] = "commit"
  BY <1>1, <1>4
<1>9. LET t == <<"commits", "sha">> IN t \in Seq(Segments) /\ Len(t) = 2 /\ t[1] = "commits"
  BY <1>1, <1>4
<1>10. LET t == <<"browse">> IN t \in Seq(Segments) /\ Len(t) = 1 /\ t[1] = "browse"
  BY <1>3, <1>4
<1>. QED
  BY <1>5, <1>6, <1>7, <1>8, <1>9, <1>10 DEF PrId, Sha

LEMMA WebLinkParts ==
    ASSUME ServiceOK, NEW path, NEW ref
    PROVE  /\ WebLink(path, ref).path = path /\ WebLink(path, ref).at = ref
           /\ WebLink(path, ref).host = svc.host /\ WebLink(path, ref).scheme = "https"
           /\ WebLink(path, ref) # NoLink
           /\ \A y : [WebLink(path, ref) EXCEPT !.path = y] = WebLink(y, ref)
           /\ \A x : [WebLink(path, ref) EXCEPT !.at = x] = WebLink(path, x)
<1>1. svc.host # ""
  BY ServiceFacts DEF ServiceType, Names
<1>2. NoLink.host = "" /\ WebLink(path, ref).host = svc.host
  BY DEF NoLink, Https, Address, WebLink
<1>3. WebLink(path, ref) # NoLink
  BY <1>1, <1>2
<1>4. /\ WebLink(path, ref).path = path /\ WebLink(path, ref).at = ref
      /\ WebLink(path, ref).scheme = "https"
  BY DEF WebLink
<1>5. \A y : [WebLink(path, ref) EXCEPT !.path = y] = WebLink(y, ref)
  BY DEF WebLink
<1>7. \A x : [WebLink(path, ref) EXCEPT !.at = x] = WebLink(path, x)
  BY DEF WebLink
<1>. QED
  BY <1>2, <1>3, <1>4, <1>5, <1>7

\* Segments put behind a page one after the other, or at once.
LEMMA AppendBehind ==
    ASSUME NEW page \in Seq(Segments), NEW t \in Seq(Segments), NEW x \in Segments
    PROVE  /\ Append(page \o t, x) = page \o Append(t, x)
           /\ Append(t, x) \in Seq(Segments) /\ Len(Append(t, x)) = Len(t) + 1 /\ Len(t) \in Nat
           /\ \A i \in 1 .. Len(t) : Append(t, x)[i] = t[i]
<1>. DEFINE s == page \o t
            e == Append(t, x)
            l == Append(s, x)
            r == page \o e
<1>1. /\ s \in Seq(Segments) /\ Len(s) = Len(page) + Len(t) /\ Len(page) \in Nat /\ Len(t) \in Nat
      /\ \A i \in 1 .. Len(page) : s[i] = page[i]
      /\ \A i \in 1 .. Len(t) : s[Len(page) + i] = t[i]
  BY PathConcat
<1>2. /\ e \in Seq(Segments) /\ Len(e) = Len(t) + 1 /\ e[Len(t) + 1] = x
      /\ \A i \in 1 .. Len(t) : e[i] = t[i]
  OBVIOUS
<1>. HIDE DEF s, e
<1>3. /\ l \in Seq(Segments) /\ Len(l) = Len(s) + 1 /\ l[Len(s) + 1] = x
      /\ \A i \in 1 .. Len(s) : l[i] = s[i]
  <2>1. ASSUME NEW z \in Seq(Segments)
        PROVE  /\ Append(z, x) \in Seq(Segments) /\ Len(Append(z, x)) = Len(z) + 1 /\ Append(z, x)[Len(z) + 1] = x
               /\ \A i \in 1 .. Len(z) : Append(z, x)[i] = z[i]
    OBVIOUS
  <2>2. s \in Seq(Segments)
    BY <1>1
  <2>. QED
    BY <2>1, <2>2
<1>4. /\ r \in Seq(Segments) /\ Len(r) = Len(page) + Len(e)
      /\ \A i \in 1 .. Len(page) : r[i] = page[i]
      /\ \A i \in 1 .. Len(e) : r[Len(page) + i] = e[i]
  BY <1>2, PathConcat
<1>. HIDE DEF l, r
<1>5. Len(l) = Len(r)
  BY <1>1, <1>2, <1>3, <1>4
<1>6. \A i \in 1 .. Len(l) : l[i] = r[i]
  <2>. SUFFICES ASSUME NEW i \in 1 .. Len(l) PROVE l[i] = r[i]
    OBVIOUS
  <2>1. CASE i \in 1 .. Len(page)
    BY <2>1, <1>1, <1>3, <1>4
  <2>2. CASE i \in Len(page) + 1 .. Len(page) + Len(t)
    <3>. DEFINE j == i - Len(page)
    <3>1. j \in 1 .. Len(t) /\ i = Len(page) + j /\ j \in 1 .. Len(e)
      BY <2>2, <1>1, <1>2
    <3>. HIDE DEF j
    <3>2. s[i] = t[j] /\ r[i] = e[j] /\ e[j] = t[j]
      BY <3>1, <1>1, <1>2, <1>4
    <3>3. l[i] = s[i]
      BY <2>2, <1>1, <1>3
    <3>. QED
      BY <3>2, <3>3
  <2>3. CASE i = Len(page) + Len(t) + 1
    <3>1. l[i] = x
      BY <2>3, <1>1, <1>3
    <3>2. r[Len(page) + (Len(t) + 1)] = e[Len(t) + 1]
      BY <1>1, <1>2, <1>4
    <3>. QED
      BY <2>3, <3>1, <3>2, <1>1, <1>2
  <2>. QED
    BY <2>1, <2>2, <2>3, <1>1, <1>3
<1>7. l = r
  BY <1>3, <1>4, <1>5, <1>6, SeqEqual
<1>. QED
  BY <1>1, <1>2, <1>7 DEF l, r, s, e

\* The links the report builds from what is known of a page.
LEMMA ReportLinks ==
    ASSUME ServiceOK, NEW a, NEW page, a.type = svc.plugin, a.http = WebLink(page, NoRef)
    PROVE  /\ svc.plugin = "github" =>
                /\ BranchURL(a, Branch) = WebLink(page \o (<<"tree">> \o Branch), NoRef)
                /\ FilePermalink(a, Sha, File) = WebLink(page \o (<<"blob", Sha>> \o File), NoRef)
                /\ CommitURL(a, Sha) = WebLink(page \o <<"commit", Sha>>, NoRef)
           /\ svc.plugin = "gitlab" =>
                BranchURL(a, Branch) = WebLink(page \o (<<"-", "tree">> \o Branch), NoRef)
           /\ svc.plugin = "bitbucket" =>
                /\ BranchURL(a, Branch) = WebLink(page \o <<"browse">>, <<"refs", "heads">> \o Branch)
                /\ FilePermalink(a, Sha, File) = WebLink(page \o (<<"browse">> \o File), <<Sha>>)
                /\ CommitURL(a, Sha) = WebLink(page \o <<"commits", Sha>>, NoRef)
<1>1. a.http # NoLink
  BY WebLinkParts
<1>2. \A t : Below(a, t) = WebLink(page \o t, NoRef)
  <2>1. a.http.path = page /\ \A y : [a.http EXCEPT !.path = y] = WebLink(y, NoRef)
    BY WebLinkParts
  <2>2. \A t : Below(a, t) = [a.http EXCEPT !.path = page \o t]
    BY <2>1 DEF Below
  <2>. QED
    BY <2>1, <2>2
<1>3. Branch # NoRef /\ Sha # "" /\ File # <<>>
  BY DEF Branch, NoRef, Sha, File
<1>4. ASSUME svc.plugin = "github"
      PROVE  /\ BranchURL(a, Branch) = WebLink(page \o (<<"tree">> \o Branch), NoRef)
             /\ FilePermalink(a, Sha, File) = WebLink(page \o (<<"blob", Sha>> \o File), NoRef)
             /\ CommitURL(a, Sha) = WebLink(page \o <<"commit", Sha>>, NoRef)
  <2>1. BranchURL(a, Branch) = Below(a, <<"tree">> \o Branch)
    BY <1>1, <1>3, <1>4 DEF BranchURL
  <2>2. FilePermalink(a, Sha, File) = Below(a, <<"blob", Sha>> \o File)
    BY <1>1, <1>3, <1>4 DEF FilePermalink
  <2>3. CommitURL(a, Sha) = Below(a, <<"commit", Sha>>)
    BY <1>1, <1>3, <1>4 DEF CommitURL
  <2>. QED
    BY <1>2, <2>1, <2>2, <2>3
<1>5. ASSUME svc.plugin = "gitlab"
      PROVE  BranchURL(a, Branch) = WebLink(page \o (<<"-", "tree">> \o Branch), NoRef)
  <2>1. BranchURL(a, Branch) = Below(a, <<"-", "tree">> \o Branch)
    BY <1>1, <1>3, <1>5 DEF BranchURL
  <2>. QED
    BY <1>2, <2>1
<1>6. ASSUME svc.plugin = "bitbucket"
      PROVE  /\ BranchURL(a, Branch) = WebLink(page \o <<"browse">>, <<"refs", "heads">> \o Branch)
             /\ FilePermalink(a, Sha, File) = WebLink(page \o (<<"browse">> \o File), <<Sha>>)
             /\ CommitURL(a, Sha) = WebLink(page \o <<"commits", Sha>>, NoRef)
  <2>1. BranchURL(a, Branch) = [Below(a, <<"browse">>) EXCEPT !.at = <<"refs", "heads">> \o Branch]
    BY <1>1, <1>3, <1>6 DEF BranchURL
  <2>2. FilePermalink(a, Sha, File) = [Below(a, <<"browse">> \o File) EXCEPT !.at = <<Sha>>]
    BY <1>1, <1>3, <1>6 DEF FilePermalink
  <2>3. CommitURL(a, Sha) = Below(a, <<"commits", Sha>>)
    BY <1>1, <1>3, <1>6 DEF CommitURL
  <2>4. \A t, x : [WebLink(t, NoRef) EXCEPT !.at = x] = WebLink(t, x)
    BY WebLinkParts
  <2>. QED
    BY <1>2, <2>1, <2>2, <2>3, <2>4
<1>. QED
  BY <1>4, <1>5, <1>6

LEMMA RequestLinks ==
    ASSUME ServiceOK, NEW a, NEW page \in Seq(Segments),
           a.type = svc.plugin, a.http = WebLink(page, NoRef), a.pr = PrId
    PROVE  /\ svc.plugin = "github" =>
                /\ PRURL(a) = WebLink(page \o <<"pull", PrId>>, NoRef)
                /\ PRDiffLink(a) = WebLink(page \o Append(<<"pull", PrId>>, "files"), NoRef)
           /\ svc.plugin = "gitlab" =>
                /\ PRURL(a) = WebLink(page \o <<"-", "merge_requests", PrId>>, NoRef)
                /\ PRDiffLink(a) = WebLink(page \o Append(<<"-", "merge_requests", PrId>>, "diffs"), NoRef)
           /\ svc.plugin = "bitbucket" =>
                /\ PRURL(a) = WebLink(page \o <<"pull-requests", PrId>>, NoRef)
                /\ PRDiffLink(a) = WebLink(page \o Append(<<"pull-requests", PrId>>, "diff"), NoRef)
<1>1. a.http # NoLink /\ a.pr # ""
  BY WebLinkParts DEF PrId
<1>2. \A t : Below(a, t) = WebLink(page \o t, NoRef)
  <2>1. a.http.path = page /\ \A y : [a.http EXCEPT !.path = y] = WebLink(y, NoRef)
    BY WebLinkParts
  <2>2. \A t : Below(a, t) = [a.http EXCEPT !.path = page \o t]
    BY <2>1 DEF Below
  <2>. QED
    BY <2>1, <2>2
<1>3. ASSUME NEW t \in Seq(Segments), NEW x \in Segments, PRURL(a) = WebLink(page \o t, NoRef)
      PROVE  PRURL(a) # NoLink /\ [PRURL(a) EXCEPT !.path = Append(@, x)] = WebLink(page \o Append(t, x), NoRef)
  <2>1. Append(page \o t, x) = page \o Append(t, x)
    BY AppendBehind
  <2>2. WebLink(page \o t, NoRef) # NoLink
    BY WebLinkParts
  <2>3. PRURL(a).path = page \o t /\ \A y : [PRURL(a) EXCEPT !.path = y] = WebLink(y, NoRef)
    <3>1. PICK d : d = page \o t
      OBVIOUS
    <3>2. WebLink(d, NoRef).path = d /\ \A y : [WebLink(d, NoRef) EXCEPT !.path = y] = WebLink(y, NoRef)
      BY WebLinkParts
    <3>3. PRURL(a) = WebLink(d, NoRef)
      BY <1>3, <3>1
    <3>. QED
      BY <3>1, <3>2, <3>3
  <2>4. [PRURL(a) EXCEPT !.path = Append(@, x)] = [PRURL(a) EXCEPT !.path = page \o Append(t, x)]
    BY <2>1, <2>3
  <2>. QED
    BY <1>3, <2>2, <2>3, <2>4
<1>4. "files" \in Segments /\ "diffs" \in Segments /\ "diff" \in Segments
  BY WordsAreSegments DEF Words
<1>5. /\ <<"pull", PrId>> \in Seq(Segments) /\ <<"-", "merge_requests", PrId>> \in Seq(Segments)
      /\ <<"pull-requests", PrId>> \in Seq(Segments)
  BY MoreTails
<1>6. ASSUME svc.plugin = "github"
      PROVE  /\ PRURL(a) = WebLink(page \o <<"pull", PrId>>, NoRef)
             /\ PRDiffLink(a) = WebLink(page \o Append(<<"pull", PrId>>, "files"), NoRef)
  <2>1. PRURL(a) = Below(a, <<"pull", PrId>>)
    BY <1>1, <1>6 DEF PRURL
  <2>2. PRURL(a) = WebLink(page \o <<"pull", PrId>>, NoRef)
    BY <1>2, <2>1
  <2>3. /\ PRURL(a) # NoLink
        /\ [PRURL(a) EXCEPT !.path = Append(@, "files")] = WebLink(page \o Append(<<"pull", PrId>>, "files"), NoRef)
    BY <1>3, <1>4, <1>5, <2>2
  <2>4. PRDiffLink(a) = [PRURL(a) EXCEPT !.path = Append(@, "files")]
    BY <1>6, <2>3 DEF PRDiffLink
  <2>. QED
    BY <2>2, <2>3, <2>4
<1>7. ASSUME svc.plugin = "gitlab"
      PROVE  /\ PRURL(a) = WebLink(page \o <<"-", "merge_requests", PrId>>, NoRef)
             /\ PRDiffLink(a) = WebLink(page \o Append(<<"-", "merge_requests", PrId>>, "diffs"), NoRef)
  <2>1. PRURL(a) = Below(a, <<"-", "merge_requests", PrId>>)
    BY <1>1, <1>7 DEF PRURL
  <2>2. PRURL(a) = WebLink(page \o <<"-", "merge_requests", PrId>>, NoRef)
    BY <1>2, <2>1
  <2>3. /\ PRURL(a) # NoLink
        /\ [PRURL(a) EXCEPT !.path = Append(@, "diffs")]
              = WebLink(page \o Append(<<"-", "merge_requests", PrId>>, "diffs"), NoRef)
    BY <1>3, <1>4, <1>5, <2>2
  <2>4. PRDiffLink(a) = [PRURL(a) EXCEPT !.path = Append(@, "diffs")]
    BY <1>7, <2>3 DEF PRDiffLink
  <2>. QED
    BY <2>2, <2>3, <2>4
<1>8. ASSUME svc.plugin = "bitbucket"
      PROVE  /\ PRURL(a) = WebLink(page \o <<"pull-requests", PrId>>, NoRef)
             /\ PRDiffLink(a) = WebLink(page \o Append(<<"pull-requests", PrId>>, "diff"), NoRef)
  <2>1. PRURL(a) = Below(a, <<"pull-requests", PrId>>)
    BY <1>1, <1>8 DEF PRURL
  <2>2. PRURL(a) = WebLink(page \o <<"pull-requests", PrId>>, NoRef)
    BY <1>2, <2>1
  <2>3. /\ PRURL(a) # NoLink
        /\ [PRURL(a) EXCEPT !.path = Append(@, "diff")]
              = WebLink(page \o Append(<<"pull-requests", PrId>>, "diff"), NoRef)
    BY <1>3, <1>4, <1>5, <2>2
  <2>4. PRDiffLink(a) = [PRURL(a) EXCEPT !.path = Append(@, "diff")]
    BY <1>8, <2>3 DEF PRDiffLink
  <2>. QED
    BY <2>2, <2>3, <2>4
<1>. QED
  BY <1>6, <1>7, <1>8

\* Nothing behind a page.
LEMMA PageAlone ==
    ASSUME NEW page \in Seq(Segments)
    PROVE  <<>> \in Seq(Segments) /\ Len(<<>>) = 0 /\ page \o <<>> = page
  OBVIOUS

LEMMA KnownParts ==
    ASSUME NEW ns, NEW n, NEW branch, NEW pr, NEW page, NEW ssh, NEW a,
           a = ReadOf(ns, n, branch, pr, page, ssh)
    PROVE  /\ a.type = svc.plugin /\ a.http = WebLink(page, NoRef) /\ a.ssh = ssh
           /\ LET b == [a EXCEPT !.pr = PrId]
              IN  b.type = svc.plugin /\ b.http = WebLink(page, NoRef) /\ b.pr = PrId
  BY DEF ReadOf

LEMMA LongerTails ==
    /\ LET t == Append(<<"pull", PrId>>, "files")
       IN  t \in Seq(Segments) /\ Len(t) = 3 /\ t[1] = "pull" /\ t[2] = PrId
    /\ LET t == Append(<<"pull-requests", PrId>>, "diff")
       IN  t \in Seq(Segments) /\ Len(t) = 3 /\ t[1] = "pull-requests" /\ t[2] = PrId
    /\ LET t == Append(<<"-", "merge_requests", PrId>>, "diffs")
       IN  t \in Seq(Segments) /\ Len(t) = 4 /\ t[1] = "-" /\ t[2] = "merge_requests" /\ t[3] = PrId
<1>1. "files" \in Segments /\ "diffs" \in Segments /\ "diff" \in Segments
  BY WordsAreSegments DEF Words
<1>2. ASSUME NEW t \in Seq(Segments), NEW x \in Segments, NEW y, NEW z, Len(t) = 2, t[1] = y, t[2] = z
      PROVE  LET l == Append(t, x) IN l \in Seq(Segments) /\ Len(l) = 3 /\ l[1] = y /\ l[2] = z
  <2>1. /\ Append(t, x) \in Seq(Segments) /\ Len(Append(t, x)) = Len(t) + 1
        /\ \A i \in 1 .. Len(t) : Append(t, x)[i] = t[i]
    BY AppendBehind
  <2>. QED
    BY <1>2, <2>1
<1>3. ASSUME NEW t \in Seq(Segments), NEW x \in Segments, NEW y, NEW z, NEW w,
             Len(t) = 3, t[1] = y, t[2] = z, t[3] = w
      PROVE  LET l == Append(t, x) IN l \in Seq(Segments) /\ Len(l) = 4 /\ l[1] = y /\ l[2] = z /\ l[3] = w
  <2>1. /\ Append(t, x) \in Seq(Segments) /\ Len(Append(t, x)) = Len(t) + 1
        /\ \A i \in 1 .. Len(t) : Append(t, x)[i] = t[i]
    BY AppendBehind
  <2>. QED
    BY <1>3, <2>1
<1>4. PICK t \in Seq(Segments) : t = <<"pull", PrId>> /\ Len(t) = 2 /\ t[1] = "pull" /\ t[2] = PrId
  BY MoreTails
<1>5. PICK u \in Seq(Segments) : u = <<"pull-requests", PrId>> /\ Len(u) = 2 /\ u[1] = "pull-requests" /\ u[2] = PrId
  BY MoreTails
<1>6. PICK v \in Seq(Segments) : /\ v = <<"-", "merge_requests", PrId>> /\ Len(v) = 3
                                 /\ v[1] = "-" /\ v[2] = "merge_requests" /\ v[3] = PrId
  BY MoreTails
<1>7. LET l == Append(t, "files") IN l \in Seq(Segments) /\ Len(l) = 3 /\ l[1] = "pull" /\ l[2] = PrId
  BY <1>1, <1>2, <1>4
<1>8. LET l == Append(u, "diff") IN l \in Seq(Segments) /\ Len(l) = 3 /\ l[1] = "pull-requests" /\ l[2] = PrId
  BY <1>1, <1>2, <1>5
<1>9. LET l == Append(v, "diffs")
      IN  l \in Seq(Segments) /\ Len(l) = 4 /\ l[1] = "-" /\ l[2] = "merge_requests" /\ l[3] = PrId
  BY <1>1, <1>3, <1>6
<1>. QED
  BY <1>4, <1>5, <1>6, <1>7, <1>8, <1>9

\* The links of a report to GitHub.
LEMMA GithubLinked ==
    ASSUME ServiceOK, svc.plugin = "github", NEW page \in Seq(Segments),
           NEW ns, NEW n, NEW branch, NEW pr, NEW ssh, NEW a, a = ReadOf(ns, n, branch, pr, page, ssh),
           NEW link, NEW what, LinkedFrom(a, link, what)
    PROVE  \/ what = "repo" /\ link = ssh
           \/ \E rest \in Seq(Segments) : \E ref :
                 /\ link = WebLink(page \o rest, ref)
                 /\ what = "branch" => Len(rest) = 2 /\ rest[1] = "tree" /\ rest[2] = "feature"
                 /\ what = "pr" => Len(rest) >= 2 /\ rest[1] = "pull" /\ rest[2] = PrId
<1>. DEFINE b == [a EXCEPT !.pr = PrId]
            Leads(rest, ref) ==
              /\ link = WebLink(page \o rest, ref)
              /\ what = "branch" => Len(rest) = 2 /\ rest[1] = "tree" /\ rest[2] = "feature"
              /\ what = "pr" => Len(rest) >= 2 /\ rest[1] = "pull" /\ rest[2] = PrId
<1>1. /\ a.type = svc.plugin /\ a.http = WebLink(page, NoRef) /\ a.ssh = ssh
      /\ b.type = svc.plugin /\ b.http = WebLink(page, NoRef) /\ b.pr = PrId
  BY KnownParts
<1>. HIDE DEF b
<1>2. ASSUME what = "repo", link = a.http
      PROVE  \E rest \in Seq(Segments) : \E ref : Leads(rest, ref)
  <2>1. PICK t \in Seq(Segments) : Len(t) = 0 /\ page \o t = page
    BY PageAlone
  <2>2. link = WebLink(page \o t, NoRef)
    BY <1>1, <1>2, <2>1
  <2>3. Leads(t, NoRef)
    BY <1>2, <2>1, <2>2
  <2>. QED
    BY <2>3
<1>3. ASSUME what = "branch", link = BranchURL(a, Branch)
      PROVE  \E rest \in Seq(Segments) : \E ref : Leads(rest, ref)
  <2>1. PICK t \in Seq(Segments) : t = <<"tree">> \o Branch /\ Len(t) = 2 /\ t[1] = "tree" /\ t[2] = "feature"
    BY Tails
  <2>2. BranchURL(a, Branch) = WebLink(page \o (<<"tree">> \o Branch), NoRef)
    BY <1>1, ReportLinks
  <2>3. PICK f : f = NoRef
    OBVIOUS
  <2>4. link = WebLink(page \o t, f)
    BY <1>3, <2>1, <2>2, <2>3
  <2>5. Leads(t, f)
    BY <1>3, <2>1, <2>3, <2>4
  <2>. QED
    BY <2>5
<1>4. ASSUME what = "pr", link = PRURL(b)
      PROVE  \E rest \in Seq(Segments) : \E ref : Leads(rest, ref)
  <2>1. PICK t \in Seq(Segments) : t = <<"pull", PrId>> /\ Len(t) = 2 /\ t[1] = "pull" /\ t[2] = PrId
    BY MoreTails
  <2>2. PRURL(b) = WebLink(page \o <<"pull", PrId>>, NoRef)
    BY <1>1, RequestLinks
  <2>3. PICK f : f = NoRef
    OBVIOUS
  <2>4. link = WebLink(page \o t, f)
    BY <1>4, <2>1, <2>2, <2>3
  <2>5. Leads(t, f)
    BY <1>4, <2>1, <2>3, <2>4
  <2>. QED
    BY <2>5
<1>5. ASSUME what = "pr", link = PRDiffLink(b)
      PROVE  \E rest \in Seq(Segments) : \E ref : Leads(rest, ref)
  <2>1. PICK t \in Seq(Segments) : t = Append(<<"pull", PrId>>, "files") /\ Len(t) = 3 /\ t[1] = "pull" /\ t[2] = PrId
    BY LongerTails
  <2>2. PRDiffLink(b) = WebLink(page \o Append(<<"pull", PrId>>, "files"), NoRef)
    BY <1>1, RequestLinks
  <2>3. PICK f : f = NoRef
    OBVIOUS
  <2>4. link = WebLink(page \o t, f)
    BY <1>5, <2>1, <2>2, <2>3
  <2>5. Leads(t, f)
    BY <1>5, <2>1, <2>3, <2>4
  <2>. QED
    BY <2>5
<1>6. ASSUME what = "repo", link = FilePermalink(a, Sha, File)
      PROVE  \E rest \in Seq(Segments) : \E ref : Leads(rest, ref)
  <2>1. PICK t \in Seq(Segments) : t = <<"blob", Sha>> \o File /\ Len(t) = 4
    BY Tails
  <2>2. FilePermalink(a, Sha, File) = WebLink(page \o (<<"blob", Sha>> \o File), NoRef)
    BY <1>1, ReportLinks
  <2>3. PICK f : f = NoRef
    OBVIOUS
  <2>4. link = WebLink(page \o t, f)
    BY <1>6, <2>1, <2>2, <2>3
  <2>5. Leads(t, f)
    BY <1>6, <2>1, <2>3, <2>4
  <2>. QED
    BY <2>5
<1>7. ASSUME what = "repo", link = CommitURL(a, Sha)
      PROVE  \E rest \in Seq(Segments) : \E ref : Leads(rest, ref)
  <2>1. PICK t \in Seq(Segments) : t = <<"commit", Sha>> /\ Len(t) = 2
    BY MoreTails
  <2>2. CommitURL(a, Sha) = WebLink(page \o <<"commit", Sha>>, NoRef)
    BY <1>1, ReportLinks
  <2>3. PICK f : f = NoRef
    OBVIOUS
  <2>4. link = WebLink(page \o t, f)
    BY <1>7, <2>1, <2>2, <2>3
  <2>5. Leads(t, f)
    BY <1>7, <2>1, <2>3, <2>4
  <2>. QED
    BY <2>5
<1>. QED
  BY <1>1, <1>2, <1>3, <1>4, <1>5, <1>6, <1>7 DEF LinkedFrom, b

\* The links of a report to GitLab.
LEMMA GitlabLinked ==
    ASSUME ServiceOK, svc.plugin = "gitlab", NEW page \in Seq(Segments),
           NEW ns, NEW n, NEW branch, NEW pr, NEW ssh, NEW a, a = ReadOf(ns, n, branch, pr, page, ssh),
           NEW link, NEW what, LinkedFrom(a, link, what)
    PROVE  \/ what = "repo" /\ link = ssh
           \/ \E rest \in Seq(Segments) : \E ref :
                 /\ link = WebLink(page \o rest, ref)
                 /\ rest = <<>> \/ (Len(rest) >= 3 /\ rest[1] = "-" /\ rest[2] \in {"tree", "merge_requests"})
                 /\ what = "branch" => Len(rest) = 3 /\ rest[2] = "tree" /\ rest[3] = "feature"
                 /\ what = "pr" => Len(rest) >= 3 /\ rest[2] = "merge_requests" /\ rest[3] = PrId
<1>. DEFINE b == [a EXCEPT !.pr = PrId]
            Leads(rest, ref) ==
              /\ link = WebLink(page \o rest, ref)
              /\ rest = <<>> \/ (Len(rest) >= 3 /\ rest[1] = "-" /\ rest[2] \in {"tree", "merge_requests"})
              /\ what = "branch" => Len(rest) = 3 /\ rest[2] = "tree" /\ rest[3] = "feature"
              /\ what = "pr" => Len(rest) >= 3 /\ rest[2] = "merge_requests" /\ rest[3] = PrId
<1>1. /\ a.type = svc.plugin /\ a.http = WebLink(page, NoRef) /\ a.ssh = ssh
      /\ b.type = svc.plugin /\ b.http = WebLink(page, NoRef) /\ b.pr = PrId
  BY KnownParts
<1>. HIDE DEF b
<1>2. ASSUME what = "repo", link = a.http
      PROVE  \E rest \in Seq(Segments) : \E ref : Leads(rest, ref)
  <2>1. PICK t \in Seq(Segments) : t = <<>> /\ Len(t) = 0 /\ page \o t = page
    BY PageAlone
  <2>2. link = WebLink(page \o t, NoRef)
    BY <1>1, <1>2, <2>1
  <2>3. Leads(t, NoRef)
    BY <1>2, <2>1, <2>2
  <2>. QED
    BY <2>3
<1>3. ASSUME what = "branch", link = BranchURL(a, Branch)
      PROVE  \E rest \in Seq(Segments) : \E ref : Leads(rest, ref)
  <2>1. PICK t \in Seq(Segments) : t = <<"-", "tree">> \o Branch /\ Len(t) = 3 /\ t[1] = "-" /\ t[2] = "tree" /\ t[3] = "feature"
    BY Tails
  <2>2. BranchURL(a, Branch) = WebLink(page \o (<<"-", "tree">> \o Branch), NoRef)
    BY <1>1, ReportLinks
  <2>3. PICK f : f = NoRef
    OBVIOUS
  <2>4. link = WebLink(page \o t, f)
    BY <1>3, <2>1, <2>2, <2>3
  <2>5. Leads(t, f)
    BY <1>3, <2>1, <2>3, <2>4
  <2>. QED
    BY <2>5
<1>4. ASSUME what = "pr", link = PRURL(b)
      PROVE  \E rest \in Seq(Segments) : \E ref : Leads(rest, ref)
  <2>1. PICK t \in Seq(Segments) : t = <<"-", "merge_requests", PrId>> /\ Len(t) = 3 /\ t[1] = "-" /\ t[2] = "merge_requests" /\ t[3] = PrId
    BY MoreTails
  <2>2. PRURL(b) = WebLink(page \o <<"-", "merge_requests", PrId>>, NoRef)
    BY <1>1, RequestLinks
  <2>3. PICK f : f = NoRef
    OBVIOUS
  <2>4. link = WebLink(page \o t, f)
    BY <1>4, <2>1, <2>2, <2>3
  <2>5. Leads(t, f)
    BY <1>4, <2>1, <2>3, <2>4
  <2>. QED
    BY <2>5
<1>5. ASSUME what = "pr", link = PRDiffLink(b)
      PROVE  \E rest \in Seq(Segments) : \E ref : Leads(rest, ref)
  <2>1. PICK t \in Seq(Segments) : t = Append(<<"-", "merge_requests", PrId>>, "diffs") /\ Len(t) = 4 /\ t[1] = "-" /\ t[2] = "merge_requests" /\ t[3] = PrId
    BY LongerTails
  <2>2. PRDiffLink(b) = WebLink(page \o Append(<<"-", "merge_requests", PrId>>, "diffs"), NoRef)
    BY <1>1, RequestLinks
  <2>3. PICK f : f = NoRef
    OBVIOUS
  <2>4. link = WebLink(page \o t, f)
    BY <1>5, <2>1, <2>2, <2>3
  <2>5. Leads(t, f)
    BY <1>5, <2>1, <2>3, <2>4
  <2>. QED
    BY <2>5
<1>. QED
  BY <1>1, <1>2, <1>3, <1>4, <1>5 DEF LinkedFrom, b

\* The links of a report to Bitbucket.
LEMMA BitbucketLinked ==
    ASSUME ServiceOK, svc.plugin = "bitbucket", NEW page \in Seq(Segments),
           NEW ns, NEW n, NEW branch, NEW pr, NEW ssh, NEW a, a = ReadOf(ns, n, branch, pr, page, ssh),
           NEW link, NEW what, LinkedFrom(a, link, what)
    PROVE  \/ what = "repo" /\ link = ssh
           \/ \E rest \in Seq(Segments) : \E ref :
                 /\ link = WebLink(page \o rest, ref)
                 /\ what = "branch" =>
                    /\ ~(Len(rest) >= 2 /\ rest[1] = "pull-requests")
                    /\ ref \in Seq(Segments) /\ Len(ref) > 0 /\ ref[Len(ref)] = "feature"
                 /\ what = "pr" => Len(rest) >= 2 /\ rest[1] = "pull-requests" /\ rest[2] = PrId
<1>. DEFINE b == [a EXCEPT !.pr = PrId]
            Leads(rest, ref) ==
              /\ link = WebLink(page \o rest, ref)
              /\ what = "branch" =>
                    /\ ~(Len(rest) >= 2 /\ rest[1] = "pull-requests")
                    /\ ref \in Seq(Segments) /\ Len(ref) > 0 /\ ref[Len(ref)] = "feature"
              /\ what = "pr" => Len(rest) >= 2 /\ rest[1] = "pull-requests" /\ rest[2] = PrId
<1>1. /\ a.type = svc.plugin /\ a.http = WebLink(page, NoRef) /\ a.ssh = ssh
      /\ b.type = svc.plugin /\ b.http = WebLink(page, NoRef) /\ b.pr = PrId
  BY KnownParts
<1>. HIDE DEF b
<1>2. ASSUME what = "repo", link = a.http
      PROVE  \E rest \in Seq(Segments) : \E ref : Leads(rest, ref)
  <2>1. PICK t \in Seq(Segments) : Len(t) = 0 /\ page \o t = page
    BY PageAlone
  <2>2. link = WebLink(page \o t, NoRef)
    BY <1>1, <1>2, <2>1
  <2>3. Leads(t, NoRef)
    BY <1>2, <2>1, <2>2
  <2>. QED
    BY <2>3
<1>3. ASSUME what = "branch", link = BranchURL(a, Branch)
      PROVE  \E rest \in Seq(Segments) : \E ref : Leads(rest, ref)
  <2>1. PICK t \in Seq(Segments) : t = <<"browse">> /\ Len(t) = 1
    BY MoreTails
  <2>2. BranchURL(a, Branch) = WebLink(page \o <<"browse">>, <<"refs", "heads">> \o Branch)
    BY <1>1, ReportLinks
  <2>3. PICK f \in Seq(Segments) : f = <<"refs", "heads">> \o Branch /\ Len(f) = 3 /\ f[3] = "feature"
    BY Tails
  <2>4. link = WebLink(page \o t, f)
    BY <1>3, <2>1, <2>2, <2>3
  <2>5. Leads(t, f)
    BY <1>3, <2>1, <2>3, <2>4
  <2>. QED
    BY <2>5
<1>4. ASSUME what = "pr", link = PRURL(b)
      PROVE  \E rest \in Seq(Segments) : \E ref : Leads(rest, ref)
  <2>1. PICK t \in Seq(Segments) : t = <<"pull-requests", PrId>> /\ Len(t) = 2 /\ t[1] = "pull-requests" /\ t[2] = PrId
    BY MoreTails
  <2>2. PRURL(b) = WebLink(page \o <<"pull-requests", PrId>>, NoRef)
    BY <1>1, RequestLinks
  <2>3. PICK f : f = NoRef
    OBVIOUS
  <2>4. link = WebLink(page \o t, f)
    BY <1>4, <2>1, <2>2, <2>3
  <2>5. Leads(t, f)
    BY <1>4, <2>1, <2>3, <2>4
  <2>. QED
    BY <2>5
<1>5. ASSUME what = "pr", link = PRDiffLink(b)
      PROVE  \E rest \in Seq(Segments) : \E ref : Leads(rest, ref)
  <2>1. PICK t \in Seq(Segments) : t = Append(<<"pull-requests", PrId>>, "diff") /\ Len(t) = 3 /\ t[1] = "pull-requests" /\ t[2] = PrId
    BY LongerTails
  <2>2. PRDiffLink(b) = WebLink(page \o Append(<<"pull-requests", PrId>>, "diff"), NoRef)
    BY <1>1, RequestLinks
  <2>3. PICK f : f = NoRef
    OBVIOUS
  <2>4. link = WebLink(page \o t, f)
    BY <1>5, <2>1, <2>2, <2>3
  <2>5. Leads(t, f)
    BY <1>5, <2>1, <2>3, <2>4
  <2>. QED
    BY <2>5
<1>6. ASSUME what = "repo", link = FilePermalink(a, Sha, File)
      PROVE  \E rest \in Seq(Segments) : \E ref : Leads(rest, ref)
  <2>1. PICK t \in Seq(Segments) : t = <<"browse">> \o File /\ Len(t) = 3
    BY Tails
  <2>2. FilePermalink(a, Sha, File) = WebLink(page \o (<<"browse">> \o File), <<Sha>>)
    BY <1>1, ReportLinks
  <2>3. PICK f : f = <<Sha>>
    OBVIOUS
  <2>4. link = WebLink(page \o t, f)
    BY <1>6, <2>1, <2>2, <2>3
  <2>5. Leads(t, f)
    BY <1>6, <2>1, <2>3, <2>4
  <2>. QED
    BY <2>5
<1>7. ASSUME what = "repo", link = CommitURL(a, Sha)
      PROVE  \E rest \in Seq(Segments) : \E ref : Leads(rest, ref)
  <2>1. PICK t \in Seq(Segments) : t = <<"commits", Sha>> /\ Len(t) = 2
    BY MoreTails
  <2>2. CommitURL(a, Sha) = WebLink(page \o <<"commits", Sha>>, NoRef)
    BY <1>1, ReportLinks
  <2>3. PICK f : f = NoRef
    OBVIOUS
  <2>4. link = WebLink(page \o t, f)
    BY <1>7, <2>1, <2>2, <2>3
  <2>5. Leads(t, f)
    BY <1>7, <2>1, <2>3, <2>4
  <2>. QED
    BY <2>5
<1>. QED
  BY <1>1, <1>2, <1>3, <1>4, <1>5, <1>6, <1>7 DEF LinkedFrom, b

-----------------------------------------------------------------------------
(***************************************************************************)
(* Each link leads to the repository, and what is read there has links     *)
(* that do the same.                                                       *)
(***************************************************************************)
\* The parts of an address over SSH.
LEMMA SshParts ==
    ASSUME NEW port, NEW path
    PROVE  SshAt(port, path).host = svc.host /\ SshAt(port, path).scheme = "ssh" /\ SshAt(port, path).path = path
  BY DEF SshAt

LEMMA GithubAnswers ==
    ASSUME ServiceOK, svc.plugin = "github", NEW r \in Universe(svc), NEW branch, NEW pr, NEW port, NEW a,
           a = ReadOf(r.ns, r.slug, branch, pr, ProjectPage(r), SshAt(port, Append(r.ns, r.slug))),
           NEW link, NEW what, LinkedFrom(a, link, what)
    PROVE  link.host = svc.host /\ Answers(ParseAs(link, svc.plugin), what, r)
<1>1. r.ns \in Seq(Names) /\ r.slug \in Names
  BY UniverseFacts
<1>2. PICK page \in Seq(Segments) : page = Append(r.ns, r.slug)
  <2>1. ASSUME NEW s \in Seq(Segments), NEW x \in Segments
        PROVE  Append(s, x) \in Seq(Segments)
    OBVIOUS
  <2>2. r.ns \in Seq(Segments) /\ r.slug \in Segments
    BY <1>1, WordsAreSegments
  <2>. QED
    BY <2>1, <2>2
<1>3. PICK ns, n, ssh : ns = r.ns /\ n = r.slug /\ ssh = SshAt(port, page)
  OBVIOUS
<1>4. a = ReadOf(ns, n, branch, pr, page, ssh)
  BY <1>2, <1>3 DEF ProjectPage
<1>5. \/ what = "repo" /\ link = ssh
      \/ \E rest \in Seq(Segments) : \E ref :
            /\ link = WebLink(page \o rest, ref)
            /\ what = "branch" => Len(rest) = 2 /\ rest[1] = "tree" /\ rest[2] = "feature"
            /\ what = "pr" => Len(rest) >= 2 /\ rest[1] = "pull" /\ rest[2] = PrId
  BY <1>4, GithubLinked
<1>6. \E rest \in Seq(Segments) :
         /\ link.host = svc.host /\ link.path = page \o rest
         /\ what = "branch" => Len(rest) = 2 /\ rest[1] = "tree" /\ rest[2] = "feature"
         /\ what = "pr" => Len(rest) >= 2 /\ rest[1] = "pull" /\ rest[2] = PrId
  <2>1. CASE what = "repo" /\ link = ssh
    <3>1. link.host = svc.host /\ link.path = page
      BY <1>3, <2>1, SshParts
    <3>2. PICK t \in Seq(Segments) : page \o t = page
      BY PageAlone
    <3>. QED
      BY <2>1, <3>1, <3>2
  <2>2. ASSUME NEW rest \in Seq(Segments), NEW ref, link = WebLink(page \o rest, ref)
        PROVE  link.host = svc.host /\ link.path = page \o rest
    <3>1. PICK d : d = page \o rest
      OBVIOUS
    <3>2. WebLink(d, ref).host = svc.host /\ WebLink(d, ref).path = d
      BY WebLinkParts
    <3>. QED
      BY <2>2, <3>1, <3>2
  <2>. QED
    BY <1>5, <2>1, <2>2
<1>7. PICK rest \in Seq(Segments) :
         /\ link.host = svc.host /\ link.path = page \o rest
         /\ what = "branch" => Len(rest) = 2 /\ rest[1] = "tree" /\ rest[2] = "feature"
         /\ what = "pr" => Len(rest) >= 2 /\ rest[1] = "pull" /\ rest[2] = PrId
  BY <1>6
<1>8. link.path = Append(r.ns, r.slug) \o rest
  BY <1>2, <1>7
<1>. QED
  BY <1>7, <1>8, GithubLink

LEMMA GitlabAnswers ==
    ASSUME ServiceOK, svc.plugin = "gitlab", NEW r \in Universe(svc), NEW branch, NEW pr, NEW port, NEW a,
           ~HasPageName(Append(r.ns, r.slug)),
           a = ReadOf(r.ns, r.slug, branch, pr, ProjectPage(r), SshAt(port, Append(r.ns, r.slug))),
           NEW link, NEW what, LinkedFrom(a, link, what)
    PROVE  link.host = svc.host /\ Answers(ParseAs(link, svc.plugin), what, r)
<1>1. r.ns \in Seq(Names) /\ r.slug \in Names
  BY UniverseFacts
<1>2. PICK page \in Seq(Segments) : page = Append(r.ns, r.slug)
  <2>1. ASSUME NEW s \in Seq(Segments), NEW x \in Segments
        PROVE  Append(s, x) \in Seq(Segments)
    OBVIOUS
  <2>2. r.ns \in Seq(Segments) /\ r.slug \in Segments
    BY <1>1, WordsAreSegments
  <2>. QED
    BY <2>1, <2>2
<1>3. PICK ns, n, ssh : ns = r.ns /\ n = r.slug /\ ssh = SshAt(port, page)
  OBVIOUS
<1>4. a = ReadOf(ns, n, branch, pr, page, ssh)
  BY <1>2, <1>3 DEF ProjectPage
<1>5. \/ what = "repo" /\ link = ssh
      \/ \E rest \in Seq(Segments) : \E ref :
            /\ link = WebLink(page \o rest, ref)
            /\ rest = <<>> \/ (Len(rest) >= 3 /\ rest[1] = "-" /\ rest[2] \in {"tree", "merge_requests"})
            /\ what = "branch" => Len(rest) = 3 /\ rest[2] = "tree" /\ rest[3] = "feature"
            /\ what = "pr" => Len(rest) >= 3 /\ rest[2] = "merge_requests" /\ rest[3] = PrId
  BY <1>4, GitlabLinked
<1>6. \E rest \in Seq(Segments) :
         /\ link.host = svc.host /\ link.path = page \o rest
         /\ rest = <<>> \/ (Len(rest) >= 3 /\ rest[1] = "-" /\ rest[2] \in {"tree", "merge_requests"})
         /\ what = "branch" => Len(rest) = 3 /\ rest[2] = "tree" /\ rest[3] = "feature"
         /\ what = "pr" => Len(rest) >= 3 /\ rest[2] = "merge_requests" /\ rest[3] = PrId
  <2>1. CASE what = "repo" /\ link = ssh
    <3>1. link.host = svc.host /\ link.path = page
      BY <1>3, <2>1, SshParts
    <3>2. PICK t \in Seq(Segments) : t = <<>> /\ page \o t = page
      BY PageAlone
    <3>. QED
      BY <2>1, <3>1, <3>2
  <2>2. ASSUME NEW rest \in Seq(Segments), NEW ref, link = WebLink(page \o rest, ref)
        PROVE  link.host = svc.host /\ link.path = page \o rest
    <3>1. PICK d : d = page \o rest
      OBVIOUS
    <3>2. WebLink(d, ref).host = svc.host /\ WebLink(d, ref).path = d
      BY WebLinkParts
    <3>. QED
      BY <2>2, <3>1, <3>2
  <2>. QED
    BY <1>5, <2>1, <2>2
<1>7. PICK rest \in Seq(Segments) :
         /\ link.host = svc.host /\ link.path = page \o rest
         /\ rest = <<>> \/ (Len(rest) >= 3 /\ rest[1] = "-" /\ rest[2] \in {"tree", "merge_requests"})
         /\ what = "branch" => Len(rest) = 3 /\ rest[2] = "tree" /\ rest[3] = "feature"
         /\ what = "pr" => Len(rest) >= 3 /\ rest[2] = "merge_requests" /\ rest[3] = PrId
  BY <1>6
<1>8. link.path = Append(r.ns, r.slug) \o rest
  BY <1>2, <1>7
<1>. QED
  BY <1>7, <1>8, GitlabLink

LEMMA ProjectAnswers ==
    ASSUME ServiceOK, svc.plugin = "bitbucket", NEW r \in Universe(svc), NEW branch, NEW pr, NEW port, NEW a,
           a = ReadOf(r.ns, r.slug, branch, pr, ProjectPage(r), SshAt(port, Append(r.ns, r.slug))),
           NEW link, NEW what, LinkedFrom(a, link, what)
    PROVE  link.host = svc.host /\ Answers(ParseAs(link, svc.plugin), what, r)
<1>1. PICK k \in Names : r.ns = <<k>> /\ r.ns[1] = k /\ r.slug \in Names
  BY BitbucketKey
<1>2. PICK page \in Seq(Segments) : page = <<"projects", r.ns[1], "repos", r.slug>>
  <2>1. "projects" \in Segments /\ "repos" \in Segments /\ r.ns[1] \in Segments /\ r.slug \in Segments
    BY <1>1, WordsAreSegments DEF Words
  <2>2. PICK x \in Segments, y \in Segments : x = r.ns[1] /\ y = r.slug
    BY <2>1
  <2>3. <<"projects", x, "repos", y>> \in Seq(Segments)
    BY <2>1, FourParts
  <2>. QED
    BY <2>2, <2>3
<1>3. PICK ns, n, ssh : ns = r.ns /\ n = r.slug /\ ssh = SshAt(port, Append(r.ns, r.slug))
  OBVIOUS
<1>4. a = ReadOf(ns, n, branch, pr, page, ssh)
  BY <1>2, <1>3 DEF ProjectPage
<1>5. \/ what = "repo" /\ link = ssh
      \/ \E rest \in Seq(Segments) : \E ref :
            /\ link = WebLink(page \o rest, ref)
            /\ what = "branch" =>
                  /\ ~(Len(rest) >= 2 /\ rest[1] = "pull-requests")
                  /\ ref \in Seq(Segments) /\ Len(ref) > 0 /\ ref[Len(ref)] = "feature"
            /\ what = "pr" => Len(rest) >= 2 /\ rest[1] = "pull-requests" /\ rest[2] = PrId
  BY <1>4, BitbucketLinked
<1>6. CASE what = "repo" /\ link = ssh
  <2>1. link.host = svc.host /\ link.scheme = "ssh" /\ link.path = Append(r.ns, r.slug)
    <3>1. PICK d : d = Append(r.ns, r.slug)
      OBVIOUS
    <3>2. SshAt(port, d).host = svc.host /\ SshAt(port, d).scheme = "ssh" /\ SshAt(port, d).path = d
      BY SshParts
    <3>. QED
      BY <1>3, <1>6, <3>1, <3>2
  <2>2. Answers(ParseAs(link, svc.plugin), "repo", r)
    BY <2>1, BitbucketAddress
  <2>. QED
    BY <1>6, <2>1, <2>2
<1>7. CASE \E rest \in Seq(Segments) : \E ref :
            /\ link = WebLink(page \o rest, ref)
            /\ what = "branch" =>
                  /\ ~(Len(rest) >= 2 /\ rest[1] = "pull-requests")
                  /\ ref \in Seq(Segments) /\ Len(ref) > 0 /\ ref[Len(ref)] = "feature"
            /\ what = "pr" => Len(rest) >= 2 /\ rest[1] = "pull-requests" /\ rest[2] = PrId
  <2>1. PICK rest \in Seq(Segments) : \E ref :
            /\ link = WebLink(page \o rest, ref)
            /\ what = "branch" =>
                  /\ ~(Len(rest) >= 2 /\ rest[1] = "pull-requests")
                  /\ ref \in Seq(Segments) /\ Len(ref) > 0 /\ ref[Len(ref)] = "feature"
            /\ what = "pr" => Len(rest) >= 2 /\ rest[1] = "pull-requests" /\ rest[2] = PrId
    BY <1>7
  <2>at. PICK ref :
            /\ link = WebLink(page \o rest, ref)
            /\ what = "branch" =>
                  /\ ~(Len(rest) >= 2 /\ rest[1] = "pull-requests")
                  /\ ref \in Seq(Segments) /\ Len(ref) > 0 /\ ref[Len(ref)] = "feature"
            /\ what = "pr" => Len(rest) >= 2 /\ rest[1] = "pull-requests" /\ rest[2] = PrId
    BY <2>1
  <2>2. link.host = svc.host /\ link.scheme = "https" /\ link.path = page \o rest /\ link.at = ref
    <3>1. PICK d : d = page \o rest
      OBVIOUS
    <3>2. /\ WebLink(d, ref).host = svc.host /\ WebLink(d, ref).path = d
          /\ WebLink(d, ref).scheme = "https" /\ WebLink(d, ref).at = ref
      BY WebLinkParts
    <3>. QED
      BY <2>at, <3>1, <3>2
  <2>3. link.path = <<"projects", r.ns[1], "repos", r.slug>> \o rest
    BY <1>2, <2>2
  <2>4. /\ what = "branch" =>
              /\ ~(Len(rest) >= 2 /\ rest[1] = "pull-requests")
              /\ link.at \in Seq(Segments) /\ Len(link.at) > 0 /\ link.at[Len(link.at)] = "feature"
        /\ what = "pr" => Len(rest) >= 2 /\ rest[1] = "pull-requests" /\ rest[2] = PrId
    BY <2>at, <2>2
  <2>. QED
    BY <2>2, <2>3, <2>4, ProjectLink
<1>. QED
  BY <1>5, <1>6, <1>7

LEMMA UserAnswers ==
    ASSUME ServiceOK, svc.plugin = "bitbucket", NEW r \in Universe(svc), NEW v \in DOMAIN Home, r.ns = <<Home[v]>>,
           NEW branch, NEW pr, NEW port, NEW a,
           a = ReadOf(<<"users", v>>, r.slug, branch, pr, <<"users", v, "repos", r.slug>>,
                      SshAt(port, Append(r.ns, r.slug))),
           NEW link, NEW what, LinkedFrom(a, link, what)
    PROVE  link.host = svc.host /\ Answers(ParseAs(link, svc.plugin), what, r)
<1>1. v \in Names /\ r.slug \in Names
  BY UniverseFacts, HomeAssumption
<1>2. PICK page \in Seq(Segments) : page = <<"users", v, "repos", r.slug>>
  <2>1. "users" \in Segments /\ "repos" \in Segments /\ v \in Segments /\ r.slug \in Segments
    BY <1>1, WordsAreSegments DEF Words
  <2>2. PICK x \in Segments, y \in Segments : x = v /\ y = r.slug
    BY <2>1
  <2>3. <<"users", x, "repos", y>> \in Seq(Segments)
    BY <2>1, FourParts
  <2>. QED
    BY <2>2, <2>3
<1>3. PICK ns, n, ssh : ns = <<"users", v>> /\ n = r.slug /\ ssh = SshAt(port, Append(r.ns, r.slug))
  OBVIOUS
<1>4. a = ReadOf(ns, n, branch, pr, page, ssh)
  BY <1>2, <1>3
<1>5. \/ what = "repo" /\ link = ssh
      \/ \E rest \in Seq(Segments) : \E ref :
            /\ link = WebLink(page \o rest, ref)
            /\ what = "branch" =>
                  /\ ~(Len(rest) >= 2 /\ rest[1] = "pull-requests")
                  /\ ref \in Seq(Segments) /\ Len(ref) > 0 /\ ref[Len(ref)] = "feature"
            /\ what = "pr" => Len(rest) >= 2 /\ rest[1] = "pull-requests" /\ rest[2] = PrId
  BY <1>4, BitbucketLinked
<1>6. CASE what = "repo" /\ link = ssh
  <2>1. link.host = svc.host /\ link.scheme = "ssh" /\ link.path = Append(r.ns, r.slug)
    <3>1. PICK d : d = Append(r.ns, r.slug)
      OBVIOUS
    <3>2. SshAt(port, d).host = svc.host /\ SshAt(port, d).scheme = "ssh" /\ SshAt(port, d).path = d
      BY SshParts
    <3>. QED
      BY <1>3, <1>6, <3>1, <3>2
  <2>2. Answers(ParseAs(link, svc.plugin), "repo", r)
    BY <2>1, BitbucketAddress
  <2>. QED
    BY <1>6, <2>1, <2>2
<1>7. CASE \E rest \in Seq(Segments) : \E ref :
            /\ link = WebLink(page \o rest, ref)
            /\ what = "branch" =>
                  /\ ~(Len(rest) >= 2 /\ rest[1] = "pull-requests")
                  /\ ref \in Seq(Segments) /\ Len(ref) > 0 /\ ref[Len(ref)] = "feature"
            /\ what = "pr" => Len(rest) >= 2 /\ rest[1] = "pull-requests" /\ rest[2] = PrId
  <2>1. PICK rest \in Seq(Segments) : \E ref :
            /\ link = WebLink(page \o rest, ref)
            /\ what = "branch" =>
                  /\ ~(Len(rest) >= 2 /\ rest[1] = "pull-requests")
                  /\ ref \in Seq(Segments) /\ Len(ref) > 0 /\ ref[Len(ref)] = "feature"
            /\ what = "pr" => Len(rest) >= 2 /\ rest[1] = "pull-requests" /\ rest[2] = PrId
    BY <1>7
  <2>at. PICK ref :
            /\ link = WebLink(page \o rest, ref)
            /\ what = "branch" =>
                  /\ ~(Len(rest) >= 2 /\ rest[1] = "pull-requests")
                  /\ ref \in Seq(Segments) /\ Len(ref) > 0 /\ ref[Len(ref)] = "feature"
            /\ what = "pr" => Len(rest) >= 2 /\ rest[1] = "pull-requests" /\ rest[2] = PrId
    BY <2>1
  <2>2. link.host = svc.host /\ link.scheme = "https" /\ link.path = page \o rest /\ link.at = ref
    <3>1. PICK d : d = page \o rest
      OBVIOUS
    <3>2. /\ WebLink(d, ref).host = svc.host /\ WebLink(d, ref).path = d
          /\ WebLink(d, ref).scheme = "https" /\ WebLink(d, ref).at = ref
      BY WebLinkParts
    <3>. QED
      BY <2>at, <3>1, <3>2
  <2>3. link.path = <<"users", v, "repos", r.slug>> \o rest
    BY <1>2, <2>2
  <2>4. what = "branch" => link.at \in Seq(Segments) /\ Len(link.at) > 0 /\ link.at[Len(link.at)] = "feature"
    BY <2>at, <2>2
  <2>. QED
    BY <2>2, <2>3, <2>4, UserLink
<1>. QED
  BY <1>5, <1>6, <1>7

\* One more link leads back.
LEMMA FollowedAnswers ==
    ASSUME ServiceOK, NEW r \in Universe(svc), ~HasPageName(Append(r.ns, r.slug)),
           NEW a, Knows(a, r), NEW link, NEW what, LinkedFrom(a, link, what)
    PROVE  link.host = svc.host /\ Answers(ParseAs(link, svc.plugin), what, r)
<1>1. svc.plugin \in {"github", "gitlab", "bitbucket"}
  BY ServiceFacts DEF Plugins
<1>2. ASSUME NEW branch, NEW pr, NEW port,
             a = ReadOf(r.ns, r.slug, branch, pr, ProjectPage(r), SshAt(port, Append(r.ns, r.slug)))
      PROVE  link.host = svc.host /\ Answers(ParseAs(link, svc.plugin), what, r)
  <2>1. CASE svc.plugin = "github"
    BY <1>2, <2>1, GithubAnswers
  <2>2. CASE svc.plugin = "gitlab"
    BY <1>2, <2>2, GitlabAnswers
  <2>3. CASE svc.plugin = "bitbucket"
    BY <1>2, <2>3, ProjectAnswers
  <2>. QED
    BY <1>1, <2>1, <2>2, <2>3
<1>3. ASSUME svc.plugin = "bitbucket", NEW v \in DOMAIN Home, r.ns = <<Home[v]>>, NEW branch, NEW pr, NEW port,
             a = ReadOf(<<"users", v>>, r.slug, branch, pr, <<"users", v, "repos", r.slug>>,
                        SshAt(port, Append(r.ns, r.slug)))
      PROVE  link.host = svc.host /\ Answers(ParseAs(link, svc.plugin), what, r)
  BY <1>3, UserAnswers
<1>. QED
  BY <1>2, <1>3 DEF Knows

\* The addresses of the file lead to the repository.
LEMMA OpenedAnswers ==
    ASSUME ServiceOK, NEW r \in Universe(svc), ~HasPageName(Append(r.ns, r.slug)),
           NEW link, link \in {HttpLink(r), SshLink(r)}, link # NoLink
    PROVE  link.host = svc.host /\ Answers(ParseAs(link, svc.plugin), "repo", r)
<1>1. r.ns \in Seq(Names) /\ r.slug \in Names
  BY UniverseFacts
<1>2. PICK page \in Seq(Segments) : page = Append(r.ns, r.slug)
  <2>1. ASSUME NEW s \in Seq(Segments), NEW x \in Segments
        PROVE  Append(s, x) \in Seq(Segments)
    OBVIOUS
  <2>2. r.ns \in Seq(Segments) /\ r.slug \in Segments
    BY <1>1, WordsAreSegments
  <2>. QED
    BY <2>1, <2>2
<1>3. link.host = svc.host
  BY LinkHosts
<1>4. Https(svc.host, page) = WebLink(page, NoRef) /\ \A port : Ssh(svc.host, port, page) = SshAt(port, page)
  BY LinksOf
<1>5. WebLink(page, NoRef).path = page /\ \A port : SshAt(port, page).path = page /\ SshAt(port, page).scheme = "ssh"
  BY WebLinkParts, SshParts
<1>6. svc.plugin \in {"github", "gitlab", "bitbucket"}
  BY ServiceFacts DEF Plugins
<1>7. SshLink(r) # NoLink => \E port : SshLink(r) = Ssh(svc.host, port, page)
  BY <1>2 DEF SshLink
<1>8. link = SshLink(r) => link.path = page /\ link.scheme = "ssh"
  BY <1>4, <1>5, <1>7
<1>9. CASE svc.plugin # "bitbucket"
  <2>1. link = HttpLink(r) => link.path = page
    BY <1>2, <1>4, <1>5, <1>9 DEF HttpLink
  <2>2. PICK t \in Seq(Segments) : t = <<>> /\ Len(t) = 0 /\ page \o t = page
    BY PageAlone
  <2>3. link.path = Append(r.ns, r.slug) \o t
    BY <1>2, <1>8, <2>1, <2>2
  <2>4. PICK what : what = "repo"
    OBVIOUS
  <2>5. what # "branch" /\ what # "pr"
    BY <2>4
  <2>6. CASE svc.plugin = "github"
    <3>1. Answers(ParseAs(link, svc.plugin), what, r)
      BY <1>3, <2>3, <2>5, <2>6, GithubLink
    <3>. QED
      BY <1>3, <2>4, <3>1
  <2>7. CASE svc.plugin = "gitlab"
    <3>1. Answers(ParseAs(link, svc.plugin), what, r)
      BY <1>3, <2>2, <2>3, <2>5, <2>7, GitlabLink
    <3>. QED
      BY <1>3, <2>4, <3>1
  <2>. QED
    BY <1>6, <1>9, <2>6, <2>7
<1>10. CASE svc.plugin = "bitbucket"
  <2>1. ASSUME link = HttpLink(r)
        PROVE  link.scheme = "https" /\ link.path = <<"scm">> \o r.ns \o <<r.slug>>
    <3>1. PICK k \in Names : r.ns = <<k>> /\ r.ns[1] = k /\ r.slug \in Names
      BY <1>10, BitbucketKey
    <3>2. PICK x \in Segments, y \in Segments : x = k /\ y = r.slug
      BY <3>1, WordsAreSegments
    <3>3. <<"scm">> \o <<x>> \o <<y>> = <<"scm", x, y>> /\ <<"scm", x, y>> \in Seq(Segments)
      <4>1. "scm" \in Segments
        BY WordsAreSegments DEF Words
      <4>. QED
        BY <4>1, FourParts
    <3>4. PICK path \in Seq(Segments) : path = <<"scm">> \o r.ns \o <<r.slug>>
      BY <3>1, <3>2, <3>3
    <3>5. link = Https(svc.host, path)
      BY <1>10, <2>1, <3>4 DEF HttpLink
    <3>6. Https(svc.host, path) = WebLink(path, NoRef)
      BY LinksOf
    <3>7. WebLink(path, NoRef).path = path /\ WebLink(path, NoRef).scheme = "https"
      BY WebLinkParts
    <3>. QED
      BY <3>4, <3>5, <3>6, <3>7
  <2>2. \/ link.scheme = "ssh" /\ link.path = Append(r.ns, r.slug)
        \/ link.scheme = "https" /\ link.path = <<"scm">> \o r.ns \o <<r.slug>>
    BY <1>2, <1>8, <2>1
  <2>3. Answers(ParseAs(link, svc.plugin), "repo", r)
    BY <1>3, <1>10, <2>2, BitbucketAddress
  <2>. QED
    BY <1>3, <2>3
<1>. QED
  BY <1>9, <1>10

\* The address of an entry ends in the slug.
LEMMA SlugOfEntry ==
    ASSUME ServiceOK, NEW r \in Universe(svc)
    PROVE  Slug(ToRepositoryParams(r)) = r.slug
<1>1. r.ns \in Seq(Names) /\ r.slug \in Names
  BY UniverseFacts
<1>2. Slug(ToRepositoryParams(r)) = Last(HttpLink(r).path)
  BY EntryParts DEF Slug
<1>3. ASSUME NEW path \in Seq(Segments), HttpLink(r) = Https(svc.host, path)
      PROVE  HttpLink(r).path = path
  BY <1>3, LinksOf, WebLinkParts
<1>4. CASE svc.plugin # "bitbucket"
  <2>1. PICK path \in Seq(Segments) : path = Append(r.ns, r.slug)
    <3>1. ASSUME NEW s \in Seq(Segments), NEW x \in Segments
          PROVE  Append(s, x) \in Seq(Segments)
      OBVIOUS
    <3>2. r.ns \in Seq(Segments) /\ r.slug \in Segments
      BY <1>1, WordsAreSegments
    <3>. QED
      BY <3>1, <3>2
  <2>2. HttpLink(r).path = Append(r.ns, r.slug)
    BY <1>3, <1>4, <2>1 DEF HttpLink
  <2>3. Append(r.ns, r.slug)[Len(Append(r.ns, r.slug))] = r.slug
    BY <1>1
  <2>. QED
    BY <1>2, <2>2, <2>3 DEF Last
<1>5. CASE svc.plugin = "bitbucket"
  <2>1. PICK k \in Names : r.ns = <<k>> /\ r.ns[1] = k /\ r.slug \in Names
    BY <1>5, BitbucketKey
  <2>2. PICK x \in Segments, y \in Segments : x = k /\ y = r.slug
    BY <2>1, WordsAreSegments
  <2>3. <<"scm">> \o <<x>> \o <<y>> = <<"scm", x, y>> /\ <<"scm", x, y>> \in Seq(Segments)
    <3>1. "scm" \in Segments
      BY WordsAreSegments DEF Words
    <3>. QED
      BY <3>1, FourParts
  <2>4. PICK path \in Seq(Segments) : path = <<"scm", x, y>>
    BY <2>3
  <2>5. HttpLink(r) = Https(svc.host, path)
    BY <1>5, <2>1, <2>2, <2>3, <2>4 DEF HttpLink
  <2>6. HttpLink(r).path = <<"scm", x, y>>
    BY <1>3, <2>4, <2>5
  <2>7. <<"scm", x, y>>[Len(<<"scm", x, y>>)] = y
    OBVIOUS
  <2>. QED
    BY <1>2, <2>2, <2>6, <2>7 DEF Last
<1>. QED
  BY <1>4, <1>5

LEMMA UserPageAnswers ==
    ASSUME ServiceOK, svc.plugin = "bitbucket", NEW r \in Universe(svc), NEW v \in DOMAIN Home, r.ns = <<Home[v]>>,
           NEW link, link = Https(svc.host, <<"users", v, "repos", r.slug>>)
    PROVE  link.host = svc.host /\ Answers(ParseAs(link, svc.plugin), "repo", r)
<1>1. v \in Names /\ r.slug \in Names
  BY UniverseFacts, HomeAssumption
<1>2. PICK page \in Seq(Segments) : page = <<"users", v, "repos", r.slug>>
  <2>1. "users" \in Segments /\ "repos" \in Segments /\ v \in Segments /\ r.slug \in Segments
    BY <1>1, WordsAreSegments DEF Words
  <2>2. PICK x \in Segments, y \in Segments : x = v /\ y = r.slug
    BY <2>1
  <2>3. <<"users", x, "repos", y>> \in Seq(Segments)
    BY <2>1, FourParts
  <2>. QED
    BY <2>2, <2>3
<1>3. link = WebLink(page, NoRef)
  BY <1>2, LinksOf
<1>4. link.host = svc.host /\ link.scheme = "https" /\ link.path = page
  BY <1>3, WebLinkParts
<1>5. PICK t \in Seq(Segments) : page \o t = page
  BY PageAlone
<1>6. link.path = <<"users", v, "repos", r.slug>> \o t
  BY <1>2, <1>4, <1>5
<1>7. PICK what : what = "repo"
  OBVIOUS
<1>8. what # "branch"
  BY <1>7
<1>9. Answers(ParseAs(link, svc.plugin), what, r)
  BY <1>4, <1>6, <1>8, UserLink
<1>. QED
  BY <1>4, <1>7, <1>9

-----------------------------------------------------------------------------
(***************************************************************************)
(* LinksComeBack: what was read from the last link is the first repository *)
(* of the file, and its links are known.                                   *)
(***************************************************************************)
LinksOK ==
    pc = "links" =>
        /\ file # <<>>
        /\ \E r \in Universe(svc) :
              /\ file[1] = ToRepositoryParams(r)
              /\ ~HasPageName(Append(r.ns, r.slug)) => Answers(at, asked, r)

\* Only a link leads to links.
LEMMA OnlyLinks ==
    ASSUME [Next]_vars, pc' = "links"
    PROVE  \/ \E reading \in Readings : Open(reading) \/ Follow(reading) \/ OpenUserPage(reading)
           \/ UNCHANGED vars
<1>1. CASE \E s \in Scopes, l \in BOOLEAN : List(s, l)
  BY <1>1 DEF List
<1>2. CASE GroupsListed
  BY <1>2 DEF GroupsListed
<1>3. CASE RepoPage
  <2>1. pc' = pc \/ pc' = "subgroups" \/ pc' \in {"repos", "failed", "listed"}
    BY <1>3 DEF RepoPage, NextNamespace
  <2>. QED
    BY <1>3, <2>1 DEF RepoPage
<1>4. CASE SubgroupsListed
  BY <1>4 DEF SubgroupsListed, NextGroup
<1>5. CASE LanguagesRead
  BY <1>5 DEF LanguagesRead
<1>6. CASE GroupDone
  BY <1>6 DEF GroupDone, NextNamespace
<1>7. CASE OwnListed
  BY <1>7 DEF OwnListed
<1>8. CASE CallFails
  BY <1>8 DEF CallFails, SkipSubgroup, SkipNamespace, FailList, SkipRepository, NextGroup, NextNamespace
<1>9. CASE Save
  BY <1>9 DEF Save
<1>10. CASE Created
  BY <1>10 DEF Created, Listing
<1>11. CASE Deleted
  BY <1>11 DEF Deleted, Listing
<1>12. CASE \E auth \in {"http", "ssh"} : Fetch(auth)
  BY <1>12 DEF Fetch
<1>13. CASE Analyse
  BY <1>13 DEF Analyse
<1>. QED
  BY <1>1, <1>2, <1>3, <1>4, <1>5, <1>6, <1>7, <1>8, <1>9, <1>10, <1>11, <1>12, <1>13 DEF Next

\* What a visit leads to, given that its link is one of the repository.
LEMMA VisitAnswers ==
    ASSUME ServiceOK, NEW r \in Universe(svc), NEW reading \in Readings, NEW link, NEW what,
           link.host = svc.host, Answers(ParseAs(link, svc.plugin), what, r), Visit(link, reading, what)
    PROVE  Answers(at', asked', r)
<1>1. ReadBy(link, reading) = ParseAs(link, svc.plugin)
  BY ReadByPlugin
<1>2. at' = ParseAs(link, svc.plugin) /\ asked' = what
  BY <1>1 DEF Visit
<1>. QED
  BY <1>2

LEMMA FirstEntry ==
    ASSUME FileOK, file # <<>>
    PROVE  \E r \in Universe(svc) : file[1] = ToRepositoryParams(r)
<1>1. PICK s \in Seq(Universe(svc)) : file = Entries(s)
  BY DEF FileOK
<1>2. Len(s) \in Nat /\ \A i \in 1 .. Len(s) : Entries(s)[i] = ToRepositoryParams(s[i]) /\ s[i] \in Universe(svc)
  BY EntriesOf
<1>3. Len(s) # 0
  <2>1. SUFFICES ASSUME Len(s) = 0 PROVE FALSE
    OBVIOUS
  <2>2. Entries(s) = <<>>
    BY <2>1 DEF Entries
  <2>. QED
    BY <1>1, <2>2
<1>4. 1 \in 1 .. Len(s)
  BY <1>2, <1>3
<1>. QED
  BY <1>1, <1>2, <1>4

LEMMA LinksStep ==
    ASSUME ListInv, FileOK, LinksOK, NEW reading \in Readings,
           Open(reading) \/ Follow(reading) \/ OpenUserPage(reading)
    PROVE  /\ file # <<>>
           /\ \E r \in Universe(svc) :
                 /\ file[1] = ToRepositoryParams(r)
                 /\ ~HasPageName(Append(r.ns, r.slug)) => Answers(at', asked', r)
<1>0. ServiceOK
  BY DEF ListInv, ListOK
<1>1. CASE Open(reading)
  <2>1. file # <<>>
    BY <1>1 DEF Open
  <2>2. PICK r \in Universe(svc) : file[1] = ToRepositoryParams(r)
    BY <2>1, FirstEntry
  <2>3. file[1].http = HttpLink(r) /\ file[1].ssh = SshLink(r)
    BY <2>2, EntryParts
  <2>4. PICK link \in {HttpLink(r), SshLink(r)} : Visit(link, reading, "repo")
    BY <1>1, <2>3 DEF Open
  <2>5. link # NoLink
    BY <2>4 DEF Visit
  <2>6. ASSUME ~HasPageName(Append(r.ns, r.slug))
        PROVE  Answers(at', asked', r)
    <3>1. link.host = svc.host /\ Answers(ParseAs(link, svc.plugin), "repo", r)
      BY <1>0, <2>4, <2>5, <2>6, OpenedAnswers
    <3>. QED
      BY <1>0, <2>4, <3>1, VisitAnswers
  <2>. QED
    BY <2>1, <2>2, <2>6
<1>2. CASE Follow(reading)
  <2>1. pc = "links"
    BY <1>2 DEF Follow
  <2>2. PICK r \in Universe(svc) :
           /\ file[1] = ToRepositoryParams(r)
           /\ ~HasPageName(Append(r.ns, r.slug)) => Answers(at, asked, r)
    BY <2>1 DEF LinksOK
  <2>3. PICK link, what : Visit(link, reading, what) /\ LinkedFrom(at, link, what)
    BY <1>2 DEF Follow, LinkedFrom, WithPullRequest
  <2>4. ASSUME ~HasPageName(Append(r.ns, r.slug))
        PROVE  Answers(at', asked', r)
    <3>1. Knows(at, r)
      BY <2>2, <2>4 DEF Answers
    <3>2. link.host = svc.host /\ Answers(ParseAs(link, svc.plugin), what, r)
      BY <1>0, <2>3, <2>4, <3>1, FollowedAnswers
    <3>. QED
      BY <1>0, <2>3, <3>2, VisitAnswers
  <2>. QED
    BY <2>1, <2>2, <2>4 DEF LinksOK
<1>3. CASE OpenUserPage(reading)
  <2>1. file # <<>> /\ svc.plugin = "bitbucket"
    BY <1>3 DEF OpenUserPage
  <2>2. PICK r \in Universe(svc) : file[1] = ToRepositoryParams(r)
    BY <2>1, FirstEntry
  <2>3. file[1].ns = r.ns /\ Slug(file[1]) = r.slug
    BY <1>0, <2>2, EntryParts, SlugOfEntry
  <2>4. PICK v \in DOMAIN Home :
           r.ns = <<Home[v]>> /\ Visit(Https(svc.host, <<"users", v, "repos", r.slug>>), reading, "repo")
    BY <1>3, <2>3 DEF OpenUserPage
  <2>5. PICK link : link = Https(svc.host, <<"users", v, "repos", r.slug>>)
    OBVIOUS
  <2>6. link.host = svc.host /\ Answers(ParseAs(link, svc.plugin), "repo", r)
    BY <1>0, <2>1, <2>4, <2>5, UserPageAnswers
  <2>7. Visit(link, reading, "repo")
    BY <2>4, <2>5
  <2>8. Answers(at', asked', r)
    BY <1>0, <2>6, <2>7, VisitAnswers
  <2>. QED
    BY <2>1, <2>2, <2>8
<1>. QED
  BY <1>1, <1>2, <1>3

LEMMA LinksNext ==
    ASSUME ListInv, FileOK, LinksOK, [Next]_vars
    PROVE  LinksOK'
<1>. SUFFICES ASSUME pc' = "links"
              PROVE  /\ file' # <<>>
                     /\ \E r \in Universe(svc') :
                           /\ file'[1] = ToRepositoryParams(r)'
                           /\ ~HasPageName(Append(r.ns, r.slug)) => Answers(at, asked, r)'
  BY DEF LinksOK, Universe
<1>1. svc' = svc
  BY SameOwner
<1>2. \A r : ToRepositoryParams(r)' = ToRepositoryParams(r)
  BY <1>1 DEF ToRepositoryParams, HttpLink, SshLink
<1>3. \A r : Answers(at', asked', r) => Answers(at, asked, r)'
  BY <1>1 DEF Answers, Knows, ReadOf, ProjectPage, WebLink, SshAt
<1>4. /\ file' = file
      /\ file # <<>>
      /\ \E r \in Universe(svc) :
            /\ file[1] = ToRepositoryParams(r)
            /\ ~HasPageName(Append(r.ns, r.slug)) => Answers(at', asked', r)
  <2>1. CASE \E reading \in Readings : Open(reading) \/ Follow(reading) \/ OpenUserPage(reading)
    BY <2>1, LinkStep, LinksStep
  <2>2. CASE UNCHANGED vars
    <3>1. pc' = pc /\ file' = file /\ at' = at /\ asked' = asked
      BY <2>2 DEF vars, useVars
    <3>. QED
      BY <3>1 DEF LinksOK
  <2>. QED
    BY <2>1, <2>2, OnlyLinks
<1>. QED
  BY <1>1, <1>2, <1>3, <1>4

\* Both names of a user's project have one owner.
LEMMA OneOwner ==
    ASSUME ServiceOK, NEW r \in Universe(svc), Knows(at, r)
    PROVE  Owner(at.ns) = Owner(r.ns) /\ at.repo = r.slug
<1>1. ASSUME NEW branch, NEW pr, NEW port,
             at = ReadOf(r.ns, r.slug, branch, pr, ProjectPage(r), SshAt(port, Append(r.ns, r.slug)))
      PROVE  Owner(at.ns) = Owner(r.ns) /\ at.repo = r.slug
  BY <1>1 DEF ReadOf
<1>2. ASSUME svc.plugin = "bitbucket", NEW v \in DOMAIN Home, r.ns = <<Home[v]>>, NEW branch, NEW pr, NEW port,
             at = ReadOf(<<"users", v>>, r.slug, branch, pr, <<"users", v, "repos", r.slug>>,
                         SshAt(port, Append(r.ns, r.slug)))
      PROVE  Owner(at.ns) = Owner(r.ns) /\ at.repo = r.slug
  <2>1. at.ns = <<"users", v>> /\ at.repo = r.slug
    BY <1>2 DEF ReadOf
  <2>2. Len(<<"users", v>>) > 1 /\ <<"users", v>>[1] = "users" /\ Tail(<<"users", v>>) = <<v>>
    <3>1. ASSUME NEW a \in Segments, NEW b \in Segments
          PROVE  Len(<<a, b>>) > 1 /\ <<a, b>>[1] = a /\ Tail(<<a, b>>) = <<b>>
      <4>1. /\ <<a, b>> \in Seq(Segments) /\ Len(<<a, b>>) = 2 /\ <<a, b>>[1] = a /\ <<a, b>>[2] = b
            /\ <<b>> \in Seq(Segments) /\ Len(<<b>>) = 1 /\ <<b>>[1] = b
        OBVIOUS
      <4>2. Tail(<<a, b>>) \in Seq(Segments) /\ Len(Tail(<<a, b>>)) = 1 /\ Tail(<<a, b>>)[1] = b
        OBVIOUS
      <4>. QED
        BY <4>1, <4>2
    <3>2. "users" \in Segments /\ v \in Segments
      BY WordsAreSegments, HomeAssumption DEF Words
    <3>. QED
      BY <3>1, <3>2
  <2>3. Owner(at.ns) = TrimHome(<<v>>)
    BY <2>1, <2>2 DEF Owner
  <2>4. Owner(r.ns) = TrimHome(<<Home[v]>>)
    <3>1. ~(Len(<<Home[v]>>) > 1)
      OBVIOUS
    <3>. QED
      BY <1>2, <3>1 DEF Owner
  <2>5. \A x, y : <<x>> = <<y>> => x = y
    <3>1. \A x, y : <<x>> = <<y>> => <<x>>[1] = <<y>>[1]
      OBVIOUS
    <3>2. \A x : <<x>>[1] = x
      OBVIOUS
    <3>. QED
      BY <3>1, <3>2
  <2>6. TrimHome(<<v>>) = <<v>>
    <3>1. ~ \E u \in DOMAIN Home : <<v>> = <<Home[u]>>
      BY <2>5, HomeAssumption
    <3>. QED
      BY <3>1 DEF TrimHome
  <2>7. TrimHome(<<Home[v]>>) = <<v>>
    <3>. DEFINE w == CHOOSE u \in DOMAIN Home : <<Home[v]>> = <<Home[u]>>
    <3>1. w \in DOMAIN Home /\ <<Home[v]>> = <<Home[w]>>
      OBVIOUS
    <3>2. TrimHome(<<Home[v]>>) = <<w>>
      BY <1>2 DEF TrimHome
    <3>. HIDE DEF w
    <3>3. w = v
      BY <2>5, <3>1, HomeAssumption
    <3>. QED
      BY <3>2, <3>3
  <2>. QED
    BY <2>1, <2>3, <2>4, <2>6, <2>7
<1>. QED
  BY <1>1, <1>2 DEF Knows

LEMMA LinksFact ==
    ASSUME ListInv, LinksOK
    PROVE  LinksComeBack
<1>. SUFFICES ASSUME pc = "links", ~HasPageName(Append(file[1].ns, Slug(file[1])))
              PROVE  /\ Owner(at.ns) = Owner(file[1].ns) /\ at.repo = Slug(file[1])
                     /\ asked = "branch" => IsSuffix(Branch, at.branch)
                     /\ asked = "pr" /\ at.ns[1] # "users" => at.pr = PrId
  BY DEF LinksComeBack
<1>1. ServiceOK
  BY DEF ListInv, ListOK
<1>2. PICK r \in Universe(svc) :
         /\ file[1] = ToRepositoryParams(r)
         /\ ~HasPageName(Append(r.ns, r.slug)) => Answers(at, asked, r)
  BY DEF LinksOK
<1>3. file[1].ns = r.ns /\ Slug(file[1]) = r.slug
  BY <1>1, <1>2, EntryParts, SlugOfEntry
<1>4. Answers(at, asked, r)
  BY <1>2, <1>3
<1>5. Owner(at.ns) = Owner(r.ns) /\ at.repo = r.slug
  BY <1>1, <1>4, OneOwner DEF Answers
<1>. QED
  BY <1>3, <1>4, <1>5 DEF Answers

\* However long one follows the links of a report, from the addresses of the
\* file or from the page of a user, one stays at the same repository, and the
\* link to a branch or to a pull request is read as one: for every service,
\* every name and slug and every length of a path.
THEOREM LinksAlwaysComeBack == Spec => []LinksComeBack
<1>1. Spec => []ListInv
  BY ListsKeepTheirCounts
<1>2. Init => FoldersOK /\ LinksOK
  <2>1. ASSUME Init PROVE FoldersOK /\ LinksOK
    <3>1. file = <<>> /\ scans = {} /\ pc = "idle"
      BY <2>1 DEF Init
    <3>2. <<>> \in Seq(Universe(svc)) /\ Entries(<<>>) = <<>>
      BY DEF Entries
    <3>. QED
      BY <3>1, <3>2 DEF FoldersOK, FileOK, LinksOK
  <2>. QED
    BY <2>1
<1>3. ListInv /\ FoldersOK /\ LinksOK /\ [Next]_vars => FoldersOK' /\ LinksOK'
  BY FoldersNext, LinksNext DEF FoldersOK
<1>4. ListInv /\ LinksOK => LinksComeBack
  BY LinksFact
<1>. QED
  BY <1>1, <1>2, <1>3, <1>4, PTL DEF Spec

=============================================================================
