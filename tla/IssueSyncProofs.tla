--------------------------- MODULE IssueSyncProofs ---------------------------
(***************************************************************************)
(* Proofs about IssueSync for every number of runs, every page size, every *)
(* report, folder and content of the repository, and any number of failing *)
(* calls, killed processes and issues closed by hand.  First what the      *)
(* correlation promises, for every set of known issues and every list of   *)
(* findings; the command is known by that.                                 *)
(***************************************************************************)
EXTENDS IssueSync, MCCorrelator, FiniteSetTheorems, TLAPS

-----------------------------------------------------------------------------
(***************************************************************************)
(* One stage.                                                              *)
(***************************************************************************)

\* A stage keeps the pairs it is given.
LEMMA StageKeeps ==
    ASSUME NEW ks, NEW ns, NEW pairs, NEW stage
    PROVE  pairs \subseteq AddStage(ks, ns, pairs, stage)
BY DEF AddStage

\* More pairs take more items.
LEMMA TakenMonotone ==
    ASSUME NEW pairs, NEW more, pairs \subseteq more
    PROVE  KnownOf(pairs) \subseteq KnownOf(more) /\ NewOf(pairs) \subseteq NewOf(more)
BY DEF KnownOf, NewOf

\* A pair takes both of its items.
LEMMA PairTakes ==
    ASSUME NEW pairs, NEW k, NEW n, <<k, n>> \in pairs
    PROVE  k \in KnownOf(pairs) /\ n \in NewOf(pairs)
<1>1. <<k, n>>[1] = k /\ <<k, n>>[2] = n
  OBVIOUS
<1>. QED
  BY <1>1 DEF KnownOf, NewOf

\* A pair added by a stage joins two free items that match at that stage.
LEMMA StageAdds ==
    ASSUME NEW ks, NEW ns, NEW pairs, NEW stage,
           NEW p \in AddStage(ks, ns, pairs, stage) \ pairs
    PROVE  /\ p = <<p[1], p[2]>>
           /\ p[1] \in DOMAIN ks \ KnownOf(pairs)
           /\ p[2] \in DOMAIN ns \ NewOf(pairs)
           /\ MatchStage(ks[p[1]], ns[p[2]], stage)
BY DEF AddStage

\* Two free items that match at a stage are joined by it.
LEMMA StageJoins ==
    ASSUME NEW ks, NEW ns, NEW pairs, NEW stage,
           NEW k \in DOMAIN ks \ KnownOf(pairs),
           NEW n \in DOMAIN ns \ NewOf(pairs),
           MatchStage(ks[k], ns[n], stage)
    PROVE  <<k, n>> \in AddStage(ks, ns, pairs, stage)
BY DEF AddStage

-----------------------------------------------------------------------------
(***************************************************************************)
(* The four stages in order.                                               *)
(***************************************************************************)

\* The pairs collected before and by each stage.
Before(ks, ns, s) ==
    CASE s = 1 -> {}
      [] s = 2 -> AfterStage1(ks, ns)
      [] s = 3 -> AfterStage2(ks, ns)
      [] s = 4 -> AfterStage3(ks, ns)

By(ks, ns, s) == AddStage(ks, ns, Before(ks, ns, s), s)

\* Each stage starts from what the one before it collected.
LEMMA StagesChain ==
    ASSUME NEW ks, NEW ns
    PROVE  /\ Before(ks, ns, 1) = {}
           /\ By(ks, ns, 1) = Before(ks, ns, 2)
           /\ By(ks, ns, 2) = Before(ks, ns, 3)
           /\ By(ks, ns, 3) = Before(ks, ns, 4)
           /\ By(ks, ns, 4) = Process(ks, ns)
BY DEF Before, By, AfterStage1, AfterStage2, AfterStage3, Process

\* Pairs are never given up.
LEMMA StagesGrow ==
    ASSUME NEW ks, NEW ns, NEW s \in Stages, NEW t \in Stages, t < s
    PROVE  /\ By(ks, ns, t) \subseteq Before(ks, ns, s)
           /\ Before(ks, ns, s) \subseteq By(ks, ns, s)
           /\ By(ks, ns, s) \subseteq Process(ks, ns)
           /\ By(ks, ns, t) \subseteq Process(ks, ns)
<1>1. \A u \in Stages : Before(ks, ns, u) \subseteq By(ks, ns, u)
  BY StageKeeps DEF By
<1>2. /\ Before(ks, ns, 2) \subseteq Before(ks, ns, 3)
      /\ Before(ks, ns, 3) \subseteq Before(ks, ns, 4)
      /\ Before(ks, ns, 4) \subseteq Process(ks, ns)
  BY <1>1, StagesChain DEF Stages
<1>3. s = 1 \/ s = 2 \/ s = 3 \/ s = 4
  BY DEF Stages
<1>4. t = 1 \/ t = 2 \/ t = 3 \/ t = 4
  BY DEF Stages
<1>. QED
  BY <1>1, <1>2, <1>3, <1>4, StagesChain

LEMMA StagesInProcess ==
    ASSUME NEW ks, NEW ns
    PROVE  /\ AfterStage1(ks, ns) \subseteq Process(ks, ns)
           /\ AfterStage2(ks, ns) \subseteq Process(ks, ns)
           /\ AfterStage3(ks, ns) \subseteq Process(ks, ns)
<1>1. /\ AfterStage1(ks, ns) \subseteq AfterStage2(ks, ns)
      /\ AfterStage2(ks, ns) \subseteq AfterStage3(ks, ns)
      /\ AfterStage3(ks, ns) \subseteq Process(ks, ns)
  BY StageKeeps DEF AfterStage2, AfterStage3, Process
<1>. QED
  BY <1>1

\* Every pair was added by one stage, whose items were free before.
LEMMA AddedByOne ==
    ASSUME NEW ks, NEW ns, NEW p \in Process(ks, ns)
    PROVE  \E s \in Stages : p \in By(ks, ns, s) \ Before(ks, ns, s)
BY StagesChain DEF Stages

\* A pair of matching items left out of a stage has an item taken before.
LEMMA TakenBefore ==
    ASSUME NEW ks, NEW ns, NEW k \in DOMAIN ks, NEW n \in DOMAIN ns,
           NEW s \in Stages, MatchStage(ks[k], ns[n], s),
           <<k, n>> \notin By(ks, ns, s)
    PROVE  k \in KnownOf(Before(ks, ns, s)) \/ n \in NewOf(Before(ks, ns, s))
BY StageJoins DEF By

\* The stage that adds a pair is the first at which its items match.
LEMMA AddedAtFirstMatch ==
    ASSUME NEW ks, NEW ns, NEW s \in Stages,
           NEW p \in By(ks, ns, s) \ Before(ks, ns, s)
    PROVE  FirstMatch(ks[p[1]], ns[p[2]], s)
<1>1. /\ p = <<p[1], p[2]>>
      /\ p[1] \in DOMAIN ks \ KnownOf(Before(ks, ns, s))
      /\ p[2] \in DOMAIN ns \ NewOf(Before(ks, ns, s))
      /\ MatchStage(ks[p[1]], ns[p[2]], s)
  BY StageAdds DEF By
<1>2. ASSUME NEW t \in 1 .. s - 1, MatchStage(ks[p[1]], ns[p[2]], t)
      PROVE  FALSE
  <2>1. t \in Stages /\ t < s
    BY DEF Stages
  <2>2. By(ks, ns, t) \subseteq Before(ks, ns, s)
    BY <2>1, StagesGrow
  <2>3. Before(ks, ns, t) \subseteq Before(ks, ns, s)
    BY <2>1, <2>2, StageKeeps DEF By
  <2>4. \/ p \in By(ks, ns, t)
        \/ p[1] \in KnownOf(Before(ks, ns, t)) \/ p[2] \in NewOf(Before(ks, ns, t))
    BY <1>1, <1>2, <2>1, TakenBefore
  <2>. QED
    BY <1>1, <2>2, <2>3, <2>4, TakenMonotone
<1>. QED
  BY <1>1, <1>2 DEF FirstMatch

-----------------------------------------------------------------------------
(***************************************************************************)
(* The promises that hold of one correlation.                              *)
(***************************************************************************)

\* No matching finding and issue are both left over.
LEMMA NoChurnHolds == ASSUME NEW ks, NEW ns PROVE NoChurn(ks, ns)
<1> SUFFICES ASSUME NEW k \in UnmatchedKnown(ks, ns), NEW n \in UnmatchedNew(ks, ns),
                    NEW s \in Stages, MatchStage(ks[k], ns[n], s)
             PROVE  FALSE
  BY DEF NoChurn, Matching
<1>1. /\ k \in DOMAIN ks /\ k \notin KnownOf(Process(ks, ns))
      /\ n \in DOMAIN ns /\ n \notin NewOf(Process(ks, ns))
  BY DEF UnmatchedKnown, UnmatchedNew
<1>2. Before(ks, ns, s) \subseteq Process(ks, ns) /\ By(ks, ns, s) \subseteq Process(ks, ns)
  BY StagesGrow, StagesChain, StageKeeps DEF By, Stages
<1>3. <<k, n>> \in By(ks, ns, s)
  BY <1>1, <1>2, TakenBefore, TakenMonotone
<1>. QED
  BY <1>1, <1>2, <1>3 DEF KnownOf

\* Only a more precise pair displaces a matching one.
LEMMA EarlierStageWinsHolds == ASSUME NEW ks, NEW ns PROVE EarlierStageWins(ks, ns)
<1> SUFFICES ASSUME NEW k \in DOMAIN ks, NEW n \in DOMAIN ns, NEW s \in Stages,
                    MatchStage(ks[k], ns[n], s), <<k, n>> \notin Process(ks, ns)
             PROVE  \E p \in Process(ks, ns), t \in 1 .. s - 1 :
                       /\ p[1] = k \/ p[2] = n
                       /\ FirstMatch(ks[p[1]], ns[p[2]], t)
  BY DEF EarlierStageWins
<1>1. Before(ks, ns, s) \subseteq Process(ks, ns) /\ By(ks, ns, s) \subseteq Process(ks, ns)
  BY StagesGrow, StagesChain, StageKeeps DEF By, Stages
<1>2. PICK p \in Before(ks, ns, s) : p[1] = k \/ p[2] = n
  BY <1>1, TakenBefore DEF KnownOf, NewOf
<1>3. PICK t \in 1 .. s - 1 : p \in By(ks, ns, t) \ Before(ks, ns, t)
  <2>1. s = 1 \/ s = 2 \/ s = 3 \/ s = 4
    BY DEF Stages
  <2>. QED
    BY <1>2, <2>1, StagesChain
<1>4. FirstMatch(ks[p[1]], ns[p[2]], t)
  BY <1>3, AddedAtFirstMatch DEF Stages
<1>. QED
  BY <1>1, <1>2, <1>3, <1>4

\* All the partners of an item were found by the same stage.
LEMMA OneStagePerItemHolds == ASSUME NEW ks, NEW ns PROVE OneStagePerItem(ks, ns)
<1> SUFFICES ASSUME NEW p \in Process(ks, ns), NEW q \in Process(ks, ns),
                    p[1] = q[1] \/ p[2] = q[2]
             PROVE  \E s \in Stages : /\ FirstMatch(ks[p[1]], ns[p[2]], s)
                                      /\ FirstMatch(ks[q[1]], ns[q[2]], s)
  BY DEF OneStagePerItem
<1>1. PICK s \in Stages : p \in By(ks, ns, s) \ Before(ks, ns, s)
  BY AddedByOne
<1>2. PICK t \in Stages : q \in By(ks, ns, t) \ Before(ks, ns, t)
  BY AddedByOne
<1>3. ASSUME NEW u \in Stages, NEW v \in Stages, u < v,
             NEW a \in By(ks, ns, u), NEW b \in By(ks, ns, v) \ Before(ks, ns, v)
      PROVE  a[1] # b[1] /\ a[2] # b[2]
  <2>1. a \in Before(ks, ns, v)
    BY <1>3, StagesGrow
  <2>2. b[1] \notin KnownOf(Before(ks, ns, v)) /\ b[2] \notin NewOf(Before(ks, ns, v))
    BY StageAdds DEF By
  <2>. QED
    BY <2>1, <2>2 DEF KnownOf, NewOf
<1>4. s = t
  <2>1. s \in Nat /\ t \in Nat
    BY DEF Stages
  <2>. QED
    BY <1>1, <1>2, <1>3, <2>1
<1>. QED
  BY <1>1, <1>2, <1>4, AddedAtFirstMatch

-----------------------------------------------------------------------------
(***************************************************************************)
(* Idempotence.  The second correlation repeats the first one, except that *)
(* the findings opened as issues meet their own copies at stage 1.         *)
(***************************************************************************)

\* A pair of the first correlation, with the issue's name in the second.
Kept(pairs) == { <<<<p[1], "kept">>, p[2]>> : p \in pairs }

\* The pairs of the second one that join the copies of opened findings.
Copies(ks, ns) ==
    { p \in (UnmatchedNew(ks, ns) \X {"opened"}) \X (DOMAIN ns) :
        MatchStage(NextKnown(ks, ns)[p[1]], ns[p[2]], 1) }

\* Which issues the second correlation starts from, and their metadata.
LEMMA NextKnownNames ==
    ASSUME NEW ks, NEW ns
    PROVE  /\ \A k \in DOMAIN ks \ UnmatchedKnown(ks, ns) :
                 <<k, "kept">> \in DOMAIN NextKnown(ks, ns)
           /\ UnmatchedNew(ks, ns) \X {"opened"} \subseteq DOMAIN NextKnown(ks, ns)
           /\ \A a \in DOMAIN NextKnown(ks, ns) :
                 \/ \E k \in DOMAIN ks \ UnmatchedKnown(ks, ns) : a = <<k, "kept">>
                 \/ a \in UnmatchedNew(ks, ns) \X {"opened"}
<1>1. DOMAIN NextKnown(ks, ns)
        = ((DOMAIN ks \ UnmatchedKnown(ks, ns)) \X {"kept"})
          \cup (UnmatchedNew(ks, ns) \X {"opened"})
  BY DEF NextKnown
<1>. QED
  BY <1>1

LEMMA NextKnownKept ==
    ASSUME NEW ks, NEW ns, NEW k \in DOMAIN ks \ UnmatchedKnown(ks, ns)
    PROVE  NextKnown(ks, ns)[<<k, "kept">>] = ks[k]
BY DEF NextKnown

LEMMA NextKnownOpened ==
    ASSUME NEW ks, NEW ns, NEW n \in UnmatchedNew(ks, ns)
    PROVE  NextKnown(ks, ns)[<<n, "opened">>] = ns[n]
BY DEF NextKnown

\* Matching at stage 1 is symmetric and transitive.
LEMMA StageOneEquivalence ==
    ASSUME NEW a, NEW b, NEW c, MatchStage(a, b, 1)
    PROVE  /\ MatchStage(b, a, 1)
           /\ \A s \in Stages : MatchStage(c, b, s) => MatchStage(c, a, s)
<1>1. /\ SameRuleInFile(a, b) /\ a.start = b.start /\ a.end = b.end /\ a.hash = b.hash
  BY DEF MatchStage, SameRange
<1>2. /\ a.scanner = b.scanner /\ a.rule = b.rule /\ a.file = b.file
      /\ a.scanner # "" /\ a.rule # ""
  BY <1>1 DEF SameRuleInFile
<1>3. MatchStage(b, a, 1)
  BY <1>1, <1>2 DEF MatchStage, SameRuleInFile, SameRange
<1>4. ASSUME NEW s \in Stages, MatchStage(c, b, s) PROVE MatchStage(c, a, s)
  <2>1. SameRuleInFile(c, a)
    BY <1>2, <1>4 DEF MatchStage, SameRuleInFile
  <2>2. SameRange(c, b) => SameRange(c, a)
    BY <1>1 DEF SameRange
  <2>. QED
    BY <1>1, <1>4, <2>1, <2>2 DEF MatchStage
<1>. QED
  BY <1>3, <1>4

\* An item left over by the first correlation matches nothing at stage 1 but
\* other items left over: its match would have been joined at stage 1.
LEMMA CopiesAreLeftOver ==
    ASSUME NEW ks, NEW ns
    PROVE  NewOf(Copies(ks, ns)) \subseteq UnmatchedNew(ks, ns)
<1> SUFFICES ASSUME NEW n \in UnmatchedNew(ks, ns), NEW m \in DOMAIN ns,
                    MatchStage(NextKnown(ks, ns)[<<n, "opened">>], ns[m], 1)
             PROVE  m \in UnmatchedNew(ks, ns)
  BY DEF Copies, NewOf
<1>1. MatchStage(ns[n], ns[m], 1)
  <2>1. NextKnown(ks, ns)[<<n, "opened">>] = ns[n]
    BY NextKnownOpened
  <2>. QED
    BY <2>1
<1>2. SUFFICES ASSUME NEW p \in Process(ks, ns), p[2] = m PROVE FALSE
  BY DEF UnmatchedNew, NewOf
<1>3. PICK s \in Stages : p \in By(ks, ns, s) \ Before(ks, ns, s)
  BY AddedByOne
<1>4. /\ p[1] \in DOMAIN ks \ KnownOf(Before(ks, ns, s))
      /\ MatchStage(ks[p[1]], ns[m], s)
  BY <1>2, <1>3, StageAdds DEF By
<1>5. MatchStage(ks[p[1]], ns[n], s)
  BY <1>1, <1>4, StageOneEquivalence
<1>6. n \in DOMAIN ns /\ n \notin NewOf(Process(ks, ns))
  BY DEF UnmatchedNew
<1>7. Before(ks, ns, s) \subseteq Process(ks, ns) /\ By(ks, ns, s) \subseteq Process(ks, ns)
  BY StagesGrow, StagesChain, StageKeeps DEF By, Stages
<1>8. <<p[1], n>> \in By(ks, ns, s)
  BY <1>4, <1>5, <1>6, <1>7, TakenBefore, TakenMonotone
<1>. QED
  BY <1>6, <1>7, <1>8 DEF NewOf

\* With every finding named, each opened finding meets its own copy.
LEMMA CopiesCover ==
    ASSUME NEW ks, NEW ns, AllNamed(ns)
    PROVE  /\ NewOf(Copies(ks, ns)) = UnmatchedNew(ks, ns)
           /\ KnownOf(Copies(ks, ns)) = UnmatchedNew(ks, ns) \X {"opened"}
<1>1. ASSUME NEW n \in UnmatchedNew(ks, ns)
      PROVE  <<<<n, "opened">>, n>> \in Copies(ks, ns)
  <2>1. NextKnown(ks, ns)[<<n, "opened">>] = ns[n]
    BY NextKnownOpened
  <2>2. n \in DOMAIN ns
    BY DEF UnmatchedNew
  <2>3. MatchStage(ns[n], ns[n], 1)
    BY <2>2 DEF AllNamed, MatchStage, SameRuleInFile, SameRange
  <2>. QED
    BY <2>1, <2>2, <2>3 DEF Copies
<1>2. UnmatchedNew(ks, ns) \subseteq NewOf(Copies(ks, ns))
  BY <1>1, PairTakes
<1>3. UnmatchedNew(ks, ns) \X {"opened"} \subseteq KnownOf(Copies(ks, ns))
  <2>1. \A n \in UnmatchedNew(ks, ns) : <<n, "opened">> \in KnownOf(Copies(ks, ns))
    BY <1>1, PairTakes
  <2>. QED
    BY <2>1
<1>4. KnownOf(Copies(ks, ns)) \subseteq UnmatchedNew(ks, ns) \X {"opened"}
  BY DEF KnownOf, Copies
<1>. QED
  BY <1>2, <1>3, <1>4, CopiesAreLeftOver

\* Items taken in the second correlation, given those taken in the first.
LEMMA TakenAgain ==
    ASSUME NEW ks, NEW ns, AllNamed(ns), NEW pairs
    PROVE  /\ \A k : <<k, "kept">> \in KnownOf(Kept(pairs) \cup Copies(ks, ns))
                    <=> k \in KnownOf(pairs)
           /\ NewOf(Kept(pairs) \cup Copies(ks, ns))
                = NewOf(pairs) \cup UnmatchedNew(ks, ns)
           /\ UnmatchedNew(ks, ns) \X {"opened"}
                \subseteq KnownOf(Kept(pairs) \cup Copies(ks, ns))
<1>1. /\ KnownOf(Kept(pairs) \cup Copies(ks, ns))
            = KnownOf(Kept(pairs)) \cup (UnmatchedNew(ks, ns) \X {"opened"})
      /\ NewOf(Kept(pairs) \cup Copies(ks, ns))
            = NewOf(Kept(pairs)) \cup UnmatchedNew(ks, ns)
  BY CopiesCover DEF KnownOf, NewOf
<1>2. /\ \A p \in pairs : <<<<p[1], "kept">>, p[2]>> \in Kept(pairs)
      /\ \A q \in Kept(pairs) : \E p \in pairs : q = <<<<p[1], "kept">>, p[2]>>
  BY DEF Kept
<1>3. \A k : <<k, "kept">> \in KnownOf(Kept(pairs)) <=> k \in KnownOf(pairs)
  <2>1. ASSUME NEW k, k \in KnownOf(pairs) PROVE <<k, "kept">> \in KnownOf(Kept(pairs))
    <3>1. PICK p \in pairs : k = p[1]
      BY <2>1 DEF KnownOf
    <3>. QED
      BY <1>2, <3>1, PairTakes
  <2>2. ASSUME NEW k, <<k, "kept">> \in KnownOf(Kept(pairs)) PROVE k \in KnownOf(pairs)
    <3>1. PICK q \in Kept(pairs) : <<k, "kept">> = q[1]
      BY <2>2 DEF KnownOf
    <3>2. PICK p \in pairs : q = <<<<p[1], "kept">>, p[2]>>
      BY <1>2
    <3>3. k = p[1]
      BY <3>1, <3>2
    <3>. QED
      BY <3>3 DEF KnownOf
  <2>. QED
    BY <2>1, <2>2
<1>4. NewOf(Kept(pairs)) = NewOf(pairs)
  <2>1. NewOf(Kept(pairs)) \subseteq NewOf(pairs)
    BY <1>2 DEF NewOf
  <2>2. NewOf(pairs) \subseteq NewOf(Kept(pairs))
    <3>1. ASSUME NEW p \in pairs PROVE p[2] \in NewOf(Kept(pairs))
      BY <1>2, PairTakes
    <3>. QED
      BY <3>1 DEF NewOf
  <2>. QED
    BY <2>1, <2>2
<1>. QED
  BY <1>1, <1>3, <1>4

\* Only the items left over by the first correlation are not kept.
LEMMA ProcessTakes ==
    ASSUME NEW ks, NEW ns, NEW p \in Process(ks, ns)
    PROVE  /\ p = <<p[1], p[2]>>
           /\ p[1] \in DOMAIN ks \ UnmatchedKnown(ks, ns)
           /\ p[2] \in DOMAIN ns /\ p[2] \notin UnmatchedNew(ks, ns)
<1>1. PICK s \in Stages : p \in By(ks, ns, s) \ Before(ks, ns, s)
  BY AddedByOne
<1>2. p = <<p[1], p[2]>> /\ p[1] \in DOMAIN ks /\ p[2] \in DOMAIN ns
  BY <1>1, StageAdds DEF By
<1>3. p[1] \in KnownOf(Process(ks, ns)) /\ p[2] \in NewOf(Process(ks, ns))
  BY <1>2, PairTakes
<1>. QED
  BY <1>2, <1>3 DEF UnmatchedKnown, UnmatchedNew

\* What a kept issue is matched with depends on its metadata only.
LEMMA StageRepeats ==
    ASSUME NEW ks, NEW ns, AllNamed(ns), NEW pairs, NEW s,
           AddStage(ks, ns, pairs, s) \subseteq Process(ks, ns)
    PROVE  AddStage(NextKnown(ks, ns), ns, Kept(pairs) \cup Copies(ks, ns), s)
             = Kept(AddStage(ks, ns, pairs, s)) \cup Copies(ks, ns)
<1> DEFINE again == NextKnown(ks, ns)
           first == Kept(pairs) \cup Copies(ks, ns)
           grown == AddStage(ks, ns, pairs, s)
<1>1. first \subseteq AddStage(again, ns, first, s)
  BY StageKeeps
<1>2. pairs \subseteq grown
  BY StageKeeps
<1>3. first \subseteq Kept(grown) \cup Copies(ks, ns)
  BY <1>2 DEF Kept
<1>4. ASSUME NEW q \in AddStage(again, ns, first, s) \ first
      PROVE  q \in Kept(grown)
  <2>1. /\ q = <<q[1], q[2]>>
        /\ q[1] \in DOMAIN again /\ q[1] \notin KnownOf(first)
        /\ q[2] \in DOMAIN ns /\ q[2] \notin NewOf(first)
        /\ MatchStage(again[q[1]], ns[q[2]], s)
    BY StageAdds
  <2>2. q[1] \notin UnmatchedNew(ks, ns) \X {"opened"}
    BY <2>1, TakenAgain
  <2>3. PICK k \in DOMAIN ks \ UnmatchedKnown(ks, ns) : q[1] = <<k, "kept">>
    BY <2>1, <2>2, NextKnownNames
  <2>4. k \notin KnownOf(pairs) /\ q[2] \notin NewOf(pairs)
    BY <2>1, <2>3, TakenAgain
  <2>5. MatchStage(ks[k], ns[q[2]], s)
    BY <2>1, <2>3, NextKnownKept
  <2>6. <<k, q[2]>> \in grown
    BY <2>1, <2>4, <2>5, StageJoins
  <2>. QED
    BY <2>1, <2>3, <2>6 DEF Kept
<1>5. ASSUME NEW p \in grown \ pairs
      PROVE  <<<<p[1], "kept">>, p[2]>> \in AddStage(again, ns, first, s)
  <2>1. /\ p[1] \in DOMAIN ks /\ p[1] \notin KnownOf(pairs)
        /\ p[2] \in DOMAIN ns /\ p[2] \notin NewOf(pairs)
        /\ MatchStage(ks[p[1]], ns[p[2]], s)
    BY StageAdds
  <2>2. p[1] \in DOMAIN ks \ UnmatchedKnown(ks, ns) /\ p[2] \notin UnmatchedNew(ks, ns)
    BY ProcessTakes
  <2>3. <<p[1], "kept">> \in DOMAIN again /\ again[<<p[1], "kept">>] = ks[p[1]]
    BY <2>2, NextKnownNames, NextKnownKept
  <2>4. <<p[1], "kept">> \notin KnownOf(first)
    BY <2>1, TakenAgain
  <2>5. p[2] \notin NewOf(first)
    <3>1. NewOf(first) = NewOf(pairs) \cup UnmatchedNew(ks, ns)
      BY TakenAgain
    <3>. QED
      BY <2>1, <2>2, <3>1
  <2>. QED
    BY <2>1, <2>3, <2>4, <2>5, StageJoins
<1>6. Kept(grown) \subseteq AddStage(again, ns, first, s)
  <2>1. ASSUME NEW p \in pairs PROVE <<<<p[1], "kept">>, p[2]>> \in first
    BY DEF Kept
  <2>. QED
    BY <1>1, <1>5, <2>1 DEF Kept
<1>. QED
  BY <1>1, <1>3, <1>4, <1>6

\* Stage 1 of the second correlation finds the copies as well.
LEMMA FirstStageRepeats ==
    ASSUME NEW ks, NEW ns
    PROVE  AfterStage1(NextKnown(ks, ns), ns)
             = Kept(AfterStage1(ks, ns)) \cup Copies(ks, ns)
<1> DEFINE again == NextKnown(ks, ns)
           first == AfterStage1(ks, ns)
<1>1. KnownOf({}) = {} /\ NewOf({}) = {}
  BY DEF KnownOf, NewOf
<1>2. first \subseteq Process(ks, ns)
  BY StagesInProcess
<1>3. ASSUME NEW q \in AfterStage1(again, ns)
      PROVE  q \in Kept(first) \cup Copies(ks, ns)
  <2>1. /\ q = <<q[1], q[2]>> /\ q[1] \in DOMAIN again /\ q[2] \in DOMAIN ns
        /\ MatchStage(again[q[1]], ns[q[2]], 1)
    BY StageAdds DEF AfterStage1
  <2>2. CASE q[1] \in UnmatchedNew(ks, ns) \X {"opened"}
    BY <2>1, <2>2 DEF Copies
  <2>3. CASE q[1] \notin UnmatchedNew(ks, ns) \X {"opened"}
    <3>1. PICK k \in DOMAIN ks \ UnmatchedKnown(ks, ns) : q[1] = <<k, "kept">>
      BY <2>1, <2>3, NextKnownNames
    <3>2. MatchStage(ks[k], ns[q[2]], 1)
      BY <2>1, <3>1, NextKnownKept
    <3>3. <<k, q[2]>> \in first
      BY <1>1, <2>1, <3>2, StageJoins DEF AfterStage1
    <3>. QED
      BY <2>1, <3>1, <3>3 DEF Kept
  <2>. QED
    BY <2>2, <2>3
<1>4. ASSUME NEW p \in first
      PROVE  <<<<p[1], "kept">>, p[2]>> \in AfterStage1(again, ns)
  <2>1. p[2] \in DOMAIN ns /\ MatchStage(ks[p[1]], ns[p[2]], 1)
    BY StageAdds DEF AfterStage1
  <2>2. p[1] \in DOMAIN ks \ UnmatchedKnown(ks, ns)
    BY <1>2, ProcessTakes
  <2>3. <<p[1], "kept">> \in DOMAIN again /\ again[<<p[1], "kept">>] = ks[p[1]]
    BY <2>2, NextKnownNames, NextKnownKept
  <2>. QED
    BY <1>1, <2>1, <2>3, StageJoins DEF AfterStage1
<1>5. ASSUME NEW q \in Copies(ks, ns) PROVE q \in AfterStage1(again, ns)
  <2>1. /\ q = <<q[1], q[2]>> /\ q[1] \in UnmatchedNew(ks, ns) \X {"opened"}
        /\ q[2] \in DOMAIN ns /\ MatchStage(again[q[1]], ns[q[2]], 1)
    BY DEF Copies
  <2>2. q[1] \in DOMAIN again
    BY <2>1, NextKnownNames
  <2>. QED
    BY <1>1, <2>1, <2>2, StageJoins DEF AfterStage1
<1>. QED
  BY <1>3, <1>4, <1>5 DEF Kept

\* The second correlation leaves nothing over.
LEMMA RescanIsIdleHolds == ASSUME NEW ks, NEW ns PROVE RescanIsIdle(ks, ns)
<1> DEFINE again == NextKnown(ks, ns)
<1> SUFFICES ASSUME AllNamed(ns)
             PROVE  UnmatchedNew(again, ns) = {} /\ UnmatchedKnown(again, ns) = {}
  BY DEF RescanIsIdle
<1>1. /\ AfterStage2(ks, ns) \subseteq Process(ks, ns)
      /\ AfterStage3(ks, ns) \subseteq Process(ks, ns)
  BY StagesInProcess
<1>2. AfterStage2(again, ns) = Kept(AfterStage2(ks, ns)) \cup Copies(ks, ns)
  BY <1>1, FirstStageRepeats, StageRepeats DEF AfterStage2
<1>3. AfterStage3(again, ns) = Kept(AfterStage3(ks, ns)) \cup Copies(ks, ns)
  BY <1>1, <1>2, StageRepeats DEF AfterStage3
<1>4. Process(again, ns) = Kept(Process(ks, ns)) \cup Copies(ks, ns)
  BY <1>3, StageRepeats DEF Process
<1>5. UnmatchedNew(again, ns) = {}
  <2>1. NewOf(Process(again, ns)) = NewOf(Process(ks, ns)) \cup UnmatchedNew(ks, ns)
    BY <1>4, TakenAgain
  <2>. QED
    BY <2>1 DEF UnmatchedNew
<1>6. ASSUME NEW a \in DOMAIN again PROVE a \in KnownOf(Process(again, ns))
  <2>1. CASE a \in UnmatchedNew(ks, ns) \X {"opened"}
    BY <1>4, <2>1, TakenAgain
  <2>2. CASE a \notin UnmatchedNew(ks, ns) \X {"opened"}
    <3>1. PICK k \in DOMAIN ks \ UnmatchedKnown(ks, ns) : a = <<k, "kept">>
      BY <2>2, NextKnownNames
    <3>2. k \in KnownOf(Process(ks, ns))
      BY DEF UnmatchedKnown
    <3>. QED
      BY <1>4, <3>1, <3>2, TakenAgain
  <2>. QED
    BY <2>1, <2>2
<1>. QED
  BY <1>5, <1>6 DEF UnmatchedKnown

-----------------------------------------------------------------------------
(***************************************************************************)
(* The correlation reads the metadata of the known issues, not their keys: *)
(* repositories whose issues have the same metadata, in whatever number    *)
(* and order, leave the same over.                                         *)
(***************************************************************************)

SameMetadata(ks, ls) == { ks[k] : k \in DOMAIN ks } = { ls[l] : l \in DOMAIN ls }

\* Two collections of pairs have taken the same findings and the same metadata.
TakenAlike(ks, ls, ps, qs) ==
    /\ NewOf(ps) = NewOf(qs)
    /\ \A k \in DOMAIN ks, l \in DOMAIN ls :
          ks[k] = ls[l] => (k \in KnownOf(ps) <=> l \in KnownOf(qs))

\* What a stage takes on both sides.
LEMMA StageTakes ==
    ASSUME NEW ks, NEW ns, NEW pairs, NEW stage
    PROVE  /\ NewOf(AddStage(ks, ns, pairs, stage)) = NewOf(pairs) \cup
                  { n \in DOMAIN ns \ NewOf(pairs) :
                       \E k \in DOMAIN ks \ KnownOf(pairs) : MatchStage(ks[k], ns[n], stage) }
           /\ KnownOf(AddStage(ks, ns, pairs, stage)) = KnownOf(pairs) \cup
                  { k \in DOMAIN ks \ KnownOf(pairs) :
                       \E n \in DOMAIN ns \ NewOf(pairs) : MatchStage(ks[k], ns[n], stage) }
<1> DEFINE after == AddStage(ks, ns, pairs, stage)
<1>1. ASSUME NEW k \in DOMAIN ks \ KnownOf(pairs), NEW n \in DOMAIN ns \ NewOf(pairs),
             MatchStage(ks[k], ns[n], stage)
      PROVE  k \in KnownOf(after) /\ n \in NewOf(after)
  <2>1. <<k, n>> \in after
    BY <1>1, StageJoins
  <2>. QED
    BY <2>1, PairTakes
<1>2. KnownOf(pairs) \subseteq KnownOf(after) /\ NewOf(pairs) \subseteq NewOf(after)
  BY StageKeeps, TakenMonotone
<1>3. ASSUME NEW p \in after
      PROVE  \/ p \in pairs
             \/ /\ p[1] \in DOMAIN ks \ KnownOf(pairs) /\ p[2] \in DOMAIN ns \ NewOf(pairs)
                /\ MatchStage(ks[p[1]], ns[p[2]], stage)
  BY StageAdds
<1>4. \A p \in pairs : p[1] \in KnownOf(pairs) /\ p[2] \in NewOf(pairs)
  BY DEF KnownOf, NewOf
<1> HIDE DEF after
<1>5. \A k \in KnownOf(after) : \E p \in after : p[1] = k
  BY DEF KnownOf
<1>6. \A n \in NewOf(after) : \E p \in after : p[2] = n
  BY DEF NewOf
<1>7. NewOf(after) = NewOf(pairs) \cup
          { n \in DOMAIN ns \ NewOf(pairs) :
               \E k \in DOMAIN ks \ KnownOf(pairs) : MatchStage(ks[k], ns[n], stage) }
  BY <1>1, <1>2, <1>3, <1>4, <1>6
<1>8. KnownOf(after) = KnownOf(pairs) \cup
          { k \in DOMAIN ks \ KnownOf(pairs) :
               \E n \in DOMAIN ns \ NewOf(pairs) : MatchStage(ks[k], ns[n], stage) }
  BY <1>1, <1>2, <1>3, <1>4, <1>5
<1>. QED
  BY <1>7, <1>8 DEF after

\* A stage keeps the likeness: what is free is alike, so what it matches is.
LEMMA StageTakesAlike ==
    ASSUME NEW ks, NEW ls, NEW ns, NEW ps, NEW qs, NEW stage,
           SameMetadata(ks, ls), TakenAlike(ks, ls, ps, qs)
    PROVE  TakenAlike(ks, ls, AddStage(ks, ns, ps, stage), AddStage(ls, ns, qs, stage))
<1>1. \A k \in DOMAIN ks : \E l \in DOMAIN ls : ks[k] = ls[l]
  BY DEF SameMetadata
<1>2. \A l \in DOMAIN ls : \E k \in DOMAIN ks : ks[k] = ls[l]
  BY DEF SameMetadata
<1>3. /\ NewOf(ps) = NewOf(qs)
      /\ \A k \in DOMAIN ks, l \in DOMAIN ls :
            ks[k] = ls[l] => (k \in KnownOf(ps) <=> l \in KnownOf(qs))
  BY DEF TakenAlike
<1>4. ASSUME NEW n
      PROVE  (\E k \in DOMAIN ks \ KnownOf(ps) : MatchStage(ks[k], ns[n], stage))
                <=> (\E l \in DOMAIN ls \ KnownOf(qs) : MatchStage(ls[l], ns[n], stage))
  BY <1>1, <1>2, <1>3
<1>5. NewOf(AddStage(ks, ns, ps, stage)) = NewOf(AddStage(ls, ns, qs, stage))
  <2>1. { n \in DOMAIN ns \ NewOf(ps) :
             \E k \in DOMAIN ks \ KnownOf(ps) : MatchStage(ks[k], ns[n], stage) }
          = { n \in DOMAIN ns \ NewOf(qs) :
                 \E l \in DOMAIN ls \ KnownOf(qs) : MatchStage(ls[l], ns[n], stage) }
    BY <1>3, <1>4
  <2>2. NewOf(AddStage(ks, ns, ps, stage)) = NewOf(ps) \cup
          { n \in DOMAIN ns \ NewOf(ps) :
             \E k \in DOMAIN ks \ KnownOf(ps) : MatchStage(ks[k], ns[n], stage) }
    BY StageTakes
  <2>3. NewOf(AddStage(ls, ns, qs, stage)) = NewOf(qs) \cup
          { n \in DOMAIN ns \ NewOf(qs) :
                 \E l \in DOMAIN ls \ KnownOf(qs) : MatchStage(ls[l], ns[n], stage) }
    BY StageTakes
  <2>. QED
    BY <1>3, <2>1, <2>2, <2>3
<1>6. ASSUME NEW k \in DOMAIN ks, NEW l \in DOMAIN ls, ks[k] = ls[l]
      PROVE  k \in KnownOf(AddStage(ks, ns, ps, stage))
                <=> l \in KnownOf(AddStage(ls, ns, qs, stage))
  BY <1>3, <1>6, StageTakes
<1>. QED
  BY <1>5, <1>6 DEF TakenAlike

LEMMA LeftOverAlike ==
    ASSUME NEW ks, NEW ls, NEW ns, SameMetadata(ks, ls)
    PROVE  /\ UnmatchedNew(ks, ns) = UnmatchedNew(ls, ns)
           /\ UnmatchedKnown(ks, ns) = {} <=> UnmatchedKnown(ls, ns) = {}
<1>0. TakenAlike(ks, ls, {}, {})
  BY DEF TakenAlike, KnownOf, NewOf
<1>1. TakenAlike(ks, ls, AfterStage1(ks, ns), AfterStage1(ls, ns))
  BY <1>0, StageTakesAlike DEF AfterStage1
<1>2. TakenAlike(ks, ls, AfterStage2(ks, ns), AfterStage2(ls, ns))
  BY <1>1, StageTakesAlike DEF AfterStage2
<1>3. TakenAlike(ks, ls, AfterStage3(ks, ns), AfterStage3(ls, ns))
  BY <1>2, StageTakesAlike DEF AfterStage3
<1>4. TakenAlike(ks, ls, Process(ks, ns), Process(ls, ns))
  BY <1>3, StageTakesAlike DEF Process
<1>5. UnmatchedNew(ks, ns) = UnmatchedNew(ls, ns)
  BY <1>4 DEF UnmatchedNew, TakenAlike
<1>6. UnmatchedKnown(ks, ns) = {} <=> UnmatchedKnown(ls, ns) = {}
  BY <1>4 DEF UnmatchedKnown, TakenAlike, SameMetadata
<1>. QED
  BY <1>5, <1>6

-----------------------------------------------------------------------------
(***************************************************************************)
(* The theorems, for every content of the repository and every report.     *)
(***************************************************************************)

(***************************************************************************)
(* A synchronisation never closes an issue and opens its replacement: what *)
(* matches at some stage is not left over on both sides, however many      *)
(* other items compete for it.                                             *)
(***************************************************************************)
THEOREM NoChurnAlways == TwiceSpec => []NoChurnInv
<1>1. NoChurnInv
  BY NoChurnHolds DEF NoChurnInv
<1>. QED
  BY <1>1, PTL

(***************************************************************************)
(* A matching pair is passed over only for a strictly more precise one.    *)
(***************************************************************************)
THEOREM EarlierStageAlwaysWins == TwiceSpec => []EarlierStageWinsInv
<1>1. EarlierStageWinsInv
  BY EarlierStageWinsHolds DEF EarlierStageWinsInv
<1>. QED
  BY <1>1, PTL

(***************************************************************************)
(* An item's partners all match it at one and the same stage.              *)
(***************************************************************************)
THEOREM OneStageAlways == TwiceSpec => []OneStagePerItemInv
<1>1. OneStagePerItemInv
  BY OneStagePerItemHolds DEF OneStagePerItemInv
<1>. QED
  BY <1>1, PTL

(***************************************************************************)
(* Synchronising the same named findings twice changes nothing the second  *)
(* time: the opened copies are matched exactly, so they take no partner    *)
(* from the issues that were kept, whose matches repeat stage by stage.    *)
(***************************************************************************)
THEOREM RescanAlwaysIdle == TwiceSpec => []RescanIsIdleInv
<1>1. RescanIsIdleInv
  BY RescanIsIdleHolds DEF RescanIsIdleInv
<1>. QED
  BY <1>1, PTL


-----------------------------------------------------------------------------
(***************************************************************************)
(* Findings.                                                               *)
(***************************************************************************)

\* The findings of a run are numbered metadata, and so is what is read back.
LEMMA FindingsTyped ==
    ASSUME input \in Inputs, NEW r \in Runs
    PROVE  /\ DOMAIN NewIssues(input[r]) \subseteq Nat
           /\ \A i \in DOMAIN NewIssues(input[r]) :
                 /\ NewIssues(input[r])[i] \in Metadata
                 /\ AsParsed(NewIssues(input[r])[i]) \in Metadata
                 /\ NewIssues(input[r])[i].rule # "" /\ NewIssues(input[r])[i].file # ""
<1> DEFINE read == ResultsRead(input[r])
           kept == { i \in DOMAIN read : Reported(input[r], read[i]) }
<1>1. DOMAIN read = DOMAIN input[r].results
  BY DEF ResultsRead
<1>2. \A i \in DOMAIN input[r].results :
          /\ i \in Nat
          /\ FindingOf(read[i]) \in Metadata
          /\ AsParsed(FindingOf(read[i])) \in Metadata
  BY InputsAssumption DEF ResultsRead
<1>3. NewIssues(input[r]) = [i \in kept |-> FindingOf(read[i])]
  BY DEF NewIssues
<1>4. ASSUME NEW i \in kept
      PROVE  FindingOf(read[i]).rule # "" /\ FindingOf(read[i]).file # ""
  BY DEF FindingOf, Reported, Unknown
<1> HIDE DEF read, kept
<1>5. DOMAIN NewIssues(input[r]) = kept /\ \A i \in kept : NewIssues(input[r])[i] = FindingOf(read[i])
  BY <1>3
<1>6. kept \subseteq DOMAIN read
  BY DEF kept
<1>. QED
  BY <1>1, <1>2, <1>4, <1>5, <1>6

-----------------------------------------------------------------------------
(***************************************************************************)
(* The inductive invariant.  Everything is said of one run r; the steps of *)
(* the other runs and of people are what it has to survive.                *)
(***************************************************************************)

\* The findings of a run, and the issues it correlates them with.
Findings(r) == NewIssues(input[r])
Known(r)    == KnownIssues(listed[r], input[r].scope)

\* The positions and numbers that its correlation leaves over.
LeftNew(r)   == UnmatchedNew(Known(r), Findings(r))
LeftKnown(r) == UnmatchedKnown(Known(r), Findings(r))

Scoped(n, r) == InScope(issues[n].meta, input[r].scope)

\* What a run holds in memory at each point.
Local(r) ==
    /\ pc[r] = "idle" => listed[r] = {} /\ page[r] = 1
    /\ pc[r] \in {"idle", "list", "process"} => toCreate[r] = {} /\ toClose[r] = {}
    /\ pc[r] = "done" => toCreate[r] = {} /\ toClose[r] = {}
    /\ current[r] # 0 => toCreate[r] = {} /\ ~input[r].dry
    /\ toCreate[r] \subseteq LeftNew(r)
    /\ toClose[r] \subseteq LeftKnown(r)

\* An issue it has seen exists, and was fit to be listed but for its state.
Seen(r) ==
    /\ \A n \in listed[r] :
          issues[n].state # "none" /\ issues[n].managed /\ ~issues[n].pr
    /\ \A n \in atListing[r] : issues[n].state # "none"

\* Pagination: what the pages so far have covered.
Paged(r) ==
    noClosing[r] =>
        /\ pc[r] = "list" =>
              \A n \in atListing[r] :
                  /\ Listable(issues[n])
                  /\ Rank(n) <= (page[r] - 1) * PageSize => n \in listed[r]
        /\ pc[r] \in {"process", "sync", "done"} => atListing[r] \subseteq listed[r]

\* In a folder where all is quiet the listing stays true.
Fresh(r) ==
    quiet[r] /\ pc[r] \in {"list", "process"} =>
        /\ \A n \in listed[r] : Scoped(n, r) => Listable(issues[n])
        /\ \A n \in Numbers : Scoped(n, r) => (Listable(issues[n]) <=> n \in atListing[r])

\* A finding is still to be opened, or has an issue that will not be closed.
Provided(r) ==
    quiet[r] /\ ~input[r].dry /\ pc[r] \in {"sync", "done"} =>
        \A i \in DOMAIN Findings(r) :
            Faithful(Findings(r)[i]) /\ InScope(Findings(r)[i], input[r].scope) =>
            \/ i \in toCreate[r]
            \/ \E n \in Numbers \ toClose[r] :
                  /\ Listable(issues[n]) /\ Scoped(n, r)
                  /\ Matching(issues[n].meta, Findings(r)[i])

\* The issues a run of this input would know if it listed them now, and the
\* input being in step with them.
KnownNow(in) == KnownIssues({ n \in Numbers : Listable(issues[n]) }, in.scope)

InStep(in) ==
    /\ UnmatchedNew(KnownNow(in), NewIssues(in)) = {}
    /\ UnmatchedKnown(KnownNow(in), NewIssues(in)) = {}

\* Half way through, the candidates of the folder are the ones that were matched,
\* the ones still to be closed and the ones opened so far.
HalfWay(r) ==
    /\ quiet[r] /\ noClosing[r] /\ ~input[r].dry /\ pc[r] = "sync"
    /\ ExactReport(input[r])
    =>
    /\ \A n \in Numbers : Candidate(n, input[r].scope) =>
          \/ n \in DOMAIN Known(r) /\ (n \in toClose[r] \/ n \notin LeftKnown(r))
          \/ \E i \in LeftNew(r) \ toCreate[r] : issues[n].meta = Findings(r)[i]
    /\ \A n \in DOMAIN Known(r) \ LeftKnown(r) : Candidate(n, input[r].scope)
    /\ \A i \in LeftNew(r) \ toCreate[r] : \E n \in Numbers \ listed[r] :
          Candidate(n, input[r].scope) /\ issues[n].meta = Findings(r)[i]

\* A run that repeats an input which is in step has nothing to do.
Repeats(r) ==
    rescan[r] /\ quiet[r] /\ ExactReport(input[r]) =>
        /\ pc[r] \in {"list", "process"} => InStep(input[r])
        /\ pc[r] = "sync" /\ noClosing[r] => toCreate[r] = {} /\ toClose[r] = {}

SettledInStep == \A in \in settled : ExactReport(in) => InStep(in)

\* How the store, the run's memory and the history fit together.
RunInv(r) ==
    /\ Local(r) /\ Seen(r) /\ Paged(r) /\ Fresh(r)
    /\ Provided(r) /\ HalfWay(r) /\ Repeats(r)

IInv ==
    /\ TypeOK /\ input \in Inputs
    /\ SettledInStep
    /\ \A r \in Runs : RunInv(r)

-----------------------------------------------------------------------------
(***************************************************************************)
(* What a step does to GitHub.                                             *)
(***************************************************************************)

\* An issue that exists keeps what was written into it.
StoreKeeps ==
    \A n \in Numbers : issues[n].state # "none" =>
        /\ issues'[n].state # "none" /\ issues'[n].meta = issues[n].meta
        /\ issues'[n].managed = issues[n].managed /\ issues'[n].pr = issues[n].pr

\* At most the number of comments of an issue changes.
OnlyComments ==
    \A n \in Numbers :
        /\ issues'[n].state = issues[n].state /\ issues'[n].meta = issues[n].meta
        /\ issues'[n].managed = issues[n].managed /\ issues'[n].pr = issues[n].pr

\* Issue n is closed, and that is all.
OnlyCloses(n) ==
    /\ n \in Numbers /\ issues[n].state # "none" /\ issues'[n].state = "closed"
    /\ issues'[n].meta = issues[n].meta
    /\ issues'[n].managed = issues[n].managed /\ issues'[n].pr = issues[n].pr
    /\ \A m \in Numbers \ {n} : issues'[m] = issues[m]

\* Issue n is opened for a finding, and that is all.
OnlyOpens(n, f) ==
    /\ n \in Numbers /\ issues[n].state = "none"
    /\ issues'[n] = NewIssue(f)
    /\ \A m \in Numbers \ {n} : issues'[m] = issues[m]

\* The history that goes with the change of an issue by somebody.
Noted(who, n, closing) ==
    /\ \A q \in Runs : quiet'[q] <=>
          quiet[q] /\ (q = who \/ ~InScope(issues'[n].meta, input[q].scope))
    /\ \A q \in Runs : noClosing'[q] <=>
          noClosing[q] /\ (closing => pc[q] # "list" \/ q = who)
    /\ settled' = {} /\ UNCHANGED <<atListing, rescan>>

LEMMA ChangedNoted ==
    ASSUME NEW who, NEW n, NEW closing \in BOOLEAN, Changed(who, n, closing), TypeOK
    PROVE  Noted(who, n, closing)
BY DEF Changed, Noted, TypeOK

LEMMA CreateEffect ==
    ASSUME TypeOK, NEW r \in Runs, CreateIssue(r)
    PROVE  \E i \in toCreate[r], n \in Numbers :
              /\ OnlyOpens(n, NewIssues(input[r])[i])
              /\ toCreate' = [toCreate EXCEPT ![r] = @ \ {i}]
              /\ Noted(r, n, FALSE)
<1>1. PICK i \in toCreate[r], n \in FreshNumbers :
          /\ issues' = [issues EXCEPT ![n] = NewIssue(NewIssues(input[r])[i])]
          /\ toCreate' = [toCreate EXCEPT ![r] = @ \ {i}]
          /\ Changed(r, n, FALSE)
  BY DEF CreateIssue
<1>2. n \in Numbers /\ issues[n].state = "none"
  BY DEF FreshNumbers
<1>3. OnlyOpens(n, NewIssues(input[r])[i])
  BY <1>1, <1>2 DEF OnlyOpens, TypeOK
<1>. QED
  BY <1>1, <1>2, <1>3, ChangedNoted

\* What is left to close was seen, is in the folder and is well formed.
LEMMA LeftKnownSeen ==
    ASSUME NEW r \in Runs, RunInv(r), TypeOK
    PROVE  /\ LeftKnown(r) \subseteq DOMAIN Known(r) /\ LeftNew(r) \subseteq DOMAIN Findings(r)
           /\ DOMAIN Known(r) \subseteq listed[r] /\ listed[r] \subseteq Numbers
           /\ \A n \in DOMAIN Known(r) :
                 /\ Known(r)[n] = issues[n].meta
                 /\ Scoped(n, r) /\ WellFormed(issues[n].meta) /\ issues[n].state # "none"
                 /\ issues[n].managed /\ ~issues[n].pr
<1>1. /\ DOMAIN Known(r) = { n \in listed[r] : Scoped(n, r) /\ WellFormed(issues[n].meta) }
      /\ \A n \in DOMAIN Known(r) : Known(r)[n] = issues[n].meta
  BY DEF Known, KnownIssues, Scoped
<1>2. LeftKnown(r) \subseteq DOMAIN Known(r) /\ LeftNew(r) \subseteq DOMAIN Findings(r)
  BY DEF LeftKnown, LeftNew, UnmatchedKnown, UnmatchedNew
<1>3. listed[r] \subseteq Numbers
  BY DEF TypeOK
<1>. QED
  BY <1>1, <1>2, <1>3 DEF RunInv, Seen

\* The issue being closed exists.
LEMMA CurrentSeen ==
    ASSUME NEW r \in Runs, RunInv(r), TypeOK, current[r] # 0
    PROVE  /\ current[r] \in toClose[r] /\ current[r] \in LeftKnown(r)
           /\ current[r] \in DOMAIN Known(r) /\ current[r] \in listed[r]
           /\ current[r] \in Numbers /\ issues[current[r]].state # "none"
BY LeftKnownSeen DEF TypeOK, RunInv, Local

LEMMA CloseEffect ==
    ASSUME TypeOK, NEW r \in Runs, RunInv(r), CloseIssue(r)
    PROVE  OnlyCloses(current[r]) /\ Noted(r, current[r], TRUE)
<1>1. current[r] \in Numbers /\ issues[current[r]].state # "none"
  BY CurrentSeen DEF CloseIssue
<1>2. OnlyCloses(current[r])
  BY <1>1 DEF OnlyCloses, CloseIssue, TypeOK, Issue
<1>. QED
  BY <1>2, ChangedNoted DEF CloseIssue

LEMMA ByHandEffect ==
    ASSUME TypeOK, NEW n \in Numbers, CloseByHand(n)
    PROVE  OnlyCloses(n) /\ Noted("nobody", n, TRUE)
<1>1. OnlyCloses(n)
  BY DEF OnlyCloses, CloseByHand, TypeOK, Issue
<1>. QED
  BY <1>1, ChangedNoted DEF CloseByHand

\* Every other step of a run leaves the issues alone but for a comment.
LEMMA QuietEffect ==
    ASSUME TypeOK, NEW r \in Runs,
           \/ ReadReport(r) \/ ListPage(r) \/ ProcessSARIFReport(r) \/ DryRun(r)
           \/ CommentIssue(r) \/ Finish(r) \/ Abort(r)
    PROVE  OnlyComments
<1>1. CASE CommentIssue(r)
  <2>1. PICK n \in toClose[r] :
            issues' = [issues EXCEPT ![n].comments = @ + 1] \/ UNCHANGED issues
    BY <1>1 DEF CommentIssue
  <2>2. n \in Numbers
    BY DEF TypeOK
  <2>. QED
    BY <2>1, <2>2 DEF OnlyComments, TypeOK, Issue
<1>2. CASE UNCHANGED issues
  BY <1>2 DEF OnlyComments
<1>. QED
  BY <1>1, <1>2 DEF ReadReport, ListPage, ProcessSARIFReport, DryRun, Finish, Abort

LEMMA EffectsKeep ==
    /\ OnlyComments => StoreKeeps
    /\ \A n : OnlyCloses(n) => StoreKeeps
    /\ \A n, f : OnlyOpens(n, f) => StoreKeeps
BY DEF OnlyComments, OnlyCloses, OnlyOpens, StoreKeeps

\* No step takes back what was written into an issue.
LEMMA StepKeepsStore ==
    ASSUME IInv, [Next]_vars
    PROVE  StoreKeeps
<1>. USE DEF IInv
<1>1. ASSUME NEW r \in Runs, Step(r) \/ Abort(r) PROVE StoreKeeps
  <2>1. CASE CreateIssue(r)
    BY <2>1, CreateEffect, EffectsKeep
  <2>2. CASE CloseIssue(r)
    BY <2>2, CloseEffect, EffectsKeep
  <2>. QED
    BY <1>1, <2>1, <2>2, QuietEffect, EffectsKeep DEF Step
<1>2. ASSUME NEW n \in Numbers, CloseByHand(n) PROVE StoreKeeps
  BY <1>2, ByHandEffect, EffectsKeep
<1>3. CASE UNCHANGED vars
  BY <1>3 DEF vars, StoreKeeps
<1>. QED
  BY <1>1, <1>2, <1>3 DEF Next, AllEnded

-----------------------------------------------------------------------------
(***************************************************************************)
(* Positions in the listing.                                               *)
(***************************************************************************)

LEMMA NumbersFinite == IsFiniteSet(Numbers)
BY FS_Interval, BoundsAssumption DEF Numbers

LEMMA RankFacts ==
    ASSUME TypeOK
    PROVE  /\ IsFiniteSet(OpenNumbers) /\ Cardinality(OpenNumbers) \in Nat
           /\ \A n \in Numbers : Rank(n) \in Nat /\ Rank(n) <= Cardinality(OpenNumbers)
           /\ \A n \in OpenNumbers : Rank(n) >= 1
<1>2. IsFiniteSet(OpenNumbers) /\ Cardinality(OpenNumbers) \in Nat
  BY NumbersFinite, FS_Subset, FS_CardinalityType DEF OpenNumbers
<1>3. ASSUME NEW n \in Numbers
      PROVE  /\ Rank(n) \in Nat /\ Rank(n) <= Cardinality(OpenNumbers)
             /\ n \in OpenNumbers => Rank(n) >= 1
  <2> DEFINE above == { m \in OpenNumbers : m >= n }
  <2>1. above \subseteq OpenNumbers
    OBVIOUS
  <2>2. IsFiniteSet(above) /\ Cardinality(above) <= Cardinality(OpenNumbers)
    BY <1>2, <2>1, FS_Subset
  <2>3. Cardinality(above) \in Nat /\ (Cardinality(above) = 0 => above = {})
    BY <2>2, FS_CardinalityType, FS_EmptySet
  <2>4. n \in OpenNumbers => above # {}
    BY DEF Numbers
  <2>. QED
    BY <2>2, <2>3, <2>4 DEF Rank
<1>. QED
  BY <1>2, <1>3 DEF OpenNumbers

\* While nothing is closed an issue only moves away from the first page.
LEMMA RankGrows ==
    ASSUME TypeOK, TypeOK', NEW n \in Numbers,
           \A m \in Numbers : issues[m].state = "open" => issues'[m].state = "open"
    PROVE  Rank(n) <= Rank(n)' /\ Rank(n)' \in Nat
<1> DEFINE now == { m \in OpenNumbers : m >= n }
           later == { m \in OpenNumbers' : m >= n }
<1>1. OpenNumbers \subseteq OpenNumbers'
  BY DEF OpenNumbers
<1>2. now \subseteq later /\ later \subseteq OpenNumbers'
  BY <1>1
<1>3. IsFiniteSet(OpenNumbers')
  BY NumbersFinite, FS_Subset DEF OpenNumbers
<1>4. IsFiniteSet(later)
  BY <1>2, <1>3, FS_Subset
<1>5. Cardinality(now) <= Cardinality(later) /\ Cardinality(later) \in Nat
  BY <1>2, <1>4, FS_Subset, FS_CardinalityType
<1>6. Rank(n)' = Cardinality(later)
  BY DEF Rank
<1>. QED
  BY <1>5, <1>6 DEF Rank

-----------------------------------------------------------------------------
(***************************************************************************)
(* What the steps of others leave to a run.                                *)
(***************************************************************************)

\* An issue listed in the folder of r stays so, and no other becomes one.
ScopeKept(r) ==
    \A n \in Numbers :
        Scoped(n, r) /\ Listable(issues[n]) <=> Scoped(n, r)' /\ Listable(issues'[n])

Memory(r) == <<pc[r], page[r], listed[r], toCreate[r], toClose[r], current[r],
               atListing[r], rescan[r]>>

\* A step that is not run r's: its memory stays, and while its history says so
\* nothing was closed under its listing and nothing changed in its folder.
Aside(r) ==
    /\ input' = input /\ Memory(r)' = Memory(r)
    /\ quiet'[r] => quiet[r] /\ ScopeKept(r)
    /\ noClosing'[r] => noClosing[r]
    /\ noClosing'[r] /\ pc[r] = "list" =>
          \A n \in Numbers : issues[n].state = "open" => issues'[n].state = "open"

\* The issues a run knows, and what is left over of them, stay what they are.
LEMMA KnownKept ==
    ASSUME NEW r \in Runs, TypeOK, Seen(r), StoreKeeps, input' = input, listed'[r] = listed[r]
    PROVE  Known(r)' = Known(r) /\ LeftNew(r)' = LeftNew(r) /\ LeftKnown(r)' = LeftKnown(r)
<1>1. \A n \in listed[r] : issues'[n].meta = issues[n].meta
  BY DEF Seen, StoreKeeps, TypeOK
<1> DEFINE kept == { n \in listed[r] : InScope(issues[n].meta, input[r].scope)
                                       /\ WellFormed(issues[n].meta) }
           later == { n \in listed[r] : InScope(issues'[n].meta, input[r].scope)
                                       /\ WellFormed(issues'[n].meta) }
<1>2. kept = later
  BY <1>1
<1>3. Known(r) = [n \in kept |-> issues[n].meta]
  BY DEF Known, KnownIssues
<1>4. Known(r)' = [n \in later |-> issues'[n].meta]
  BY DEF Known, KnownIssues
<1>5. [n \in kept |-> issues[n].meta] = [n \in later |-> issues'[n].meta]
  BY <1>1, <1>2
<1>6. Known(r)' = Known(r)
  BY <1>3, <1>4, <1>5
<1>7. Findings(r)' = Findings(r)
  BY DEF Findings
<1>. QED
  BY <1>6, <1>7 DEF LeftNew, LeftKnown

\* An input whose folder keeps its issues stays in step or out of step.
LEMMA KnownNowKept ==
    ASSUME NEW in, StoreKeeps, TypeOK,
           \A n \in Numbers : InScope(issues[n].meta, in.scope) /\ Listable(issues[n])
              <=> InScope(issues'[n].meta, in.scope) /\ Listable(issues'[n])
    PROVE  KnownNow(in)' = KnownNow(in) /\ (InStep(in)' <=> InStep(in))
<1> DEFINE kept == { n \in { m \in Numbers : Listable(issues[m]) } :
                        InScope(issues[n].meta, in.scope) /\ WellFormed(issues[n].meta) }
           later == { n \in { m \in Numbers : Listable(issues'[m]) } :
                        InScope(issues'[n].meta, in.scope) /\ WellFormed(issues'[n].meta) }
<1>1. \A n \in Numbers : Listable(issues[n]) => issues'[n].meta = issues[n].meta
  BY DEF StoreKeeps, Listable
<1>2. kept = later
  BY <1>1
<1>3. KnownNow(in) = [n \in kept |-> issues[n].meta]
  BY DEF KnownNow, KnownIssues
<1>4. KnownNow(in)' = [n \in later |-> issues'[n].meta]
  BY DEF KnownNow, KnownIssues
<1>5. [n \in kept |-> issues[n].meta] = [n \in later |-> issues'[n].meta]
  BY <1>1, <1>2
<1>6. KnownNow(in)' = KnownNow(in)
  BY <1>3, <1>4, <1>5
<1>. QED
  BY <1>6 DEF InStep

\* Whoever else takes a step, for run r it is one aside.
LEMMA OthersAside ==
    ASSUME IInv, NEW r \in Runs,
           \/ \E q \in Runs \ {r} : Step(q) \/ Abort(q)
           \/ \E n \in Numbers : CloseByHand(n)
           \/ UNCHANGED vars
    PROVE  Aside(r)
<1>. USE DEF IInv
<1>1. ASSUME NEW who, who # r, NEW n, NEW closing \in BOOLEAN, NEW f, Noted(who, n, closing),
             OnlyCloses(n) \/ OnlyOpens(n, f), OnlyCloses(n) => closing,
             input' = input,
             <<pc[r], page[r], listed[r], toCreate[r], toClose[r], current[r]>>'
                = <<pc[r], page[r], listed[r], toCreate[r], toClose[r], current[r]>>
      PROVE  Aside(r)
  <2>1. Memory(r)' = Memory(r)
    BY <1>1 DEF Memory, Noted
  <2>2. ASSUME quiet'[r] PROVE quiet[r] /\ ScopeKept(r)
    <3>1. quiet[r] /\ ~InScope(issues'[n].meta, input[r].scope)
      BY <1>1, <2>2 DEF Noted
    <3>2. n \in Numbers /\ \A m \in Numbers \ {n} : issues'[m] = issues[m]
      BY <1>1 DEF OnlyCloses, OnlyOpens
    <3>3. ~(Scoped(n, r) /\ Listable(issues[n]))
      BY <1>1, <3>1 DEF OnlyCloses, OnlyOpens, Scoped, Listable
    <3>. QED
      BY <1>1, <3>1, <3>2, <3>3 DEF ScopeKept, Scoped
  <2>3. noClosing'[r] => noClosing[r]
    BY <1>1 DEF Noted
  <2>4. ASSUME noClosing'[r], pc[r] = "list", NEW m \in Numbers, issues[m].state = "open"
        PROVE  issues'[m].state = "open"
    <3>1. ~OnlyCloses(n)
      BY <1>1, <2>4 DEF Noted
    <3>. QED
      BY <1>1, <2>4, <3>1 DEF OnlyOpens
  <2>. QED
    BY <1>1, <2>1, <2>2, <2>3, <2>4 DEF Aside
<1>2. ASSUME NEW q \in Runs \ {r}, Step(q) \/ Abort(q) PROVE Aside(r)
  <2>1. /\ input' = input
        /\ <<pc[r], page[r], listed[r], toCreate[r], toClose[r], current[r]>>'
              = <<pc[r], page[r], listed[r], toCreate[r], toClose[r], current[r]>>
    BY <1>2 DEF Step, Abort, ReadReport, ListPage, ProcessSARIFReport, DryRun, CreateIssue,
         CommentIssue, CloseIssue, Finish, AnswerReceived, AnswerLost, TypeOK
  <2>2. CASE CreateIssue(q)
    <3>1. PICK i \in toCreate[q], n \in Numbers :
              OnlyOpens(n, NewIssues(input[q])[i]) /\ Noted(q, n, FALSE)
      BY <2>2, CreateEffect
    <3>2. ~OnlyCloses(n)
      BY <3>1 DEF OnlyCloses, OnlyOpens
    <3>. QED
      BY <1>1, <2>1, <3>1, <3>2
  <2>3. CASE CloseIssue(q)
    BY <1>1, <2>1, <2>3, CloseEffect
  <2>4. CASE \/ ReadReport(q) \/ ListPage(q) \/ ProcessSARIFReport(q) \/ DryRun(q)
             \/ CommentIssue(q) \/ Finish(q) \/ Abort(q)
    <3>1. OnlyComments
      BY <2>4, QuietEffect
    <3>2. /\ quiet'[r] = quiet[r] /\ noClosing'[r] = noClosing[r]
          /\ atListing'[r] = atListing[r] /\ rescan'[r] = rescan[r]
      BY <2>4 DEF ReadReport, ListPage, ProcessSARIFReport, DryRun, CommentIssue, Finish,
           Abort, ghost, TypeOK
    <3>3. ScopeKept(r)
      BY <2>1, <3>1 DEF ScopeKept, Scoped, Listable, OnlyComments
    <3>. QED
      BY <2>1, <3>1, <3>2, <3>3 DEF Aside, Memory, OnlyComments
  <2>. QED
    BY <1>2, <2>2, <2>3, <2>4 DEF Step
<1>3. ASSUME NEW n \in Numbers, CloseByHand(n) PROVE Aside(r)
  <2>1. "nobody" # r
    BY InputsAssumption
  <2>2. OnlyCloses(n) /\ Noted("nobody", n, TRUE)
    BY <1>3, ByHandEffect
  <2>. QED
    BY <1>1, <1>3, <2>1, <2>2 DEF CloseByHand
<1>4. CASE UNCHANGED vars
  BY <1>4 DEF vars, ghost, Aside, Memory, ScopeKept, Scoped
<1>. QED
  BY <1>2, <1>3, <1>4

-----------------------------------------------------------------------------
(***************************************************************************)
(* The invariant survives the steps of others.                             *)
(***************************************************************************)

LEMMA SeenKept ==
    ASSUME NEW r \in Runs, TypeOK, Seen(r), StoreKeeps,
           listed'[r] = listed[r], atListing'[r] = atListing[r]
    PROVE  Seen(r)'
BY DEF Seen, StoreKeeps, TypeOK

LEMMA AsideKeeps ==
    ASSUME TypeOK, TypeOK', NEW r \in Runs, RunInv(r), StoreKeeps, Aside(r)
    PROVE  RunInv(r)'
<1>1. /\ input' = input /\ pc'[r] = pc[r] /\ page'[r] = page[r] /\ listed'[r] = listed[r]
      /\ toCreate'[r] = toCreate[r] /\ toClose'[r] = toClose[r] /\ current'[r] = current[r]
      /\ atListing'[r] = atListing[r] /\ rescan'[r] = rescan[r]
  BY DEF Aside, Memory
<1>2. Seen(r)'
  BY <1>1, SeenKept DEF RunInv
<1>3. Known(r)' = Known(r) /\ LeftNew(r)' = LeftNew(r) /\ LeftKnown(r)' = LeftKnown(r)
  BY <1>1, KnownKept DEF RunInv
<1>4. Findings(r)' = Findings(r)
  BY <1>1 DEF Findings
<1>5. Local(r)'
  BY <1>1, <1>3 DEF Local, RunInv
<1>6. Paged(r)'
  <2> SUFFICES ASSUME noClosing'[r] PROVE Paged(r)'
    BY DEF Paged
  <2>1. Paged(r) /\ noClosing[r]
    BY DEF RunInv, Aside
  <2>2. ASSUME pc[r] = "list", NEW n \in atListing[r]
        PROVE  Listable(issues'[n]) /\ (Rank(n)' <= (page[r] - 1) * PageSize => n \in listed[r])
    <3>1. n \in Numbers /\ Listable(issues[n]) /\ issues[n].state # "none"
      BY <2>1, <2>2 DEF TypeOK, Paged, Listable
    <3>2. \A m \in Numbers : issues[m].state = "open" => issues'[m].state = "open"
      BY <2>2 DEF Aside
    <3>3. Rank(n) <= Rank(n)' /\ Rank(n)' \in Nat
      BY <3>1, <3>2, RankGrows
    <3>4. Rank(n) \in Nat
      BY <3>1, RankFacts
    <3>6. (page[r] - 1) * PageSize \in Int
      BY BoundsAssumption DEF TypeOK
    <3>7. Rank(n)' <= (page[r] - 1) * PageSize => n \in listed[r]
      BY <2>1, <2>2, <3>3, <3>4, <3>6 DEF Paged
    <3>. QED
      BY <3>1, <3>2, <3>7 DEF StoreKeeps, Listable
  <2>. QED
    BY <1>1, <2>1, <2>2 DEF Paged
<1>7. Fresh(r)'
  <2> SUFFICES ASSUME quiet'[r], pc[r] \in {"list", "process"}
               PROVE  /\ \A n \in listed[r] : Scoped(n, r)' => Listable(issues'[n])
                      /\ \A n \in Numbers : Scoped(n, r)' =>
                            (Listable(issues'[n]) <=> n \in atListing[r])
    BY <1>1 DEF Fresh
  <2>1. Fresh(r) /\ quiet[r] /\ ScopeKept(r)
    BY DEF RunInv, Aside
  <2>2. \A n \in Numbers : issues[n].state # "none" => (Scoped(n, r)' <=> Scoped(n, r))
    BY <1>1 DEF Scoped, StoreKeeps
  <2>3. \A n \in listed[r] \cup atListing[r] : n \in Numbers /\ issues[n].state # "none"
    BY DEF RunInv, Seen, TypeOK
  <2>4. \A n \in Numbers : Listable(issues[n]) => issues[n].state # "none"
    BY DEF Listable
  <2>. QED
    BY <2>1, <2>2, <2>3, <2>4 DEF Fresh, ScopeKept
<1>8. Provided(r)'
  <2> SUFFICES ASSUME quiet'[r], ~input[r].dry, pc[r] \in {"sync", "done"},
                      NEW i \in DOMAIN Findings(r), Faithful(Findings(r)[i]),
                      InScope(Findings(r)[i], input[r].scope), i \notin toCreate[r]
               PROVE  \E n \in Numbers \ toClose[r] :
                         /\ Listable(issues'[n]) /\ Scoped(n, r)'
                         /\ Matching(issues'[n].meta, Findings(r)[i])
    BY <1>1, <1>4 DEF Provided
  <2>1. Provided(r) /\ quiet[r] /\ ScopeKept(r)
    BY DEF RunInv, Aside
  <2>2. PICK n \in Numbers \ toClose[r] :
            /\ Listable(issues[n]) /\ Scoped(n, r)
            /\ Matching(issues[n].meta, Findings(r)[i])
    BY <2>1 DEF Provided
  <2>3. issues'[n].meta = issues[n].meta
    BY <2>2 DEF StoreKeeps, Listable
  <2>. QED
    BY <2>1, <2>2, <2>3 DEF ScopeKept
<1>9. ASSUME quiet'[r]
      PROVE  \A n \in Numbers : /\ Candidate(n, input[r].scope)' <=> Candidate(n, input[r].scope)
                                /\ Candidate(n, input[r].scope) => issues'[n].meta = issues[n].meta
  <2>1. ScopeKept(r)
    BY <1>9 DEF Aside
  <2>2. \A n \in Numbers : Listable(issues[n]) => issues'[n].meta = issues[n].meta
    BY DEF StoreKeeps, Listable
  <2>. QED
    BY <1>1, <2>1, <2>2 DEF Candidate, ScopeKept, Scoped
<1>10. ExactReport(input[r])' <=> ExactReport(input[r])
  BY <1>1 DEF ExactReport
<1>11. HalfWay(r)'
  <2> SUFFICES ASSUME quiet'[r], noClosing'[r], ~input[r].dry, pc[r] = "sync",
                      ExactReport(input[r])
               PROVE  HalfWay(r)'
    BY <1>1, <1>10 DEF HalfWay
  <2>1. HalfWay(r) /\ quiet[r] /\ noClosing[r]
    BY DEF RunInv, Aside
  <2>2. DOMAIN Known(r) \subseteq Numbers
    BY LeftKnownSeen
  <2>. QED
    BY <1>1, <1>3, <1>4, <1>9, <2>1, <2>2 DEF HalfWay
<1>12. Repeats(r)'
  <2> SUFFICES ASSUME quiet'[r], rescan[r], ExactReport(input[r])
               PROVE  Repeats(r)'
    BY <1>1, <1>10 DEF Repeats
  <2>1. Repeats(r) /\ quiet[r] /\ ScopeKept(r) /\ (noClosing'[r] => noClosing[r])
    BY DEF RunInv, Aside
  <2>2. InStep(input[r])' <=> InStep(input[r])
    <3>1. \A n \in Numbers : InScope(issues[n].meta, input[r].scope) /\ Listable(issues[n])
              <=> InScope(issues'[n].meta, input[r].scope) /\ Listable(issues'[n])
      BY <1>1, <2>1 DEF ScopeKept, Scoped
    <3>2. \A in : in = input[r] => (InStep(in)' <=> InStep(in))
      BY <3>1, KnownNowKept
    <3>. QED
      BY <1>1, <3>2 DEF InStep, KnownNow
  <2>. QED
    BY <1>1, <2>1, <2>2 DEF Repeats
<1>. QED
  BY <1>2, <1>5, <1>6, <1>7, <1>8, <1>11, <1>12 DEF RunInv

-----------------------------------------------------------------------------
(***************************************************************************)
(* The invariant survives the run's own steps.                             *)
(***************************************************************************)

\* Comments make no difference to what is listed, known or in step.
LEMMA CommentsAside ==
    ASSUME TypeOK, OnlyComments, NEW r \in Runs, input' = input
    PROVE  /\ \A n \in Numbers : /\ Listable(issues'[n]) <=> Listable(issues[n])
                                 /\ Scoped(n, r)' <=> Scoped(n, r)
                                 /\ Candidate(n, input[r].scope)' <=> Candidate(n, input[r].scope)
                                 /\ issues'[n].meta = issues[n].meta
           /\ OpenNumbers' = OpenNumbers /\ \A n \in Numbers : Rank(n)' = Rank(n)
           /\ \A in : InStep(in)' <=> InStep(in)
<1>1. \A n \in Numbers : /\ Listable(issues'[n]) <=> Listable(issues[n])
                         /\ issues'[n].meta = issues[n].meta
                         /\ issues'[n].state = issues[n].state
  BY DEF OnlyComments, Listable
<1>2. OpenNumbers' = OpenNumbers
  BY <1>1 DEF OpenNumbers
<1>3. \A n \in Numbers : Rank(n)' = Rank(n)
  BY <1>2 DEF Rank
<1>4. ASSUME NEW in PROVE InStep(in)' <=> InStep(in)
  BY <1>1, KnownNowKept, EffectsKeep
<1>5. ASSUME NEW n \in Numbers
      PROVE  /\ Scoped(n, r)' <=> Scoped(n, r)
             /\ Candidate(n, input[r].scope)' <=> Candidate(n, input[r].scope)
  BY <1>1 DEF Scoped, Candidate
<1>. QED
  BY <1>1, <1>2, <1>3, <1>4, <1>5

LEMMA ReadReportKeeps ==
    ASSUME IInv, TypeOK', NEW r \in Runs, ReadReport(r)
    PROVE  RunInv(r)'
<1>0. TypeOK /\ RunInv(r) /\ SettledInStep
  BY DEF IInv
<1>1. /\ pc[r] = "idle" /\ pc'[r] \in {"list", "failed"}
      /\ atListing'[r] = { n \in Numbers : Listable(issues[n]) }
      /\ rescan'[r] <=> input[r] \in settled
      /\ UNCHANGED <<issues, input, page, listed, toCreate, toClose, current>>
  BY <1>0 DEF ReadReport, TypeOK
<1>2. /\ listed[r] = {} /\ page[r] = 1 /\ toCreate[r] = {} /\ toClose[r] = {}
      /\ current[r] = 0
  BY <1>0, <1>1 DEF RunInv, Local, TypeOK
<1>3. Local(r)'
  BY <1>1, <1>2 DEF Local
<1>4. Seen(r)'
  BY <1>1, <1>2 DEF Seen, Listable
<1>5. Paged(r)'
  <2>1. ASSUME NEW n \in atListing'[r] PROVE Listable(issues[n]) /\ Rank(n) \in Nat /\ Rank(n) >= 1
    BY <1>0, <1>1, RankFacts DEF Listable, OpenNumbers
  <2>2. (page'[r] - 1) * PageSize = 0
    BY <1>1, <1>2, BoundsAssumption
  <2>3. ASSUME NEW n \in atListing'[r] PROVE Listable(issues'[n]) /\ ~(Rank(n)' <= (page'[r] - 1) * PageSize)
    <3>1. Rank(n)' = Rank(n)
      BY <1>1 DEF Rank, OpenNumbers
    <3>. QED
      BY <1>1, <2>1, <2>2, <3>1
  <2>. QED
    BY <1>1, <2>3 DEF Paged
<1>6. Fresh(r)'
  BY <1>1, <1>2 DEF Fresh
<1>7. Provided(r)' /\ HalfWay(r)'
  BY <1>1 DEF Provided, HalfWay
<1>8. Repeats(r)'
  <2>1. rescan'[r] /\ ExactReport(input[r]) => InStep(input[r])
    BY <1>0, <1>1 DEF SettledInStep
  <2>2. (ExactReport(input[r])' <=> ExactReport(input[r])) /\ (InStep(input[r])' <=> InStep(input[r]))
    BY <1>1 DEF InStep, KnownNow, KnownIssues, ExactReport
  <2>. QED
    BY <1>1, <2>1, <2>2 DEF Repeats
<1>. QED
  BY <1>3, <1>4, <1>5, <1>6, <1>7, <1>8 DEF RunInv

LEMMA ListPageKeeps ==
    ASSUME IInv, TypeOK', NEW r \in Runs, ListPage(r)
    PROVE  RunInv(r)'
<1>0. TypeOK /\ RunInv(r)
  BY DEF IInv
<1>1. /\ pc[r] = "list" /\ pc'[r] = IF IsLastPage(page[r]) THEN "process" ELSE "list"
      /\ listed'[r] = listed[r] \cup { n \in PageItems(page[r]) : Listable(issues[n]) }
      /\ page'[r] = page[r] + 1 /\ page[r] \in Nat \ {0}
      /\ UNCHANGED <<issues, input, toCreate, toClose, current, ghost>>
  BY <1>0 DEF ListPage, NextPage, TypeOK
<1>2. toCreate[r] = {} /\ toClose[r] = {} /\ current[r] = 0
  BY <1>0, <1>1 DEF RunInv, Local, TypeOK
<1>3. Local(r)'
  BY <1>1, <1>2 DEF Local
<1>4. \A n \in listed'[r] : n \in Numbers /\ (n \in listed[r] \/ Listable(issues[n]))
  BY <1>0, <1>1 DEF PageItems, OpenNumbers, TypeOK
<1>5. Seen(r)'
  BY <1>0, <1>1, <1>4 DEF RunInv, Seen, Listable, ghost
<1>6. Paged(r)'
  <2> SUFFICES ASSUME noClosing[r] PROVE Paged(r)'
    BY <1>1 DEF Paged, ghost
  <2>1. ASSUME NEW n \in atListing[r]
        PROVE  /\ Listable(issues[n]) /\ n \in OpenNumbers
               /\ Rank(n) <= (page[r] - 1) * PageSize => n \in listed[r]
    BY <1>0, <1>1, <2>1 DEF RunInv, Paged, Listable, OpenNumbers, TypeOK
  <2>2. ASSUME NEW n \in atListing[r], Rank(n) <= page[r] * PageSize
        PROVE  n \in listed'[r]
    <3>1. CASE Rank(n) <= (page[r] - 1) * PageSize
      BY <1>1, <2>1, <3>1
    <3>2. CASE ~(Rank(n) <= (page[r] - 1) * PageSize)
      <4>1. Rank(n) \in Nat /\ (page[r] - 1) * PageSize \in Int
        BY <1>0, <1>1, <2>1, RankFacts, BoundsAssumption DEF OpenNumbers
      <4>2. n \in PageItems(page[r])
        BY <2>1, <2>2, <3>2, <4>1 DEF PageItems
      <4>. QED
        BY <1>1, <2>1, <4>2
    <3>. QED
      BY <3>1, <3>2
  <2>3. page'[r] - 1 = page[r]
    BY <1>1
  <2>4. \A n \in Numbers : Rank(n)' = Rank(n)
    BY <1>1 DEF Rank, OpenNumbers
  <2>5. ASSUME IsLastPage(page[r]) PROVE atListing[r] \subseteq listed'[r]
    <3>1. ASSUME NEW n \in atListing[r] PROVE Rank(n) <= page[r] * PageSize
      <4>1. /\ Rank(n) \in Nat /\ Cardinality(OpenNumbers) \in Nat /\ page[r] * PageSize \in Int
            /\ Rank(n) <= Cardinality(OpenNumbers)
        BY <1>0, <1>1, <2>1, RankFacts, BoundsAssumption DEF OpenNumbers
      <4>. QED
        BY <2>5, <4>1 DEF IsLastPage
    <3>. QED
      BY <2>2, <3>1
  <2>6. atListing'[r] = atListing[r] /\ atListing[r] \subseteq Numbers /\ issues' = issues
    BY <1>0, <1>1 DEF ghost, TypeOK
  <2>7. pc'[r] = "list" =>
          \A n \in atListing'[r] :
              /\ Listable(issues'[n])
              /\ Rank(n)' <= (page'[r] - 1) * PageSize => n \in listed'[r]
    BY <2>1, <2>2, <2>3, <2>4, <2>6
  <2>8. pc'[r] \in {"process", "sync", "done"} => atListing'[r] \subseteq listed'[r]
    BY <1>1, <2>5, <2>6
  <2>. QED
    BY <2>7, <2>8 DEF Paged
<1>7. Fresh(r)'
  BY <1>0, <1>1, <1>4 DEF RunInv, Fresh, Scoped, ghost
<1>8. Provided(r)' /\ HalfWay(r)'
  BY <1>1 DEF Provided, HalfWay
<1>9. Repeats(r)'
  <2>1. (ExactReport(input[r])' <=> ExactReport(input[r])) /\ (InStep(input[r])' <=> InStep(input[r]))
    BY <1>1 DEF InStep, KnownNow, KnownIssues, ExactReport
  <2>. QED
    BY <1>0, <1>1, <2>1 DEF RunInv, Repeats, ghost
<1>. QED
  BY <1>3, <1>5, <1>6, <1>7, <1>8, <1>9 DEF RunInv

\* A listing that missed nothing, in a quiet folder, is the folder.
LEMMA ListedIsFolder ==
    ASSUME TypeOK, NEW r \in Runs, RunInv(r), quiet[r], noClosing[r], pc[r] = "process"
    PROVE  /\ \A n \in Numbers : n \in DOMAIN Known(r) <=> Candidate(n, input[r].scope)
           /\ Known(r) = KnownNow(input[r])
<1> DEFINE known0 == { n \in listed[r] : InScope(issues[n].meta, input[r].scope)
                                         /\ WellFormed(issues[n].meta) }
           now0 == { n \in { m \in Numbers : Listable(issues[m]) } :
                        InScope(issues[n].meta, input[r].scope) /\ WellFormed(issues[n].meta) }
<1>1. listed[r] \subseteq Numbers /\ atListing[r] \subseteq listed[r]
  BY DEF TypeOK, RunInv, Paged
<1>2. \A n \in listed[r] : Scoped(n, r) => Listable(issues[n])
  BY DEF RunInv, Fresh
<1>3. \A n \in Numbers : Scoped(n, r) /\ Listable(issues[n]) => n \in listed[r]
  BY <1>1 DEF RunInv, Fresh
<1>4. known0 = now0
  BY <1>1, <1>2, <1>3 DEF Scoped
<1>5. Known(r) = [n \in known0 |-> issues[n].meta]
  BY DEF Known, KnownIssues
<1>6. KnownNow(input[r]) = [n \in now0 |-> issues[n].meta]
  BY DEF KnownNow, KnownIssues
<1>7. \A n \in Numbers : n \in now0 <=> Candidate(n, input[r].scope)
  BY DEF Candidate
<1>. QED
  BY <1>4, <1>5, <1>6, <1>7

\* A finding that is not left over has an issue that is not left over either.
LEMMA MatchedIsKept ==
    ASSUME NEW ks, NEW ns, NEW i \in DOMAIN ns \ UnmatchedNew(ks, ns)
    PROVE  \E k \in DOMAIN ks \ UnmatchedKnown(ks, ns) : Matching(ks[k], ns[i])
<1>1. i \in NewOf(Process(ks, ns))
  BY DEF UnmatchedNew
<1>2. PICK p \in Process(ks, ns) : p[2] = i
  BY <1>1 DEF NewOf
<1>3. PICK s \in Stages : p \in By(ks, ns, s) \ Before(ks, ns, s)
  BY AddedByOne
<1>4. /\ p[1] \in DOMAIN ks /\ MatchStage(ks[p[1]], ns[p[2]], s)
  BY <1>3, StageAdds DEF By
<1>5. p[1] \in KnownOf(Process(ks, ns))
  BY <1>2 DEF KnownOf
<1>. QED
  BY <1>2, <1>4, <1>5 DEF UnmatchedKnown, Matching

LEMMA ProcessKeeps ==
    ASSUME IInv, TypeOK', NEW r \in Runs, ProcessSARIFReport(r)
    PROVE  RunInv(r)'
<1>0. TypeOK /\ RunInv(r)
  BY DEF IInv
<1>1. /\ pc[r] = "process" /\ pc'[r] = "sync"
      /\ toCreate'[r] = LeftNew(r) /\ toClose'[r] = LeftKnown(r)
      /\ UNCHANGED <<issues, input, page, listed, current, ghost>>
  BY <1>0 DEF ProcessSARIFReport, TypeOK, LeftNew, LeftKnown, Known, Findings
<1>2. current[r] = 0
  BY <1>0, <1>1 DEF RunInv, Local, TypeOK
<1>3. /\ Known(r)' = Known(r) /\ LeftNew(r)' = LeftNew(r) /\ LeftKnown(r)' = LeftKnown(r)
      /\ Findings(r)' = Findings(r)
  BY <1>1 DEF Known, KnownIssues, LeftNew, LeftKnown, Findings
<1>4. Local(r)'
  BY <1>1, <1>2, <1>3 DEF Local
<1>5. Seen(r)' /\ Paged(r)' /\ Fresh(r)'
  BY <1>0, <1>1 DEF RunInv, Seen, Paged, Fresh, ghost
<1>6. Provided(r)'
  <2> SUFFICES ASSUME quiet[r], NEW i \in DOMAIN Findings(r), i \notin LeftNew(r)
               PROVE  \E n \in Numbers \ LeftKnown(r) :
                         /\ Listable(issues[n]) /\ Scoped(n, r)
                         /\ Matching(issues[n].meta, Findings(r)[i])
    BY <1>1, <1>3 DEF Provided, Scoped, ghost
  <2>1. PICK n \in DOMAIN Known(r) \ LeftKnown(r) : Matching(Known(r)[n], Findings(r)[i])
    BY MatchedIsKept DEF LeftNew, LeftKnown
  <2>2. n \in listed[r] /\ n \in Numbers /\ Scoped(n, r) /\ Known(r)[n] = issues[n].meta
    BY <1>0, LeftKnownSeen
  <2>3. Listable(issues[n])
    BY <1>0, <1>1, <2>2 DEF RunInv, Fresh
  <2>. QED
    BY <2>1, <2>2, <2>3
<1>7. HalfWay(r)'
  <2> SUFFICES ASSUME quiet[r], noClosing[r] PROVE HalfWay(r)'
    BY <1>1 DEF HalfWay, ghost
  <2>1. \A n \in Numbers : n \in DOMAIN Known(r) <=> Candidate(n, input[r].scope)
    BY <1>0, <1>1, ListedIsFolder
  <2>2. \A n : Candidate(n, input[r].scope)' <=> Candidate(n, input[r].scope)
    BY <1>1 DEF Candidate
  <2>3. DOMAIN Known(r) \subseteq Numbers
    BY <1>0, LeftKnownSeen
  <2>4. LeftNew(r)' \ toCreate'[r] = {}
    BY <1>1, <1>3
  <2>. QED
    BY <1>1, <1>3, <2>1, <2>2, <2>3, <2>4 DEF HalfWay
<1>8. Repeats(r)'
  <2> SUFFICES ASSUME rescan[r], quiet[r], ExactReport(input[r]), noClosing[r]
               PROVE  LeftNew(r) = {} /\ LeftKnown(r) = {}
    BY <1>1 DEF Repeats, ghost, ExactReport
  <2>1. InStep(input[r])
    BY <1>0, <1>1 DEF RunInv, Repeats
  <2>2. Known(r) = KnownNow(input[r])
    BY <1>0, <1>1, ListedIsFolder
  <2>. QED
    BY <2>1, <2>2 DEF InStep, LeftNew, LeftKnown, Findings
<1>. QED
  BY <1>4, <1>5, <1>6, <1>7, <1>8 DEF RunInv

\* A run that ends, with success or without.
LEMMA EndKeeps ==
    ASSUME IInv, TypeOK', NEW r \in Runs, DryRun(r) \/ Finish(r) \/ Abort(r)
    PROVE  RunInv(r)'
<1>0. TypeOK /\ RunInv(r)
  BY DEF IInv
<1>1. /\ UNCHANGED <<issues, input, page, listed, current, quiet, noClosing, atListing, rescan>>
      /\ \/ /\ pc'[r] = "done" /\ pc[r] = "sync"
            /\ toCreate'[r] = {} /\ toClose'[r] = {}
            /\ input[r].dry \/ (toCreate[r] = {} /\ toClose[r] = {})
         \/ /\ pc'[r] = "failed" /\ pc[r] \in Active
            /\ toCreate'[r] = toCreate[r] /\ toClose'[r] = toClose[r]
  <2>1. CASE DryRun(r)
    BY <1>0, <2>1 DEF DryRun, TypeOK, ghost
  <2>2. CASE Finish(r)
    BY <1>0, <2>2 DEF Finish, TypeOK
  <2>3. CASE Abort(r)
    BY <1>0, <2>3 DEF Abort, TypeOK, ghost
  <2>. QED
    BY <2>1, <2>2, <2>3
<1>2. /\ Known(r)' = Known(r) /\ LeftNew(r)' = LeftNew(r) /\ LeftKnown(r)' = LeftKnown(r)
      /\ Findings(r)' = Findings(r)
  BY <1>1 DEF Known, KnownIssues, LeftNew, LeftKnown, Findings
<1>3. Local(r)'
  BY <1>0, <1>1, <1>2 DEF RunInv, Local
<1>4. Seen(r)' /\ Paged(r)' /\ Fresh(r)'
  BY <1>0, <1>1 DEF RunInv, Seen, Paged, Fresh
<1>5. Provided(r)'
  BY <1>0, <1>1, <1>2 DEF RunInv, Provided, Scoped
<1>6. HalfWay(r)' /\ Repeats(r)'
  BY <1>1 DEF HalfWay, Repeats
<1>. QED
  BY <1>3, <1>4, <1>5, <1>6 DEF RunInv

LEMMA CommentKeeps ==
    ASSUME IInv, TypeOK', NEW r \in Runs, CommentIssue(r)
    PROVE  RunInv(r)'
<1>0. TypeOK /\ RunInv(r) /\ OnlyComments /\ StoreKeeps
  BY QuietEffect, EffectsKeep DEF IInv
<1>1. /\ pc[r] = "sync" /\ ~input[r].dry /\ toCreate[r] = {} /\ current'[r] \in toClose[r]
      /\ UNCHANGED <<pc, input, page, listed, toCreate, toClose, ghost>>
  BY <1>0 DEF CommentIssue, TypeOK
<1>2. /\ Known(r)' = Known(r) /\ LeftNew(r)' = LeftNew(r) /\ LeftKnown(r)' = LeftKnown(r)
      /\ Findings(r)' = Findings(r)
  BY <1>0, <1>1, KnownKept DEF RunInv, Findings
<1>3. Local(r)'
  BY <1>0, <1>1, <1>2 DEF RunInv, Local
<1>4. Seen(r)'
  BY <1>0, <1>1, SeenKept DEF RunInv, ghost
<1>5. Paged(r)' /\ Fresh(r)'
  BY <1>0, <1>1 DEF RunInv, Paged, Fresh, ghost
<1>6. \A n \in Numbers : /\ Listable(issues'[n]) <=> Listable(issues[n])
                         /\ Scoped(n, r)' <=> Scoped(n, r)
                         /\ Candidate(n, input[r].scope)' <=> Candidate(n, input[r].scope)
                         /\ issues'[n].meta = issues[n].meta
  BY <1>0, <1>1, CommentsAside
<1>7. Provided(r)'
  BY <1>0, <1>1, <1>2, <1>6 DEF RunInv, Provided, ghost
<1>8. HalfWay(r)'
  <2>1. ExactReport(input[r])' <=> ExactReport(input[r])
    BY <1>1 DEF ExactReport
  <2>2. DOMAIN Known(r) \subseteq Numbers
    BY <1>0, LeftKnownSeen
  <2>. QED
    BY <1>0, <1>1, <1>2, <1>6, <2>1, <2>2 DEF RunInv, HalfWay, ghost
<1>9. Repeats(r)'
  BY <1>0, <1>1 DEF RunInv, Repeats, ghost, ExactReport
<1>. QED
  BY <1>3, <1>4, <1>5, <1>7, <1>8, <1>9 DEF RunInv

\* The issue opened for a finding that survives the issue body covers it.
LEMMA NewIssueCovers ==
    ASSUME input \in Inputs, NEW r \in Runs, NEW i \in DOMAIN NewIssues(input[r])
    PROVE  LET f == NewIssues(input[r])[i]
           IN /\ Listable(NewIssue(f)) /\ NewIssue(f).meta = AsParsed(f)
              /\ NewIssue(f).state # "none"
              /\ Faithful(f) => /\ Matching(AsParsed(f), f)
                                /\ WellFormed(AsParsed(f))
                                /\ AsParsed(f).file = f.file
<1> DEFINE f == NewIssues(input[r])[i]
<1>1. f \in Metadata /\ AsParsed(f) \in Metadata /\ f.rule # "" /\ f.file # ""
  BY FindingsTyped
<1>2. ASSUME Faithful(f)
      PROVE  /\ AsParsed(f).scanner = f.scanner /\ AsParsed(f).rule = f.rule
             /\ AsParsed(f).file = f.file /\ AsParsed(f).hash = f.hash /\ f.scanner # ""
  BY <1>1, <1>2 DEF AsParsed, Faithful, Metadata
<1>3. ASSUME Faithful(f) PROVE MatchStage(AsParsed(f), f, 2)
  BY <1>1, <1>2, <1>3 DEF MatchStage, SameRuleInFile
<1>4. Listable(NewIssue(f)) /\ NewIssue(f).meta = AsParsed(f) /\ NewIssue(f).state # "none"
  BY DEF Listable, NewIssue
<1>5. Faithful(f) => Matching(AsParsed(f), f)
  BY <1>3 DEF Matching, Stages
<1>6. Faithful(f) => WellFormed(AsParsed(f)) /\ AsParsed(f).file = f.file
  BY <1>1, <1>2 DEF WellFormed
<1>. QED
  BY <1>4, <1>5, <1>6

LEMMA CreateKeeps ==
    ASSUME IInv, TypeOK', NEW r \in Runs, CreateIssue(r)
    PROVE  RunInv(r)'
<1>0. TypeOK /\ RunInv(r) /\ input \in Inputs /\ StoreKeeps
  BY CreateEffect, EffectsKeep DEF IInv
<1>1. PICK i \in toCreate[r], n \in Numbers :
          /\ OnlyOpens(n, Findings(r)[i])
          /\ toCreate' = [toCreate EXCEPT ![r] = @ \ {i}]
          /\ Noted(r, n, FALSE)
  BY <1>0, CreateEffect DEF Findings
<1>2. /\ pc[r] = "sync" /\ ~input[r].dry /\ pc'[r] \in {"sync", "failed"}
      /\ UNCHANGED <<input, page, listed, toClose, current, atListing, rescan>>
      /\ quiet'[r] = quiet[r] /\ noClosing'[r] = noClosing[r]
  BY <1>0, <1>1 DEF CreateIssue, AnswerReceived, AnswerLost, TypeOK, Noted
<1>3. /\ Known(r)' = Known(r) /\ LeftNew(r)' = LeftNew(r) /\ LeftKnown(r)' = LeftKnown(r)
      /\ Findings(r)' = Findings(r)
  BY <1>0, <1>2, KnownKept DEF RunInv, Findings
<1>4. /\ toCreate'[r] = toCreate[r] \ {i} /\ toCreate[r] \subseteq LeftNew(r)
      /\ i \in DOMAIN Findings(r) /\ current[r] = 0
      /\ LeftNew(r) \subseteq DOMAIN Findings(r)
  BY <1>0, <1>1, LeftKnownSeen DEF RunInv, Local, TypeOK
<1>5. Local(r)'
  BY <1>0, <1>2, <1>3, <1>4 DEF RunInv, Local
<1>6. Seen(r)'
  BY <1>0, <1>2, SeenKept DEF RunInv
<1>7. Paged(r)' /\ Fresh(r)'
  BY <1>0, <1>2 DEF RunInv, Paged, Fresh
<1>8. /\ issues'[n] = NewIssue(Findings(r)[i]) /\ issues[n].state = "none"
      /\ \A m \in Numbers \ {n} : issues'[m] = issues[m]
      /\ n \notin listed[r] /\ n \notin toClose[r]
  BY <1>0, <1>1, LeftKnownSeen DEF OnlyOpens, RunInv, Seen, Local
<1>9. /\ Listable(issues'[n]) /\ issues'[n].meta = AsParsed(Findings(r)[i])
      /\ Faithful(Findings(r)[i]) =>
            /\ Matching(issues'[n].meta, Findings(r)[i])
            /\ WellFormed(issues'[n].meta)
            /\ issues'[n].meta.file = Findings(r)[i].file
  BY <1>0, <1>4, <1>8, NewIssueCovers DEF Findings
<1>10. \A m \in Numbers : Listable(issues[m]) => m # n
  BY <1>8 DEF Listable
<1>11. Provided(r)'
  <2> SUFFICES ASSUME quiet[r], NEW j \in DOMAIN Findings(r), j \notin toCreate[r] \ {i},
                      Faithful(Findings(r)[j]), InScope(Findings(r)[j], input[r].scope),
                      pc'[r] = "sync"
               PROVE  \E m \in Numbers \ toClose[r] :
                         /\ Listable(issues'[m]) /\ Scoped(m, r)'
                         /\ Matching(issues'[m].meta, Findings(r)[j])
    BY <1>2, <1>3, <1>4 DEF Provided
  <2>1. CASE j = i
    <3>1. Scoped(n, r)'
      BY <1>2, <1>9, <2>1 DEF Scoped, InScope
    <3>. QED
      BY <1>8, <1>9, <2>1, <3>1
  <2>2. CASE j # i
    <3>1. PICK m \in Numbers \ toClose[r] :
              /\ Listable(issues[m]) /\ Scoped(m, r)
              /\ Matching(issues[m].meta, Findings(r)[j])
      BY <1>0, <1>2, <2>2 DEF RunInv, Provided
    <3>2. issues'[m] = issues[m]
      BY <1>8, <1>10, <3>1
    <3>. QED
      BY <1>2, <3>1, <3>2 DEF Scoped
  <2>. QED
    BY <2>1, <2>2
<1>12. HalfWay(r)'
  <2>0. ExactReport(input[r])' <=> ExactReport(input[r])
    BY <1>2 DEF ExactReport
  <2> SUFFICES ASSUME quiet[r], noClosing[r], ExactReport(input[r]), pc'[r] = "sync"
               PROVE  HalfWay(r)'
    BY <1>2, <2>0 DEF HalfWay
  <2>1. /\ \A m \in Numbers : Candidate(m, input[r].scope) =>
              \/ m \in DOMAIN Known(r) /\ (m \in toClose[r] \/ m \notin LeftKnown(r))
              \/ \E j \in LeftNew(r) \ toCreate[r] : issues[m].meta = Findings(r)[j]
        /\ \A m \in DOMAIN Known(r) \ LeftKnown(r) : Candidate(m, input[r].scope)
        /\ \A j \in LeftNew(r) \ toCreate[r] : \E m \in Numbers \ listed[r] :
              Candidate(m, input[r].scope) /\ issues[m].meta = Findings(r)[j]
    BY <1>0, <1>2 DEF RunInv, HalfWay
  <2>2. /\ Faithful(Findings(r)[i]) /\ AsParsed(Findings(r)[i]) = Findings(r)[i]
        /\ InScope(Findings(r)[i], input[r].scope)
    BY <1>4 DEF ExactReport, Findings
  <2>3. Candidate(n, input[r].scope)' /\ issues'[n].meta = Findings(r)[i]
    BY <1>2, <1>9, <2>2 DEF Candidate
  <2>4. \A m \in Numbers : m # n => (Candidate(m, input[r].scope)' <=> Candidate(m, input[r].scope))
    BY <1>2, <1>8 DEF Candidate
  <2>5. \A m \in Numbers : Candidate(m, input[r].scope) => m # n
    BY <1>10 DEF Candidate
  <2>6. DOMAIN Known(r) \subseteq listed[r] /\ listed[r] \subseteq Numbers
    BY <1>0, LeftKnownSeen
  <2>7. i \in LeftNew(r) /\ LeftNew(r) \ toCreate'[r] = (LeftNew(r) \ toCreate[r]) \cup {i}
    BY <1>4
  <2>8. ASSUME NEW m \in Numbers, Candidate(m, input[r].scope)'
        PROVE  \/ m \in DOMAIN Known(r) /\ (m \in toClose[r] \/ m \notin LeftKnown(r))
               \/ \E j \in LeftNew(r) \ toCreate'[r] : issues'[m].meta = Findings(r)[j]
    <3>1. CASE m = n
      BY <2>3, <2>7, <3>1
    <3>2. CASE m # n
      BY <1>8, <2>1, <2>4, <2>7, <2>8, <3>2
    <3>. QED
      BY <3>1, <3>2
  <2>9. ASSUME NEW m \in DOMAIN Known(r) \ LeftKnown(r)
        PROVE  Candidate(m, input[r].scope)'
    BY <2>1, <2>4, <2>5, <2>6
  <2>10. ASSUME NEW j \in LeftNew(r) \ toCreate'[r]
         PROVE  \E m \in Numbers \ listed[r] :
                   Candidate(m, input[r].scope)' /\ issues'[m].meta = Findings(r)[j]
    <3>1. CASE j = i
      BY <1>8, <2>3, <3>1
    <3>2. CASE j # i
      <4>1. PICK m \in Numbers \ listed[r] :
                Candidate(m, input[r].scope) /\ issues[m].meta = Findings(r)[j]
        BY <2>1, <2>7, <3>2
      <4>. QED
        BY <1>8, <2>4, <2>5, <4>1
    <3>. QED
      BY <3>1, <3>2
  <2>. QED
    BY <1>2, <1>3, <2>8, <2>9, <2>10 DEF HalfWay
<1>13. Repeats(r)'
  <2>1. ExactReport(input[r])' <=> ExactReport(input[r])
    BY <1>2 DEF ExactReport
  <2>. QED
    BY <1>0, <1>2, <1>4, <2>1 DEF RunInv, Repeats
<1>. QED
  BY <1>5, <1>6, <1>7, <1>11, <1>12, <1>13 DEF RunInv


LEMMA CloseKeeps ==
    ASSUME IInv, TypeOK', NEW r \in Runs, CloseIssue(r)
    PROVE  RunInv(r)'
<1>n. PICK n \in Numbers : n = current[r]
  BY CurrentSeen DEF CloseIssue, IInv
<1>0. TypeOK /\ RunInv(r) /\ StoreKeeps /\ OnlyCloses(n) /\ Noted(r, n, TRUE)
  BY <1>n, CloseEffect, EffectsKeep DEF IInv
<1>1. /\ pc[r] = "sync" /\ pc'[r] \in {"sync", "failed"} /\ current'[r] = 0
      /\ toClose'[r] = toClose[r] \ {n}
      /\ UNCHANGED <<input, page, listed, toCreate, atListing, rescan>>
      /\ quiet'[r] = quiet[r] /\ noClosing'[r] = noClosing[r]
  BY <1>0, <1>n DEF CloseIssue, AnswerReceived, AnswerLost, TypeOK, Noted
<1>2. /\ n \in toClose[r] /\ n \in LeftKnown(r) /\ n \in listed[r] /\ n \in Numbers
      /\ toCreate[r] = {} /\ ~input[r].dry
  BY <1>0, <1>n, CurrentSeen DEF CloseIssue, RunInv, Local
<1>3. /\ Known(r)' = Known(r) /\ LeftNew(r)' = LeftNew(r) /\ LeftKnown(r)' = LeftKnown(r)
      /\ Findings(r)' = Findings(r)
  BY <1>0, <1>1, KnownKept DEF RunInv, Findings
<1>4. Local(r)'
  BY <1>0, <1>1, <1>2, <1>3 DEF RunInv, Local
<1>5. Seen(r)'
  BY <1>0, <1>1, SeenKept DEF RunInv
<1>6. Paged(r)' /\ Fresh(r)'
  BY <1>0, <1>1 DEF RunInv, Paged, Fresh
<1>7. \A m \in Numbers : m # n =>
          /\ issues'[m] = issues[m] /\ (Scoped(m, r)' <=> Scoped(m, r))
          /\ Candidate(m, input[r].scope)' <=> Candidate(m, input[r].scope)
  BY <1>0, <1>1 DEF OnlyCloses, Scoped, Candidate
<1>8. ~Candidate(n, input[r].scope)'
  BY <1>0 DEF OnlyCloses, Candidate, Listable
<1>9. Provided(r)'
  <2> SUFFICES ASSUME quiet[r], NEW j \in DOMAIN Findings(r), Faithful(Findings(r)[j]),
                      InScope(Findings(r)[j], input[r].scope)
               PROVE  \E m \in Numbers \ toClose'[r] :
                         /\ Listable(issues'[m]) /\ Scoped(m, r)'
                         /\ Matching(issues'[m].meta, Findings(r)[j])
    BY <1>1, <1>3 DEF Provided
  <2>1. PICK m \in Numbers \ toClose[r] :
            /\ Listable(issues[m]) /\ Scoped(m, r)
            /\ Matching(issues[m].meta, Findings(r)[j])
    BY <1>0, <1>1, <1>2 DEF RunInv, Provided
  <2>. QED
    BY <1>1, <1>2, <1>7, <2>1
<1>10. HalfWay(r)'
  <2>0. ExactReport(input[r])' <=> ExactReport(input[r])
    BY <1>1 DEF ExactReport
  <2> SUFFICES ASSUME quiet[r], noClosing[r], ExactReport(input[r]), pc'[r] = "sync"
               PROVE  HalfWay(r)'
    BY <1>1, <2>0 DEF HalfWay
  <2>1. /\ \A m \in Numbers : Candidate(m, input[r].scope) =>
              \/ m \in DOMAIN Known(r) /\ (m \in toClose[r] \/ m \notin LeftKnown(r))
              \/ \E j \in LeftNew(r) \ toCreate[r] : issues[m].meta = Findings(r)[j]
        /\ \A m \in DOMAIN Known(r) \ LeftKnown(r) : Candidate(m, input[r].scope)
        /\ \A j \in LeftNew(r) \ toCreate[r] : \E m \in Numbers \ listed[r] :
              Candidate(m, input[r].scope) /\ issues[m].meta = Findings(r)[j]
    BY <1>0, <1>1, <1>2 DEF RunInv, HalfWay
  <2>2. DOMAIN Known(r) \subseteq Numbers
    BY <1>0, LeftKnownSeen
  <2>3. ASSUME NEW m \in Numbers, Candidate(m, input[r].scope)'
        PROVE  \/ m \in DOMAIN Known(r) /\ (m \in toClose'[r] \/ m \notin LeftKnown(r))
               \/ \E j \in LeftNew(r) \ toCreate[r] : issues'[m].meta = Findings(r)[j]
    <3>1. m # n
      BY <1>8, <2>3
    <3>. QED
      BY <1>1, <1>7, <2>1, <2>3, <3>1
  <2>4. \A m \in DOMAIN Known(r) \ LeftKnown(r) : Candidate(m, input[r].scope)'
    BY <1>2, <1>7, <2>1, <2>2
  <2>5. ASSUME NEW j \in LeftNew(r) \ toCreate[r]
        PROVE  \E m \in Numbers \ listed[r] :
                  Candidate(m, input[r].scope)' /\ issues'[m].meta = Findings(r)[j]
    <3>1. PICK m \in Numbers \ listed[r] :
              Candidate(m, input[r].scope) /\ issues[m].meta = Findings(r)[j]
      BY <2>1
    <3>. QED
      BY <1>2, <1>7, <3>1
  <2>. QED
    BY <1>1, <1>3, <2>3, <2>4, <2>5 DEF HalfWay
<1>11. Repeats(r)'
  <2>1. ExactReport(input[r])' <=> ExactReport(input[r])
    BY <1>1 DEF ExactReport
  <2>. QED
    BY <1>0, <1>1, <1>2, <2>1 DEF RunInv, Repeats
<1>. QED
  BY <1>4, <1>5, <1>6, <1>9, <1>10, <1>11 DEF RunInv


-----------------------------------------------------------------------------
(***************************************************************************)
(* Types.                                                                  *)
(***************************************************************************)

LEMMA StepTyped ==
    ASSUME IInv, NEW r \in Runs, Step(r) \/ Abort(r)
    PROVE  TypeOK'
<1>0. TypeOK /\ RunInv(r) /\ input \in Inputs
  BY DEF IInv
<1>1. CASE ReadReport(r)
  <2>1. { n \in Numbers : Listable(issues[n]) } \subseteq Numbers
    OBVIOUS
  <2>. QED
    BY <1>0, <1>1, <2>1 DEF ReadReport, TypeOK
<1>2. CASE ListPage(r)
  <2>1. { n \in PageItems(page[r]) : Listable(issues[n]) } \subseteq Numbers
    BY DEF PageItems, OpenNumbers
  <2>2. /\ listed' = [listed EXCEPT
                        ![r] = @ \cup { n \in PageItems(page[r]) : Listable(issues[n]) }]
        /\ page' = [page EXCEPT ![r] = @ + 1]
        /\ pc' = [pc EXCEPT ![r] = IF IsLastPage(page[r]) THEN "process" ELSE "list"]
        /\ UNCHANGED <<issues, toCreate, toClose, current, faults, byHand, ghost>>
    BY <1>2 DEF ListPage, NextPage
  <2>3. listed' \in [Runs -> SUBSET Numbers] /\ page' \in [Runs -> Nat \ {0}]
    BY <1>0, <2>1, <2>2 DEF TypeOK
  <2>. QED
    BY <1>0, <2>2, <2>3 DEF TypeOK, ghost
<1>3. CASE ProcessSARIFReport(r)
  <2>1. /\ toCreate' = [toCreate EXCEPT ![r] = LeftNew(r)]
        /\ toClose' = [toClose EXCEPT ![r] = LeftKnown(r)]
        /\ pc[r] = "process" /\ pc' = [pc EXCEPT ![r] = "sync"]
        /\ UNCHANGED <<issues, input, page, listed, current, faults, byHand, ghost>>
    BY <1>3 DEF ProcessSARIFReport, LeftNew, LeftKnown, Known, Findings
  <2>2. LeftNew(r) \subseteq Nat /\ LeftKnown(r) \subseteq Numbers
    BY <1>0, LeftKnownSeen, FindingsTyped DEF Findings
  <2>3. current[r] = 0
    BY <1>0, <2>1 DEF TypeOK, RunInv, Local
  <2>. QED
    BY <1>0, <2>1, <2>2, <2>3 DEF TypeOK, ghost
<1>4. CASE DryRun(r)
  <2>1. current[r] = 0
    BY <1>0, <1>4 DEF DryRun, TypeOK, RunInv, Local
  <2>. QED
    BY <1>0, <1>4, <2>1 DEF DryRun, TypeOK, ghost
<1>5. CASE CreateIssue(r)
  <2>1. PICK i \in toCreate[r], n \in FreshNumbers :
            /\ issues' = [issues EXCEPT ![n] = NewIssue(NewIssues(input[r])[i])]
            /\ toCreate' = [toCreate EXCEPT ![r] = @ \ {i}]
            /\ Changed(r, n, FALSE)
    BY <1>5 DEF CreateIssue
  <2>2. i \in DOMAIN NewIssues(input[r])
    BY <1>0, LeftKnownSeen DEF RunInv, Local, Findings
  <2>3. NewIssue(NewIssues(input[r])[i]) \in Issue
    BY <1>0, <2>2, FindingsTyped DEF NewIssue, Issue
  <2>4. issues' \in [Numbers -> Issue] /\ toCreate' \in [Runs -> SUBSET Nat]
    BY <1>0, <2>1, <2>3 DEF TypeOK
  <2>5. /\ quiet' \in [Runs -> BOOLEAN] /\ noClosing' \in [Runs -> BOOLEAN]
        /\ UNCHANGED <<atListing, rescan>>
    BY <1>0, <2>1 DEF Changed, TypeOK
  <2>6. /\ pc' \in [Runs -> {"idle", "list", "process", "sync", "done", "failed"}]
        /\ faults' \in 0 .. MaxFaults
    BY <1>0, <1>5, BoundsAssumption DEF CreateIssue, AnswerReceived, AnswerLost, TypeOK
  <2>7. UNCHANGED <<page, listed, toClose, current, byHand>>
    BY <1>5 DEF CreateIssue
  <2>. QED
    BY <1>0, <2>4, <2>5, <2>6, <2>7 DEF TypeOK
<1>6. CASE CommentIssue(r)
  <2>1. PICK n \in toClose[r] :
            /\ current' = [current EXCEPT ![r] = n]
            /\ \/ issues' = [issues EXCEPT ![n].comments = @ + 1] /\ UNCHANGED faults
               \/ faults < MaxFaults /\ faults' = faults + 1 /\ UNCHANGED issues
    BY <1>6 DEF CommentIssue
  <2>2. n \in Numbers
    BY <1>0 DEF TypeOK
  <2>3. issues' \in [Numbers -> Issue]
    <3>1. issues \in [Numbers -> Issue] /\ issues[n] \in Issue
      BY <1>0, <2>2 DEF TypeOK
    <3>2. [issues[n] EXCEPT !.comments = @ + 1] \in Issue
      BY <3>1 DEF Issue
    <3>. QED
      BY <2>1, <3>1, <3>2
  <2>4. faults' \in 0 .. MaxFaults
    BY <1>0, <2>1, BoundsAssumption DEF TypeOK
  <2>5. UNCHANGED <<pc, page, listed, toCreate, toClose, byHand, ghost>>
    BY <1>6 DEF CommentIssue
  <2>. QED
    BY <1>0, <2>1, <2>2, <2>3, <2>4, <2>5 DEF TypeOK, ghost
<1>7. CASE CloseIssue(r)
  <2>1. current[r] \in Numbers
    BY <1>0, <1>7, CurrentSeen DEF CloseIssue
  <2>2. issues' \in [Numbers -> Issue]
    BY <1>0, <1>7, <2>1 DEF CloseIssue, TypeOK, Issue
  <2>3. /\ quiet' \in [Runs -> BOOLEAN] /\ noClosing' \in [Runs -> BOOLEAN]
        /\ UNCHANGED <<atListing, rescan>>
    BY <1>0, <1>7 DEF CloseIssue, Changed, TypeOK
  <2>4. /\ pc' \in [Runs -> {"idle", "list", "process", "sync", "done", "failed"}]
        /\ faults' \in 0 .. MaxFaults
    BY <1>0, <1>7, BoundsAssumption DEF CloseIssue, AnswerReceived, AnswerLost, TypeOK
  <2>5. /\ toClose' = [toClose EXCEPT ![r] = @ \ {current[r]}]
        /\ current' = [current EXCEPT ![r] = 0]
        /\ UNCHANGED <<page, listed, toCreate, byHand>>
    BY <1>7 DEF CloseIssue
  <2>6. /\ toClose' \in [Runs -> SUBSET Numbers]
        /\ current' \in [Runs -> {0} \cup Numbers]
        /\ \A q \in Runs : current'[q] \in {0} \cup toClose'[q]
    BY <1>0, <2>5 DEF TypeOK
  <2>. QED
    BY <1>0, <2>2, <2>3, <2>4, <2>5, <2>6 DEF TypeOK
<1>8. CASE Finish(r)
  BY <1>0, <1>8 DEF Finish, TypeOK
<1>9. CASE Abort(r)
  BY <1>0, <1>9, BoundsAssumption DEF Abort, TypeOK, ghost
<1>. QED
  BY <1>1, <1>2, <1>3, <1>4, <1>5, <1>6, <1>7, <1>8, <1>9 DEF Step

LEMMA ByHandTyped ==
    ASSUME IInv, NEW n \in Numbers, CloseByHand(n)
    PROVE  TypeOK'
<1>1. TypeOK
  BY DEF IInv
<1>2. issues' \in [Numbers -> Issue] /\ byHand' \in 0 .. MaxByHand
  BY <1>1, BoundsAssumption DEF CloseByHand, TypeOK, Issue
<1>3. /\ quiet' \in [Runs -> BOOLEAN] /\ noClosing' \in [Runs -> BOOLEAN]
      /\ UNCHANGED <<atListing, rescan>>
  BY <1>1 DEF CloseByHand, Changed, TypeOK
<1>. QED
  BY <1>1, <1>2, <1>3 DEF CloseByHand, TypeOK

-----------------------------------------------------------------------------
(***************************************************************************)
(* A run that completes undisturbed leaves its input in step.              *)
(***************************************************************************)

\* What such a run leaves open has the metadata of the issues it matched and
\* of the findings it opened, which is what a second correlation starts from.
LEMMA CompletedIsNextKnown ==
    ASSUME TypeOK, NEW r \in Runs, RunInv(r), quiet[r], noClosing[r], ~input[r].dry,
           pc[r] = "sync", ExactReport(input[r]), toCreate[r] = {}, toClose[r] = {}
    PROVE  SameMetadata(KnownNow(input[r]), NextKnown(Known(r), Findings(r)))
<1> DEFINE now  == KnownNow(input[r])
           next == NextKnown(Known(r), Findings(r))
<1>1. /\ \A n \in Numbers : Candidate(n, input[r].scope) =>
            \/ n \in DOMAIN Known(r) \ LeftKnown(r)
            \/ \E i \in LeftNew(r) : issues[n].meta = Findings(r)[i]
      /\ \A n \in DOMAIN Known(r) \ LeftKnown(r) : Candidate(n, input[r].scope)
      /\ \A i \in LeftNew(r) : \E n \in Numbers :
            Candidate(n, input[r].scope) /\ issues[n].meta = Findings(r)[i]
  BY DEF RunInv, HalfWay
<1>2. /\ \A n : n \in DOMAIN now <=> n \in Numbers /\ Candidate(n, input[r].scope)
      /\ \A n \in DOMAIN now : now[n] = issues[n].meta
  BY DEF KnownNow, KnownIssues, Candidate
<1>3. \A n \in DOMAIN Known(r) : n \in Numbers /\ Known(r)[n] = issues[n].meta
  BY LeftKnownSeen
<1>4. /\ \A n \in DOMAIN Known(r) \ LeftKnown(r) :
            <<n, "kept">> \in DOMAIN next /\ next[<<n, "kept">>] = Known(r)[n]
      /\ \A i \in LeftNew(r) :
            <<i, "opened">> \in DOMAIN next /\ next[<<i, "opened">>] = Findings(r)[i]
      /\ \A a \in DOMAIN next :
            \/ \E n \in DOMAIN Known(r) \ LeftKnown(r) : a = <<n, "kept">>
            \/ \E i \in LeftNew(r) : a = <<i, "opened">>
  BY NextKnownNames, NextKnownKept, NextKnownOpened DEF LeftNew, LeftKnown
<1> HIDE DEF now, next
<1>5. ASSUME NEW n \in DOMAIN now PROVE \E a \in DOMAIN next : next[a] = now[n]
  <2>1. CASE n \in DOMAIN Known(r) \ LeftKnown(r)
    BY <1>2, <1>3, <1>4, <2>1
  <2>2. CASE \E i \in LeftNew(r) : issues[n].meta = Findings(r)[i]
    <3>1. PICK i \in LeftNew(r) : issues[n].meta = Findings(r)[i]
      BY <2>2
    <3>. QED
      BY <1>2, <1>4, <3>1
  <2>. QED
    BY <1>1, <1>2, <2>1, <2>2
<1>6. ASSUME NEW a \in DOMAIN next PROVE \E n \in DOMAIN now : next[a] = now[n]
  <2>1. CASE \E n \in DOMAIN Known(r) \ LeftKnown(r) : a = <<n, "kept">>
    BY <1>1, <1>2, <1>3, <1>4, <2>1
  <2>2. CASE \E i \in LeftNew(r) : a = <<i, "opened">>
    BY <1>1, <1>2, <1>4, <2>2
  <2>. QED
    BY <1>4, <2>1, <2>2
<1>7. SameMetadata(now, next)
  BY <1>5, <1>6 DEF SameMetadata
<1>. QED
  BY <1>7 DEF now, next

LEMMA CompletedInStep ==
    ASSUME TypeOK, input \in Inputs, NEW r \in Runs, RunInv(r), quiet[r], noClosing[r],
           ~input[r].dry, pc[r] = "sync", ExactReport(input[r]),
           toCreate[r] = {}, toClose[r] = {}
    PROVE  InStep(input[r])
<1>1. SameMetadata(KnownNow(input[r]), NextKnown(Known(r), Findings(r)))
  BY CompletedIsNextKnown
<1>2. AllNamed(Findings(r))
  BY FindingsTyped DEF AllNamed, ExactReport, Faithful, Findings
<1>3. /\ UnmatchedNew(NextKnown(Known(r), Findings(r)), Findings(r)) = {}
      /\ UnmatchedKnown(NextKnown(Known(r), Findings(r)), Findings(r)) = {}
  BY <1>2, RescanIsIdleHolds DEF RescanIsIdle
<1>4. /\ UnmatchedNew(KnownNow(input[r]), Findings(r)) = {}
      /\ UnmatchedKnown(KnownNow(input[r]), Findings(r)) = {}
  BY <1>1, <1>3, LeftOverAlike
<1>. QED
  BY <1>4 DEF InStep, Findings

LEMMA FinishSettles ==
    ASSUME IInv, NEW r \in Runs, Finish(r)
    PROVE  SettledInStep'
<1>1. /\ TypeOK /\ input \in Inputs /\ RunInv(r) /\ SettledInStep
      /\ pc[r] = "sync" /\ ~input[r].dry /\ toCreate[r] = {} /\ toClose[r] = {}
      /\ settled' = IF quiet[r] /\ noClosing[r] THEN {input[r]} ELSE settled
      /\ UNCHANGED issues
  BY DEF IInv, Finish
<1>2. ASSUME NEW in \in settled', ExactReport(in) PROVE InStep(in)
  BY <1>1, <1>2, CompletedInStep DEF SettledInStep
<1>3. \A in : InStep(in)' <=> InStep(in)
  BY <1>1 DEF InStep, KnownNow, KnownIssues
<1>. QED
  BY <1>2, <1>3 DEF SettledInStep

-----------------------------------------------------------------------------
(***************************************************************************)
(* The invariant is inductive.                                             *)
(***************************************************************************)

LEMMA InitIInv == Init => IInv
<1> SUFFICES ASSUME Init PROVE IInv
  OBVIOUS
<1>1. TypeOK
  BY BoundsAssumption, InputsAssumption DEF Init, TypeOK
<1>2. SettledInStep
  BY DEF Init, SettledInStep
<1>3. ASSUME NEW r \in Runs PROVE RunInv(r)
  BY DEF Init, RunInv, Local, Seen, Paged, Fresh, Provided, HalfWay, Repeats
<1>. QED
  BY <1>1, <1>2, <1>3 DEF IInv, Init

LEMMA StepSettles ==
    ASSUME IInv, [Next]_vars
    PROVE  SettledInStep'
<1>0. TypeOK /\ SettledInStep /\ \A r \in Runs : RunInv(r)
  BY DEF IInv
<1>1. CASE settled' = {}
  BY <1>1 DEF SettledInStep
<1>2. ASSUME OnlyComments, settled' = settled, input' = input, NEW r \in Runs
      PROVE  SettledInStep'
  <2>1. \A in : InStep(in)' <=> InStep(in)
    BY <1>0, <1>2, CommentsAside
  <2>. QED
    BY <1>0, <1>2, <2>1 DEF SettledInStep
<1>3. ASSUME NEW r \in Runs, Step(r) \/ Abort(r) PROVE SettledInStep'
  <2>1. CASE CreateIssue(r)
    BY <1>0, <1>1, <2>1, CreateEffect DEF Noted
  <2>2. CASE CloseIssue(r)
    BY <1>0, <1>1, <2>2, CloseEffect DEF Noted
  <2>3. CASE Finish(r)
    BY <2>3, FinishSettles
  <2>4. CASE ReadReport(r) \/ ListPage(r) \/ ProcessSARIFReport(r) \/ DryRun(r)
             \/ CommentIssue(r) \/ Abort(r)
    <3>1. OnlyComments
      BY <1>0, <2>4, QuietEffect
    <3>2. settled' = settled /\ input' = input
      BY <2>4 DEF ReadReport, ListPage, ProcessSARIFReport, DryRun, CommentIssue, Abort, ghost
    <3>. QED
      BY <1>2, <3>1, <3>2
  <2>. QED
    BY <1>3, <2>1, <2>2, <2>3, <2>4 DEF Step
<1>4. ASSUME NEW n \in Numbers, CloseByHand(n) PROVE SettledInStep'
  BY <1>0, <1>1, <1>4, ByHandEffect DEF Noted
<1>5. CASE UNCHANGED vars
  <2>1. \A in : InStep(in)' <=> InStep(in)
    BY <1>5 DEF vars, InStep, KnownNow, KnownIssues
  <2>. QED
    BY <1>0, <1>5, <2>1 DEF SettledInStep, vars, ghost
<1>. QED
  BY <1>3, <1>4, <1>5 DEF Next, AllEnded

LEMMA OwnStepKeeps ==
    ASSUME IInv, TypeOK', NEW r \in Runs, Step(r) \/ Abort(r)
    PROVE  RunInv(r)'
BY ReadReportKeeps, ListPageKeeps, ProcessKeeps, CreateKeeps, CommentKeeps, CloseKeeps,
   EndKeeps DEF Step

LEMMA NextIInv == IInv /\ [Next]_vars => IInv'
<1> SUFFICES ASSUME IInv, [Next]_vars PROVE IInv'
  OBVIOUS
<1>0. TypeOK /\ input \in Inputs /\ \A r \in Runs : RunInv(r)
  BY DEF IInv
<1>1. input' = input
  BY DEF Next, AllEnded, vars, Step, Abort, ReadReport, ListPage, ProcessSARIFReport, DryRun,
         CreateIssue, CommentIssue, CloseIssue, Finish, CloseByHand
<1>2. TypeOK'
  <2>1. CASE UNCHANGED vars
    BY <1>0, <2>1 DEF vars, ghost, TypeOK
  <2>. QED
    BY <2>1, StepTyped, ByHandTyped DEF Next, AllEnded
<1>3. ASSUME NEW r \in Runs PROVE RunInv(r)'
  <2>1. CASE Step(r) \/ Abort(r)
    BY <1>2, <2>1, OwnStepKeeps
  <2>2. CASE ~(Step(r) \/ Abort(r))
    <3>1. \/ \E q \in Runs \ {r} : Step(q) \/ Abort(q)
          \/ \E n \in Numbers : CloseByHand(n)
          \/ UNCHANGED vars
      BY <2>2 DEF Next, AllEnded
    <3>2. Aside(r)
      BY <3>1, OthersAside
    <3>. QED
      BY <1>0, <1>2, <3>2, StepKeepsStore, AsideKeeps
  <2>. QED
    BY <2>1, <2>2
<1>. QED
  BY <1>0, <1>1, <1>2, <1>3, StepSettles DEF IInv

LEMMA AlwaysIInv == Spec => []IInv
<1>. QED
  BY InitIInv, NextIInv, PTL DEF Spec

-----------------------------------------------------------------------------
(***************************************************************************)
(* Who opens and who closes.                                               *)
(***************************************************************************)

LEMMA ClosesItself ==
    ASSUME IInv, [Next]_vars, NEW r \in Runs, NEW n \in Numbers, Closes(r, n)
    PROVE  CloseIssue(r)
<1>. USE DEF IInv
<1>1. ASSUME NEW q \in Runs, CreateIssue(q) PROVE FALSE
  BY <1>1, CreateEffect DEF Closes, OnlyOpens
<1>2. ASSUME NEW q \in Runs, CloseIssue(q) PROVE CloseIssue(r)
  <2>1. current' = [current EXCEPT ![q] = 0]
    BY <1>2 DEF CloseIssue
  <2>2. q = r
    BY <2>1 DEF Closes, TypeOK
  <2>. QED
    BY <1>2, <2>2
<1>3. ASSUME OnlyComments PROVE FALSE
  BY <1>3 DEF OnlyComments, Closes
<1>4. ASSUME NEW m \in Numbers, CloseByHand(m) PROVE FALSE
  BY <1>4 DEF CloseByHand, Closes
<1>5. CASE UNCHANGED vars
  BY <1>5 DEF vars, Closes
<1>. QED
  BY <1>1, <1>2, <1>3, <1>4, <1>5, QuietEffect DEF Next, AllEnded, Step

LEMMA OpensItself ==
    ASSUME IInv, [Next]_vars, NEW r \in Runs, NEW n \in Numbers, NEW i, Opens(r, i, n)
    PROVE  CreateIssue(r)
<1>. USE DEF IInv
<1>1. ASSUME NEW q \in Runs, CreateIssue(q) PROVE CreateIssue(r)
  <2>1. PICK j \in toCreate[q] : toCreate' = [toCreate EXCEPT ![q] = @ \ {j}]
    BY <1>1 DEF CreateIssue
  <2>2. q = r
    BY <2>1 DEF Opens, TypeOK
  <2>. QED
    BY <1>1, <2>2
<1>2. ASSUME NEW m, OnlyCloses(m) PROVE FALSE
  BY <1>2 DEF OnlyCloses, Opens
<1>3. ASSUME OnlyComments PROVE FALSE
  BY <1>3 DEF OnlyComments, Opens
<1>4. CASE UNCHANGED vars
  BY <1>4 DEF vars, Opens
<1>. QED
  BY <1>1, <1>2, <1>3, <1>4, QuietEffect, CloseEffect, ByHandEffect DEF Next, AllEnded, Step

\* Where a finding and an issue match and are not joined, one of them has a
\* more precise partner.
LEMMA BetterPartner ==
    ASSUME NEW ks, NEW ns, NEW k \in DOMAIN ks, NEW i \in DOMAIN ns, NEW s \in Stages,
           MatchStage(ks[k], ns[i], s),
           k \in UnmatchedKnown(ks, ns) \/ i \in UnmatchedNew(ks, ns)
    PROVE  \E p \in Process(ks, ns), t \in 1 .. s - 1 :
              /\ p[1] \in DOMAIN ks \ UnmatchedKnown(ks, ns)
              /\ p[2] \in DOMAIN ns \ UnmatchedNew(ks, ns)
              /\ p[1] = k \/ p[2] = i
              /\ FirstMatch(ks[p[1]], ns[p[2]], t)
<1>1. <<k, i>> \notin Process(ks, ns)
  BY PairTakes DEF UnmatchedKnown, UnmatchedNew
<1>2. PICK p \in Process(ks, ns), t \in 1 .. s - 1 :
          (p[1] = k \/ p[2] = i) /\ FirstMatch(ks[p[1]], ns[p[2]], t)
  BY <1>1, EarlierStageWinsHolds DEF EarlierStageWins
<1>3. p[1] \in KnownOf(Process(ks, ns)) /\ p[2] \in NewOf(Process(ks, ns))
  BY DEF KnownOf, NewOf
<1>4. PICK u \in Stages : p \in By(ks, ns, u) \ Before(ks, ns, u)
  BY AddedByOne
<1>5. p[1] \in DOMAIN ks /\ p[2] \in DOMAIN ns
  BY <1>4, StageAdds DEF By
<1>. QED
  BY <1>2, <1>3, <1>5 DEF UnmatchedKnown, UnmatchedNew

-----------------------------------------------------------------------------
(***************************************************************************)
(* The theorems.                                                           *)
(***************************************************************************)

(***************************************************************************)
(* The store and the memory of every run keep their types: a run only      *)
(* opens, comments on and closes issues of the repository, and the issue   *)
(* it is closing is one of those it still has to close.                    *)
(***************************************************************************)
THEOREM TypesKept == Spec => []TypeOK
<1>1. IInv => TypeOK
  BY DEF IInv
<1>. QED
  BY <1>1, AlwaysIInv, PTL

(***************************************************************************)
(* Nothing is lost: from before its first closing on, every finding of a   *)
(* run's folder has an open issue, whatever runs of other folders and      *)
(* people do in between, and wherever the run fails or is killed.          *)
(***************************************************************************)
THEOREM AlwaysCoveredBeforeClose == Spec => []CoveredBeforeClose
<1>1. IInv => CoveredBeforeClose
  <2> SUFFICES ASSUME IInv, NEW r \in Runs, quiet[r], ~input[r].dry,
                      pc[r] = "done" \/ (pc[r] = "sync" /\ (toCreate[r] = {} \/ current[r] # 0)),
                      NEW i \in DOMAIN NewIssues(input[r]),
                      Faithful(NewIssues(input[r])[i]),
                      InScope(NewIssues(input[r])[i], input[r].scope)
               PROVE  Covered(NewIssues(input[r])[i])
    BY DEF CoveredBeforeClose
  <2>1. RunInv(r)
    BY DEF IInv
  <2>2. toCreate[r] = {}
    BY <2>1 DEF RunInv, Local
  <2>3. PICK n \in Numbers \ toClose[r] :
            Listable(issues[n]) /\ Matching(issues[n].meta, Findings(r)[i])
    BY <2>1, <2>2 DEF RunInv, Provided, Findings
  <2>. QED
    BY <2>3 DEF Covered, Findings
<1>. QED
  BY <1>1, AlwaysIInv, PTL

(***************************************************************************)
(* The listing by pages misses no issue that was open when it began, while *)
(* issues are only added: an issue moves to later pages and never back.    *)
(***************************************************************************)
THEOREM ListingAlwaysComplete == Spec => []ListingComplete
<1>1. IInv => ListingComplete
  BY DEF IInv, RunInv, Paged, ListingComplete
<1>. QED
  BY <1>1, AlwaysIInv, PTL

(***************************************************************************)
(* Repeating a completed run is idle, for every report whose metadata      *)
(* survives an issue body and lies in the folder: the issues that the      *)
(* first run left open correlate with the report without a remainder.      *)
(***************************************************************************)
THEOREM RescanAlwaysFindsNothing == Spec => []RescanIdle
<1>1. IInv => RescanIdle
  BY DEF IInv, RunInv, Repeats, RescanIdle
<1>. QED
  BY <1>1, AlwaysIInv, PTL

(***************************************************************************)
(* A run closes an issue only when every finding the issue matches has a   *)
(* more precise issue, which it listed and does not close.                 *)
(***************************************************************************)
THEOREM AlwaysClosesOnlySuperseded == Spec => ClosesOnlySuperseded
<1>1. ASSUME IInv, [Next]_vars, NEW r \in Runs, NEW n \in Numbers, Closes(r, n)
      PROVE  /\ ~input[r].dry
             /\ n \in listed[r]
             /\ Candidate(n, input[r].scope)
             /\ \A i \in DOMAIN NewIssues(input[r]), s \in Stages :
                   MatchStage(issues[n].meta, NewIssues(input[r])[i], s) =>
                   \E m \in listed[r] \ toClose[r], t \in 1 .. s - 1 :
                       FirstMatch(issues[m].meta, NewIssues(input[r])[i], t)
  <2>1. CloseIssue(r)
    BY <1>1, ClosesItself
  <2>2. TypeOK /\ RunInv(r) /\ current[r] = n /\ n # 0
    BY <1>1, <2>1 DEF IInv, Closes, CloseIssue
  <2>3. n \in LeftKnown(r) /\ n \in DOMAIN Known(r) /\ n \in listed[r] /\ toClose[r] \subseteq LeftKnown(r)
    BY <2>2, CurrentSeen DEF RunInv, Local
  <2>4. \A m \in DOMAIN Known(r) :
            m \in listed[r] /\ Known(r)[m] = issues[m].meta /\ Scoped(m, r)
            /\ WellFormed(issues[m].meta) /\ issues[m].managed /\ ~issues[m].pr
    BY <2>2, LeftKnownSeen
  <2>5. Candidate(n, input[r].scope)
    BY <1>1, <2>3, <2>4 DEF Candidate, Listable, Closes, Scoped
  <2>6. ~input[r].dry
    BY <2>2 DEF RunInv, Local
  <2>7. ASSUME NEW i \in DOMAIN Findings(r), NEW s \in Stages,
               MatchStage(issues[n].meta, Findings(r)[i], s)
        PROVE  \E m \in listed[r] \ toClose[r], t \in 1 .. s - 1 :
                   FirstMatch(issues[m].meta, Findings(r)[i], t)
    <3>1. PICK p \in Process(Known(r), Findings(r)), t \in 1 .. s - 1 :
              /\ p[1] \in DOMAIN Known(r) \ LeftKnown(r)
              /\ p[1] = n \/ p[2] = i
              /\ FirstMatch(Known(r)[p[1]], Findings(r)[p[2]], t)
      BY <2>3, <2>4, <2>7, BetterPartner DEF LeftKnown
    <3>2. p[2] = i
      BY <2>3, <3>1
    <3>. QED
      BY <2>3, <2>4, <3>1, <3>2
  <2>. QED
    BY <2>3, <2>5, <2>6, <2>7 DEF Findings
<1>2. IInv /\ [Next]_vars =>
        [\A r \in Runs, n \in Numbers : Closes(r, n) =>
            /\ ~input[r].dry
            /\ n \in listed[r]
            /\ Candidate(n, input[r].scope)
            /\ \A i \in DOMAIN NewIssues(input[r]), s \in Stages :
                  MatchStage(issues[n].meta, NewIssues(input[r])[i], s) =>
                  \E m \in listed[r] \ toClose[r], t \in 1 .. s - 1 :
                      FirstMatch(issues[m].meta, NewIssues(input[r])[i], t)]_vars
  BY <1>1
<1>. QED
  BY <1>2, AlwaysIInv, PTL DEF Spec, ClosesOnlySuperseded

(***************************************************************************)
(* A run opens an issue only when every eligible issue that was open at    *)
(* its start and matches the finding matches another finding more          *)
(* precisely: there are no duplicates but for better correlations.         *)
(***************************************************************************)
THEOREM AlwaysOpensOnlyUncovered == Spec => OpensOnlyUncovered
<1>1. ASSUME IInv, [Next]_vars, NEW r \in Runs, NEW n \in Numbers, NEW i \in toCreate[r],
             Opens(r, i, n), noClosing[r], NEW m \in atListing[r], NEW s \in Stages,
             Candidate(m, input[r].scope),
             MatchStage(issues[m].meta, NewIssues(input[r])[i], s)
      PROVE  \E j \in DOMAIN NewIssues(input[r]), t \in 1 .. s - 1 :
                 FirstMatch(issues[m].meta, NewIssues(input[r])[j], t)
  <2>1. CreateIssue(r) /\ TypeOK /\ RunInv(r)
    BY <1>1, OpensItself DEF IInv
  <2>2. m \in listed[r]
    BY <1>1, <2>1 DEF RunInv, Paged, CreateIssue
  <2>3. m \in DOMAIN Known(r) /\ Known(r)[m] = issues[m].meta
    BY <1>1, <2>2 DEF Known, KnownIssues, Candidate
  <2>4. i \in LeftNew(r) /\ i \in DOMAIN Findings(r)
    BY <2>1, LeftKnownSeen DEF RunInv, Local
  <2>5. MatchStage(Known(r)[m], Findings(r)[i], s)
    BY <1>1, <2>3 DEF Findings
  <2>6. i \in UnmatchedNew(Known(r), Findings(r))
    BY <2>4 DEF LeftNew
  <2>7. PICK p \in Process(Known(r), Findings(r)), t \in 1 .. s - 1 :
            /\ p[1] \in DOMAIN Known(r) \ UnmatchedKnown(Known(r), Findings(r))
            /\ p[2] \in DOMAIN Findings(r) \ UnmatchedNew(Known(r), Findings(r))
            /\ p[1] = m \/ p[2] = i
            /\ FirstMatch(Known(r)[p[1]], Findings(r)[p[2]], t)
    BY <2>3, <2>4, <2>5, <2>6, BetterPartner
  <2>8. p[1] = m
    BY <2>6, <2>7
  <2>. QED
    BY <2>3, <2>7, <2>8 DEF Findings
<1>2. IInv /\ [Next]_vars =>
        [\A r \in Runs, n \in Numbers : \A i \in toCreate[r] :
            Opens(r, i, n) /\ quiet[r] /\ noClosing[r] =>
            \A m \in atListing[r], s \in Stages :
                /\ Candidate(m, input[r].scope)
                /\ MatchStage(issues[m].meta, NewIssues(input[r])[i], s)
                => \E j \in DOMAIN NewIssues(input[r]), t \in 1 .. s - 1 :
                      FirstMatch(issues[m].meta, NewIssues(input[r])[j], t)]_vars
  BY <1>1
<1>. QED
  BY <1>2, AlwaysIInv, PTL DEF Spec, OpensOnlyUncovered
=============================================================================
