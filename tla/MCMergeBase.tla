----------------------------- MODULE MCMergeBase -----------------------------
(***************************************************************************)
(* Small instances of MergeBase: every pull request over at most MaxCommit *)
(* commits with up to two parents each, and one history with a merge.      *)
(***************************************************************************)
EXTENDS MergeBase

MCLadder == <<2, 3>>

\* What a fetch of depth d brings.
MCNear(par, W, d) ==
    LET near[n \in 1 .. d] ==
            IF n = 1 THEN W
            ELSE near[n - 1] \cup UNION { par[c] : c \in near[n - 1] }
    IN  near[d]

Graphs ==
    { p \in [Commits -> { S \in SUBSET Commits : Cardinality(S) <= 2 }] :
         \A c \in Commits : p[c] \subseteq 1 .. c - 1 }

\* Without commits that neither the head nor the base leads to; those are made
\* roots with the highest numbers.
AllHistories ==
    { h \in [parents : Graphs, head : Commits, base : Commits] :
         LET known == Ancestors(h.parents, h.head) \cup Ancestors(h.parents, h.base)
         IN  \A c \in Commits \ known : h.parents[c] = {} /\ known \subseteq 1 .. c - 1 }

\* A branch from before the fork point is merged into the base late:
\*     1 -- 2 -- 4 -- 5 -- 7 (base)      2 -- 6 (head)
\*      \------- 3 -------/
StaleBranch ==
    { [parents |-> << {}, {1}, {1}, {2}, {4}, {2}, {3, 5} >>, head |-> 6, base |-> 7] }
=============================================================================
