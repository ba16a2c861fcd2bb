------------------------------ MODULE MergeBase ------------------------------
(***************************************************************************)
(* The diff-aware baseline (internal/git/mergebase.go): ResolveMergeBase   *)
(* finds the fork point of a pull request in a clone whose history is cut, *)
(* asking the provider first, deepening the head with go-git, then with    *)
(* the git binary, and at last deepening head and base and computing it.   *)
(*                                                                         *)
(* The clone is the set of its commits and the entries of .git/shallow:    *)
(* the git binary takes these for commits without parents, go-git does     *)
(* not.  What a fetch of some depth brings and which entries it adds and   *)
(* drops is external, as the code's comments and tests describe it.        *)
(***************************************************************************)
EXTENDS Integers, Sequences, FiniteSets

CONSTANTS
    MaxCommit,      \* bound: commits of the remote
    MaxDepth,       \* bound: depth of a fetch
    Histories,      \* pull requests considered
    CloneDepths,    \* depths of the clone, 0 for all of it
    HeadLadder,     \* deepenLadder: 10, 50, 200 in the code
    MaxFaults,      \* bound: failing calls
    MaxRuns,        \* bound: fetches of the pull request into one folder
    Near(_, _, _)   \* (parents, from, depth): the commits a fetch brings

Commits == 1 .. MaxCommit
None    == 0

\* initialDeepenLadder: the commits may not be there at all.
InitialLadder == <<1>> \o HeadLadder

\* A pull request: the parents of every commit, its head and its base.  Commits
\* are numbered after their parents.
History ==
    { h \in [parents : [Commits -> SUBSET Commits], head : Commits, base : Commits] :
         \A c \in Commits : h.parents[c] \subseteq 1 .. c - 1 }

\* Depth 1 is the commits asked for, one more adds the parents.
NearOK(par, W) ==
    /\ Near(par, W, 1) = W
    /\ \A d \in 1 .. MaxDepth :
          /\ W \subseteq Near(par, W, d) /\ Near(par, W, d) \subseteq Commits
          /\ Near(par, W, d + 1) = Near(par, W, d) \cup UNION { par[c] : c \in Near(par, W, d) }

ASSUME MergeBaseAssumption ==
    /\ MaxCommit \in Nat \ {0} /\ MaxDepth \in Nat
    /\ MaxFaults \in Nat /\ MaxRuns \in Nat
    /\ CloneDepths \subseteq 0 .. MaxDepth
    /\ HeadLadder \in Seq(1 .. MaxDepth) /\ HeadLadder # << >>
    /\ Histories \subseteq History
    /\ \A h \in Histories : \A W \in SUBSET Commits : NearOK(h.parents, W)

VARIABLES
    pr,         \* the pull request
    cliAuth,    \* the git binary can authenticate (no passphrase)
    objects,    \* the clone: commits
    shallow,    \* the clone: entries of .git/shallow
    tmpRefs,    \* the clone: temporary references, by commit
    pc,         \* where ResolveMergeBase is
    rung,       \* position on the ladder
    answer,     \* what the provider's API said
    result,     \* merge_base_sha, None if absent
    runs, faults,
    disturbed   \* history: a call of this run failed

clone == <<objects, shallow, tmpRefs>>
given == <<pr, cliAuth, runs>>
vars  == <<given, clone, pc, rung, answer, result, faults, disturbed>>

-----------------------------------------------------------------------------
(***************************************************************************)
(* Commit graphs.                                                          *)
(***************************************************************************)

Closed(par, S) == \A c \in S : par[c] \subseteq S

\* c and the commits its parents lead to: in every closed set around it.
Ancestors(par, c) ==
    { a \in Commits : \A S \in SUBSET Commits : c \in S /\ Closed(par, S) => a \in S }

Common(par, a, b) == Ancestors(par, a) \cap Ancestors(par, b)

\* The answers of git merge-base: common ancestors of no other.
BestCommon(par, a, b) ==
    { c \in Common(par, a, b) :
         \A d \in Common(par, a, b) \ {c} : c \notin Ancestors(par, d) }

\* The graph the git binary sees.
Seen(par, sh) == [c \in Commits |-> IF c \in sh THEN {} ELSE par[c]]

\* git merge-base of the head and c; no answer if one is not there.
CLIMergeBase(h, obj, sh, c) ==
    IF {h.head, c} \subseteq obj THEN BestCommon(Seen(h.parents, sh), h.head, c) ELSE {}

-----------------------------------------------------------------------------
(***************************************************************************)
(* Fetches and the shallow file.                                           *)
(***************************************************************************)

Brought(W, d) == Near(pr.parents, W, d)
Boundary(W, d) == IF d = 1 THEN W ELSE Brought(W, d) \ Brought(W, d - 1)

\* Plausible bug: the entries are the first commits that are missing.
GoGitShallowBeyond(d) == shallow \cup (Brought({pr.head}, d + 1) \ Brought({pr.head}, d))

\* go-git only adds entries.
GoGitShallow(d) == shallow \cup Boundary({pr.head}, d)

\* git fetch --depth drops the entries inside and adds the new boundary, even
\* where the clone was deeper.
CLIShallow(W, d) == (shallow \ Brought(W, d)) \cup Boundary(W, d)

\* Plausible bug: one parent that is there is enough to drop the entry.
PrunedByAnyParent(obj, sh) ==
    { c \in sh : pr.parents[c] # {} /\ pr.parents[c] \cap obj = {} }

\* cleanShallowEntries: an entry stays while a parent is missing.
Pruned(obj, sh) == { c \in sh : ~(pr.parents[c] \subseteq obj) }

-----------------------------------------------------------------------------
Ended == {"idle", "done", "failed"}

Fault == faults < MaxFaults /\ faults' = faults + 1 /\ disturbed' = TRUE
NoFault == UNCHANGED <<faults, disturbed>>

\* CloneRepository of the head to some depth.
Cloned(h, d) ==
    IF d = 0 THEN Ancestors(h.parents, h.head) ELSE Near(h.parents, {h.head}, d)
ClonedShallow(h, d) ==
    IF d = 0 THEN {}
    ELSE IF d = 1 THEN {h.head}
    ELSE Cloned(h, d) \ Cloned(h, d - 1)

Init ==
    /\ pr \in Histories
    /\ cliAuth \in BOOLEAN
    /\ \E d \in CloneDepths :
          objects = Cloned(pr, d) /\ shallow = ClonedShallow(pr, d)
    /\ tmpRefs = {}
    /\ pc = "idle" /\ rung = 1 /\ answer = [kind |-> "none", sha |-> None, moved |-> FALSE]
    /\ result = None /\ runs = 0 /\ faults = 0 /\ disturbed = FALSE

\* The same pull request is fetched into the folder, again or for the first time.
Start ==
    /\ pc \in Ended
    /\ runs < MaxRuns
    /\ runs' = runs + 1
    /\ pc' = "base" /\ disturbed' = FALSE /\ result' = None
    /\ UNCHANGED <<pr, cliAuth, clone, rung, answer, faults>>

\* EnsureCommitPresent(base): a fetch of depth 1; the fetch command needs it.
EnsureBase ==
    /\ pc = "base"
    /\ \/ /\ pr.base \in objects
          /\ pc' = "api" /\ NoFault
          /\ UNCHANGED <<objects, shallow>>
       \/ /\ pr.base \notin objects
          /\ objects' = objects \cup {pr.base}
          /\ shallow' = shallow \cup {pr.base}
          /\ pc' = "api" /\ NoFault
       \/ /\ pr.base \notin objects
          /\ pc' = "failed" /\ Fault
          /\ UNCHANGED <<objects, shallow>>
    /\ UNCHANGED <<given, tmpRefs, rung, answer, result>>

Answers ==
    [kind : {"sha"}, sha : BestCommon(pr.parents, pr.head, pr.base), moved : {FALSE}]
    \cup [kind : {"sha"}, sha : Commits, moved : {TRUE}]
    \cup [kind : {"none", "empty"}, sha : {None}, moved : {FALSE}]

\* The provider is asked by names: if head or base moved since the pull request
\* was read, its answer is about other commits.
AskAPI ==
    /\ pc = "api"
    /\ \/ /\ answer' \in Answers /\ NoFault
          /\ \/ answer'.kind = "sha" /\ pc' = "check"
             \/ answer'.kind = "none" /\ pc' = "compute"
             \/ answer'.kind = "empty" /\ pc' = "done"
       \/ /\ answer' = [kind |-> "none", sha |-> None, moved |-> FALSE]
          /\ pc' = "compute" /\ Fault
    /\ UNCHANGED <<given, clone, rung, result>>

-----------------------------------------------------------------------------
(***************************************************************************)
(* ensureMergeBaseReachable for the provider's answer.                     *)
(***************************************************************************)

\* Plausible bug: go-git's IsAncestor, which walks past .git/shallow.
ReachableByLinks(obj, sh) ==
    answer.sha \in obj /\ answer.sha \in Ancestors(pr.parents, pr.head)

\* cliMergeBaseReachable
Reachable(obj, sh) == CLIMergeBase(pr, obj, sh, answer.sha) # {}

\* Plausible bug: the last rung is never tried.
LastRungTooEarly(ladder) == rung >= Len(ladder) - 1

LastRung(ladder) == rung = Len(ladder)

Accept(mb) == pc' = "done" /\ result' = mb

Leave(there) == pc' = there /\ rung' = 1 /\ UNCHANGED result

\* Prune if that works, probe; nothing was fetched yet.
Check ==
    /\ pc = "check"
    /\ \/ shallow' = Pruned(objects, shallow) /\ NoFault
       \/ shallow' = shallow /\ Fault
    /\ IF Reachable(objects, shallow')
       THEN Accept(answer.sha) /\ UNCHANGED rung
       ELSE Leave("gogit")
    /\ UNCHANGED <<given, objects, tmpRefs, answer>>

\* One go-git fetch of the head, prune, probe.  A clone that is whole is up to date.
GoGitDeepen ==
    /\ pc = "gogit"
    /\ LET d == HeadLadder[rung]
           obj == IF shallow = {} THEN objects ELSE objects \cup Brought({pr.head}, d)
           sh == Pruned(obj, IF shallow = {} THEN {} ELSE GoGitShallow(d))
       IN  /\ objects' = obj /\ shallow' = sh
           /\ IF Reachable(obj, sh)
              THEN Accept(answer.sha) /\ UNCHANGED rung /\ tmpRefs' = tmpRefs \ {pr.head}
              ELSE /\ tmpRefs' = tmpRefs \cup {pr.head}
                   /\ IF LastRung(HeadLadder)
                      THEN Leave("cli")
                      ELSE rung' = rung + 1 /\ UNCHANGED <<pc, result>>
    /\ NoFault
    /\ UNCHANGED <<given, answer>>

\* The fetch fails, or the shallow file cannot be rewritten after it.
GoGitFail ==
    /\ pc = "gogit"
    /\ Leave("cli") /\ Fault
    /\ \/ UNCHANGED clone
       \/ /\ shallow # {}
          /\ objects' = objects \cup Brought({pr.head}, HeadLadder[rung])
          /\ shallow' = GoGitShallow(HeadLadder[rung])
          /\ tmpRefs' = tmpRefs \cup {pr.head}
    /\ UNCHANGED <<given, answer>>

\* ensureMergeBaseReachableViaCLI: the head alone, and only the answer will do.
CLIDeepen ==
    /\ pc = "cli" /\ cliAuth
    /\ LET d == HeadLadder[rung]
       IN  /\ objects' = objects \cup Brought({pr.head}, d)
           /\ shallow' = CLIShallow({pr.head}, d)
    /\ tmpRefs' = tmpRefs \cup {pr.head}
    /\ \/ /\ answer.sha \in CLIMergeBase(pr, objects', shallow', answer.sha)
          /\ Leave("accepted")
       \/ /\ answer.sha \notin CLIMergeBase(pr, objects', shallow', answer.sha)
          /\ IF LastRung(HeadLadder)
             THEN Leave("refused")
             ELSE rung' = rung + 1 /\ UNCHANGED <<pc, result>>
    /\ NoFault
    /\ UNCHANGED <<given, answer>>

CLIFail ==
    /\ pc = "cli"
    /\ \/ ~cliAuth /\ NoFault
       \/ cliAuth /\ Fault
    /\ Leave("refused")
    /\ UNCHANGED <<given, clone, answer>>

\* The deferred removals run whichever way it ends.
LeaveEnsure ==
    /\ pc \in {"accepted", "refused"}
    /\ tmpRefs' = tmpRefs \ {pr.head}
    /\ IF pc = "accepted" THEN Accept(answer.sha) ELSE pc' = "compute" /\ UNCHANGED result
    /\ NoFault
    /\ UNCHANGED <<given, objects, shallow, rung, answer>>

-----------------------------------------------------------------------------
(***************************************************************************)
(* mergeBaseSHA: the fallback that computes.                               *)
(***************************************************************************)

\* Plausible bug: with no common commit in sight, where the head's history ends.
OutcomeOrEdge(mbs) ==
    IF mbs # {} THEN mbs
    ELSE { c \in Ancestors(Seen(pr.parents, shallow'), pr.head) : c \in shallow' }

Outcome(mbs) == mbs

\* Nothing to authenticate the git binary with, or it fails.  A clone is taken to
\* be whole if it is, or if asking git whether it is fails.
Compute ==
    /\ pc = "compute"
    /\ \/ ~cliAuth /\ Accept(None) /\ NoFault
       \/ cliAuth /\ Accept(None) /\ Fault
       \/ /\ cliAuth
          /\ \/ shallow = {} /\ NoFault
             \/ shallow # {} /\ Fault
          /\ LET mbs == CLIMergeBase(pr, objects, shallow, pr.base)
             IN  IF mbs = {} THEN Accept(None) ELSE \E mb \in mbs : Accept(mb)
       \/ cliAuth /\ shallow # {} /\ pc' = "both" /\ UNCHANGED result /\ NoFault
    /\ rung' = 1
    /\ UNCHANGED <<given, clone, answer>>

\* mergeBaseShallow: head and base together; any answer will do.
DeepenBoth ==
    /\ pc = "both"
    /\ LET W == {pr.head, pr.base}
           d == InitialLadder[rung]
       IN  /\ objects' = objects \cup Brought(W, d)
           /\ shallow' = CLIShallow(W, d)
           /\ LET mbs == Outcome(CLIMergeBase(pr, objects', shallow', pr.base))
              IN  \/ /\ \E mb \in mbs : Accept(mb)
                     /\ tmpRefs' = tmpRefs \ W /\ UNCHANGED rung
                  \/ /\ mbs = {} /\ LastRung(InitialLadder)
                     /\ Accept(None)
                     /\ tmpRefs' = tmpRefs \ W /\ UNCHANGED rung
                  \/ /\ mbs = {} /\ ~LastRung(InitialLadder)
                     /\ tmpRefs' = tmpRefs \cup W
                     /\ rung' = rung + 1 /\ UNCHANGED <<pc, result>>
    /\ NoFault
    /\ UNCHANGED <<given, answer>>

DeepenBothFail ==
    /\ pc = "both"
    /\ tmpRefs' = tmpRefs \ {pr.head, pr.base}
    /\ Accept(None) /\ Fault
    /\ UNCHANGED <<given, objects, shallow, rung, answer>>

Next ==
    \/ Start \/ EnsureBase \/ AskAPI
    \/ Check \/ GoGitDeepen \/ GoGitFail \/ CLIDeepen \/ CLIFail \/ LeaveEnsure
    \/ Compute \/ DeepenBoth \/ DeepenBothFail

Spec == Init /\ [][Next]_vars

-----------------------------------------------------------------------------
(***************************************************************************)
(* Correctness.                                                            *)
(***************************************************************************)

(***************************************************************************)
(* Type invariant; the shallow file lists commits that are there.          *)
(***************************************************************************)
StateOK ==
    /\ pr \in Histories
    /\ objects \subseteq Commits /\ shallow \subseteq objects
    /\ tmpRefs \subseteq {pr.head, pr.base}
    /\ pc \in Ended \cup {"base", "api", "check", "gogit", "cli", "accepted",
                         "refused", "compute", "both"}
    /\ rung \in DOMAIN InitialLadder
    /\ result \in Commits \cup {None}
    /\ runs \in 0 .. MaxRuns /\ faults \in 0 .. MaxFaults

FlagsOK == cliAuth \in BOOLEAN /\ disturbed \in BOOLEAN

AnswerOK ==
    answer \in [kind : {"sha", "none", "empty"}, sha : Commits \cup {None}, moved : BOOLEAN]

TypeOK == StateOK /\ FlagsOK /\ AnswerOK

(***************************************************************************)
(* The clone stays readable: a parent is missing only behind an entry of   *)
(* .git/shallow, however fetches of both tools and prunings follow.  git   *)
(* refuses to walk a history that is broken anywhere else.                 *)
(***************************************************************************)
NoBrokenLink == \A c \in objects \ shallow : pr.parents[c] \subseteq objects

(***************************************************************************)
(* Whatever baseline is reported, the scanner's git diff --merge-base finds*)
(* a merge base of it and the head in the clone as it was left.            *)
(***************************************************************************)
BaselineUsable ==
    pc = "done" /\ result # None =>
        CLIMergeBase(pr, objects, shallow, result) # {}

(***************************************************************************)
(* Unless head or base moved while the provider was asked, a reported      *)
(* baseline is in the history of both head and base.                       *)
(***************************************************************************)
BaselineCommon ==
    pc = "done" /\ result # None /\ ~answer.moved =>
        result \in Common(pr.parents, pr.head, pr.base)

Linear == \A c \in Commits : Cardinality(pr.parents[c]) <= 1

(***************************************************************************)
(* In a history without merges it is the fork point itself, even when it   *)
(* was computed from histories that are cut.                               *)
(***************************************************************************)
ForkPointExact ==
    pc = "done" /\ result # None /\ ~answer.moved /\ Linear =>
        result \in BestCommon(pr.parents, pr.head, pr.base)

Deepest == InitialLadder[Len(InitialLadder)]

(***************************************************************************)
(* The baseline is absent only for a reason: a call that failed, a key the *)
(* git binary cannot use, a provider that says there is none, or histories *)
(* that do not meet within the deepest rung.                               *)
(***************************************************************************)
AbsentForCause ==
    pc = "done" /\ result = None /\ ~disturbed /\ cliAuth /\ answer.kind # "empty" =>
        Brought({pr.head}, Deepest) \cap Brought({pr.base}, Deepest) = {}

(***************************************************************************)
(* Temporary references do not stay, whichever tool failed at which rung.  *)
(***************************************************************************)
NoTmpRefs == pc \in Ended => tmpRefs = {}
=============================================================================
