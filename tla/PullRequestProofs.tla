-------------------------- MODULE PullRequestProofs --------------------------
(***************************************************************************)
(* Proofs about PullRequest for any commits, files, requests and bounds.   *)
(***************************************************************************)
EXTENDS PullRequest, FiniteSetTheorems, SequenceTheorems, TLAPS

\* Every step of Next, with the operation whose handler takes it.
LEMMA NextCases ==
    ASSUME Next
    PROVE  \/ \E q \in Requests : Start(q)
           \/ GetPull
           \/ /\ req.op = "fetch"
              /\ \/ ListChanges \/ CloneRepo \/ FetchBase \/ WipeFiles \/ CopyFiles
                 \/ WipeLines \/ MaterializeDiff \/ Report
           \/ req.op = "status" /\ (Compare \/ SetStatus \/ SetStatusNoAnswer)
           \/ /\ req.op = "comment"
              /\ \/ \E a \in ToAttach : Upload(a) \/ UploadFail(a)
                 \/ PostComment \/ PostNoAnswer
           \/ req.op = "role" /\ (AddRole \/ AddRoleNoAnswer)
           \/ Push \/ Killed
BY Zenon DEF Next, Handling, Fetch, Status, Comment, Role, GithubFetchPR, GitlabFetchPR,
   BitbucketFetchPR, GithubSetStatus, GitlabSetStatus, BitbucketSetStatus,
   GithubAddComment, GitlabAddComment, BitbucketAddComment, GithubAddRole,
   GitlabAddRole, BitbucketAddRole

-----------------------------------------------------------------------------
(***************************************************************************)
(* Types.                                                                  *)
(***************************************************************************)

\* Where the checkout of the running fetch is made.
AfterClone == {"base", "wipeFiles", "copy", "wipeLines", "diff", "report"}

Ops == {"fetch", "comment", "role", "status"}

LEMMA ConstantsTyped ==
    /\ Empty \in [File -> Text] /\ File \subseteq Nat /\ IsFiniteSet(File)
    /\ Requests \cup {NoRequest} \subseteq Request
    /\ \A q \in Requests \cup {NoRequest} :
          q.op \in Ops /\ q.attach \in Nat /\ q.pin \in {None, "checkout", "head_sha"}
<1>0. NoRequest \in Request
  BY SMT DEF Request, NoRequest, None
<1>1. Requests \cup {NoRequest} \subseteq Request
  BY <1>0, PullRequestAssumption
<1>2. \A q \in Request :
         q.op \in Ops /\ q.attach \in Nat /\ q.pin \in {None, "checkout", "head_sha"}
  BY DEF Request, Ops
<1>3. IsFiniteSet(File)
  BY FS_Interval, PullRequestAssumption DEF File
<1>. QED
  BY <1>1, <1>2, <1>3, PullRequestAssumption DEF Empty, Absent, Text, How, File

\* What a failure costs, and what it may do to a file.
LEMMA Counted ==
    ASSUME TypeOK
    PROVE  /\ Fault => faults' \in 0 .. MaxFaults /\ UNCHANGED <<ops, pushes>>
           /\ NoFault => UNCHANGED <<ops, pushes, faults>>
           /\ \A s \in SUBSET File : Skip(s) =>
                 /\ faults' \in 0 .. MaxFaults /\ skipped' \subseteq Nat
                 /\ UNCHANGED <<ops, pushes, pushed, lost, before>>
<1>1. Fault => faults' \in 0 .. MaxFaults /\ UNCHANGED <<ops, pushes>>
  BY PullRequestAssumption DEF TypeOK, Fault
<1>2. NoFault => UNCHANGED <<ops, pushes, faults>>
  BY DEF NoFault, bounds
<1>3. ASSUME NEW s \in SUBSET File, Skip(s)
      PROVE  /\ faults' \in 0 .. MaxFaults /\ skipped' \subseteq Nat
             /\ UNCHANGED <<ops, pushes, pushed, lost, before>>
  <2>1. Cardinality(s) \in Nat
    BY ConstantsTyped, FS_Subset, FS_CardinalityType
  <2>2. faults' \in 0 .. MaxFaults
    BY <1>3, <2>1, PullRequestAssumption DEF TypeOK, Skip
  <2>. QED
    BY <1>3, <2>2, ConstantsTyped DEF TypeOK, Skip
<1>. QED
  BY <1>1, <1>2, <1>3

\* A call is repeated or the command fails.
LEMMA Unanswered ==
    ASSUME TypeOK, NoAnswer
    PROVE  /\ tries' \in 0 .. MaxRetries /\ Fault
           /\ \/ tries' = tries + 1 /\ pc' = pc /\ outcome' = outcome
              \/ tries' = tries /\ pc' = "idle" /\ outcome' = "failed"
<1>1. tries \in Nat /\ tries <= MaxRetries
  BY PullRequestAssumption DEF TypeOK
<1>. QED
  BY <1>1, PullRequestAssumption DEF NoAnswer, Repeat, GiveUp, End

\* Where a command goes when it has read the pull request.
LEMMA AfterGet ==
    ASSUME TypeOK, GetPull
    PROVE  /\ pc = "get" /\ pushed' = FALSE
           /\ UNCHANGED <<world, server, disk, req, page, listed, sent, tries, report,
                          skipped, lost, before>>
           /\ \/ /\ got'.head \in {head, None} /\ got'.base = BaseOf
                 /\ got' = [head |-> got'.head, base |-> got'.base]
                 /\ req.op # "status" => got'.head = head
                 /\ outcome' = outcome
                 /\ \/ req.op = "fetch" /\ pc' = "list"
                    \/ req.op = "comment" /\ pc' = "upload"
                    \/ req.op = "role" /\ pc' = "add"
                    \/ req.op = "status" /\ pc' = "compare"
                 /\ NoFault
              \/ got' = got /\ pc' = "idle" /\ outcome' = "failed" /\ Fault
<1>1. req.op \in Ops
  BY ConstantsTyped DEF TypeOK
<1>. QED
  BY <1>1 DEF GetPull, Goto, End, Ops

\* A running fetch knows the head and the base, and later has a checkout.
HeadsThere ==
    req.op = "fetch" =>
        /\ pc \notin {"idle", "get"} => got.head \in HeadLine /\ got.base \in BaseLine
        /\ pc \in AfterClone => repo \in HeadLine

TInv == TypeOK /\ HeadsThere

LEMMA TypeInit == Init => TInv
BY ConstantsTyped, PullRequestAssumption
   DEF Init, TInv, TypeOK, HeadsThere, PullOrNone, NoPull, NoReport, None, Providers, AfterClone

\* Steps that go on in a fetch, or end it.
LEMMA StillThere ==
    ASSUME TInv, UNCHANGED <<req, got, repo>>,
           pc' \in AfterClone => pc \in AfterClone,
           pc' \notin {"idle", "get"} => pc \notin {"idle", "get"}
    PROVE  HeadsThere'
BY DEF TInv, HeadsThere

LEMMA TypeStep == TInv /\ [Next]_vars => TInv'
<1> SUFFICES ASSUME TInv, [Next]_vars PROVE TInv'
  OBVIOUS
<1> USE DEF world, server, disk, command, history
<1>0. TypeOK
  BY DEF TInv
<1>1. ASSUME NEW q \in Requests, Start(q) PROVE TInv'
  BY <1>0, <1>1, PullRequestAssumption
     DEF Start, TInv, TypeOK, NoPull, PullOrNone, HeadsThere, AfterClone
<1>2. ASSUME GetPull PROVE TInv'
  <2>1. BaseOf \in BaseLine
    BY <1>0, PullRequestAssumption DEF TypeOK, BaseOf
  <2>2. got' \in [head : PullOrNone, base : BaseLine \cup {None}]
    BY <1>0, <1>2, <2>1, AfterGet DEF TypeOK, PullOrNone
  <2>3. TypeOK'
    BY <1>0, <1>2, <2>2, AfterGet, Counted DEF TypeOK
  <2>4. HeadsThere'
    BY <1>0, <1>2, <2>1, AfterGet DEF TypeOK, HeadsThere, AfterClone
  <2>. QED
    BY <2>3, <2>4 DEF TInv
<1>3. ASSUME req.op = "fetch", ListChanges PROVE TInv'
  <2>1. listed' \subseteq File
    BY <1>0, <1>3 DEF ListChanges, TypeOK, OnPage, Changed
  <2>2. TypeOK'
    BY <1>0, <1>3, <2>1, Counted DEF ListChanges, TypeOK
  <2>3. HeadsThere'
    BY <1>3 DEF TInv, HeadsThere, ListChanges, Goto, End, AfterClone
  <2>. QED
    BY <2>2, <2>3 DEF TInv
<1>4. ASSUME req.op = "fetch", CloneRepo PROVE TInv'
  <2>1. \/ repo' \in HeadLine
        \/ repo' = repo /\ pc' = "idle"
    BY <1>0, <1>4 DEF CloneRepo, TInv, TypeOK, HeadsThere, End
  <2>2. TypeOK'
    BY <1>0, <1>4, <2>1, Counted DEF CloneRepo, TypeOK, PullOrNone
  <2>3. HeadsThere'
    BY <1>4, <2>1 DEF TInv, HeadsThere, CloneRepo, AfterClone
  <2>. QED
    BY <2>2, <2>3 DEF TInv
<1>5. ASSUME FetchBase \/ WipeFiles \/ WipeLines PROVE TInv'
  <2>1. TypeOK'
    BY <1>0, <1>5, Counted, ConstantsTyped DEF FetchBase, WipeFiles, WipeLines, TypeOK
  <2>. QED
    BY <1>5, <2>1, StillThere DEF TInv, FetchBase, WipeFiles, WipeLines, Goto, End, AfterClone
<1>6. ASSUME req.op = "fetch", CopyFiles PROVE TInv'
  <2>1. repo \in HeadLine
    BY <1>6 DEF CopyFiles, TInv, HeadsThere, AfterClone
  <2>2. \A f \in File : content[repo][f] \in Text
    BY <1>0, <2>1, PullRequestAssumption DEF TypeOK, Commit
  <2>3. \A s : Copied(listed \ s) \in [File -> Text]
    BY <1>0, <2>2 DEF TypeOK, Copied
  <2>4. \/ \E s \in SUBSET File : Skip(s)
        \/ Fault /\ UNCHANGED history
    BY <1>0, <1>6 DEF CopyFiles, TypeOK
  <2>5. TypeOK'
    BY <1>0, <1>6, <2>3, <2>4, Counted DEF CopyFiles, TypeOK
  <2>. QED
    BY <1>6, <2>5, StillThere DEF TInv, CopyFiles, Goto, End, AfterClone
<1>7. ASSUME req.op = "fetch", MaterializeDiff PROVE TInv'
  <2>1. \A f \in File : Added(f) \in SUBSET Line
    <3>1. got.head \in Commit /\ got.base \in Commit
      BY <1>7 DEF MaterializeDiff, TInv, HeadsThere, Commit
    <3>. QED
      BY <1>0, <3>1, PullRequestAssumption DEF TypeOK, Added, Text
  <2>2. \A fs : Sparse(fs) \in [File -> Text]
    BY <1>0, <2>1 DEF TypeOK, Sparse, Text, How
  <2>3. Selected \subseteq File
    BY <1>0 DEF TypeOK, Selected
  <2>4. \/ \E s \in SUBSET File : Skip(s)
        \/ Fault /\ UNCHANGED history
    BY <1>7, <2>3 DEF MaterializeDiff
  <2>5. TypeOK'
    BY <1>0, <1>7, <2>2, <2>4, Counted DEF MaterializeDiff, TypeOK
  <2>. QED
    BY <1>7, <2>5, StillThere DEF TInv, MaterializeDiff, Goto, End, AfterClone
<1>8. ASSUME req.op = "fetch", Report PROVE TInv'
  <2>1. repo \in HeadLine /\ got.head \in HeadLine
    BY <1>8 DEF Report, TInv, HeadsThere, AfterClone
  <2>2. report'.tree \in PullOrNone /\ report'.headSha \in PullOrNone
    BY <1>8, <2>1 DEF Report, PullOrNone
  <2>3. TypeOK'
    BY <1>0, <1>8, <2>2, Counted DEF Report, TypeOK
  <2>. QED
    BY <1>8, <2>3, StillThere DEF TInv, Report, End, AfterClone
<1>9. ASSUME req.op = "status", Compare \/ SetStatus \/ SetStatusNoAnswer PROVE TInv'
  <2>3. SetStatusNoAnswer => TypeOK'
    BY <1>0, Counted, Unanswered DEF SetStatusNoAnswer, TypeOK
  <2>1. TypeOK'
    BY <1>0, <1>9, <2>3, Counted DEF Compare, SetStatus, TypeOK
  <2>2. HeadsThere'
    BY <1>9 DEF Compare, SetStatus, SetStatusNoAnswer, HeadsThere
  <2>. QED
    BY <2>1, <2>2 DEF TInv
<1>10. ASSUME req.op = "comment", NEW a \in ToAttach, Upload(a) \/ UploadFail(a) PROVE TInv'
  <2>1. a \in Nat
    <3>1. req.attach \in Nat
      BY <1>0, ConstantsTyped DEF TypeOK
    <3>. QED
      BY <3>1 DEF ToAttach
  <2>2. TypeOK'
    BY <1>0, <1>10, <2>1, Counted DEF Upload, UploadFail, TypeOK
  <2>3. HeadsThere'
    BY <1>10 DEF Upload, UploadFail, HeadsThere
  <2>. QED
    BY <2>2, <2>3 DEF TInv
<1>11. ASSUME req.op = "comment", PostComment \/ PostNoAnswer PROVE TInv'
  <2>1. sent \in SUBSET Nat
    BY <1>0 DEF TypeOK
  <2>2. comments' \in Seq(SUBSET Nat)
    <3>1. comments' \in {comments, Append(comments, sent)}
      BY <1>11 DEF PostComment, PostNoAnswer
    <3>2. Append(comments, sent) \in Seq(SUBSET Nat)
      BY <1>0, <2>1, AppendProperties DEF TypeOK
    <3>. QED
      BY <1>0, <3>1, <3>2 DEF TypeOK
  <2>4. PostComment => TypeOK'
    BY <1>0, <2>2, Counted DEF PostComment, TypeOK
  <2>5. PostNoAnswer => TypeOK'
    BY <1>0, <2>2, Counted, Unanswered DEF PostNoAnswer, TypeOK
  <2>3. HeadsThere'
    BY <1>11 DEF PostComment, PostNoAnswer, HeadsThere
  <2>. QED
    BY <1>11, <2>3, <2>4, <2>5 DEF TInv
<1>12. ASSUME req.op = "role", AddRole \/ AddRoleNoAnswer PROVE TInv'
  <2>1. WithReviewer \subseteq {"ann", "bot"}
    BY <1>0 DEF TypeOK, WithReviewer
  <2>4. AddRole => TypeOK'
    BY <1>0, <2>1, Counted DEF AddRole, TypeOK
  <2>5. AddRoleNoAnswer => TypeOK'
    BY <1>0, <2>1, Counted, Unanswered DEF AddRoleNoAnswer, TypeOK
  <2>3. HeadsThere'
    BY <1>12 DEF AddRole, AddRoleNoAnswer, HeadsThere
  <2>. QED
    BY <1>12, <2>3, <2>4, <2>5 DEF TInv
<1>13. ASSUME Push PROVE TInv'
  BY <1>0, <1>13, PullRequestAssumption DEF Push, TInv, TypeOK, HeadsThere
<1>14. ASSUME Killed PROVE TInv'
  <2>1. TypeOK'
    BY <1>0, <1>14, Counted DEF Killed, TypeOK
  <2>. QED
    BY <1>14, <2>1, StillThere DEF TInv, Killed, End, AfterClone
<1>15. ASSUME UNCHANGED vars PROVE TInv'
  BY <1>15 DEF vars, bounds, TInv, TypeOK, HeadsThere
<1>. QED
  BY <1>1, <1>2, <1>3, <1>4, <1>5, <1>6, <1>7, <1>8, <1>9, <1>10, <1>11, <1>12,
     <1>13, <1>14, <1>15, NextCases

\* Type correctness, and that no command reads a commit it does not have: the
\* handlers of the three plugins.
THEOREM TypeCorrect == Spec => []TypeOK
<1>1. TInv => TypeOK
  BY DEF TInv
<1>. QED
  BY TypeInit, TypeStep, <1>1, PTL DEF Spec

-----------------------------------------------------------------------------
(***************************************************************************)
(* Verdicts.                                                               *)
(***************************************************************************)

ClonedHead == pc \in AfterClone /\ ByCommit => repo = got.head

\* The head that a fetch by commit has reported is the one it has checked out.
ReportedHead ==
    ByCommitReport(report) /\ report.headSha # None => report.headSha = report.tree

\* What the command knows about the head until somebody pushes.
HeadKnown == pc \in {"compare", "set"} => pushed \/ got.head \in {None, head}
PinMatched == pc = "set" => got.head = None \/ Pin \in {None, got.head}

VInv == ClonedHead /\ ReportedHead /\ HeadKnown /\ PinMatched /\ VerdictOnScanned

LEMMA VerdictInit == Init => VInv
BY DEF Init, VInv, ClonedHead, ReportedHead, HeadKnown, PinMatched, VerdictOnScanned,
       AfterClone, NoReport, None

\* Steps that neither read the head nor set a verdict.
LEMMA VerdictQuiet ==
    ASSUME VInv,
           UNCHANGED <<forked, head, verdicts, repo, req, got, report, pushed>>,
           pc' \notin {"compare", "set"} \/ pc' = pc,
           pc' \in AfterClone => pc \in AfterClone
    PROVE  VInv'
<1> USE DEF VInv
<1>1. ClonedHead'
  BY DEF ClonedHead, ByCommit
<1>2. ReportedHead'
  BY DEF ReportedHead, ByCommitReport
<1>3. HeadKnown' /\ PinMatched'
  BY DEF HeadKnown, PinMatched, Pin
<1>4. VerdictOnScanned'
  BY DEF VerdictOnScanned, ByCommitReport
<1>. QED
  BY <1>1, <1>2, <1>3, <1>4

LEMMA VerdictStep == TypeOK /\ VInv /\ [Next]_vars => VInv'
<1> SUFFICES ASSUME TypeOK, VInv, [Next]_vars PROVE VInv'
  OBVIOUS
<1> USE DEF world, server, disk, command, history, bounds
<1> HIDE DEF VInv
<1>1. ASSUME NEW q \in Requests, Start(q) PROVE VInv'
  BY <1>1 DEF Start, VInv, ClonedHead, ReportedHead, HeadKnown, PinMatched,
              VerdictOnScanned, ByCommitReport, AfterClone
<1>2. ASSUME GetPull PROVE VInv'
  <2>1. UNCHANGED <<forked, head, verdicts, repo, req, report>> /\ pc' \notin AfterClone \cup {"set"}
    BY <1>2, AfterGet DEF AfterClone
  <2>2. pc' = "compare" => got'.head \in {None, head}
    BY <1>2, AfterGet
  <2>3. ClonedHead' /\ ReportedHead' /\ VerdictOnScanned'
    BY <2>1 DEF VInv, ClonedHead, ReportedHead, VerdictOnScanned, ByCommitReport
  <2>. QED
    BY <2>1, <2>2, <2>3 DEF VInv, HeadKnown, PinMatched
<1>3. ASSUME CloneRepo PROVE VInv'
  <2>1. /\ UNCHANGED <<forked, head, verdicts, req, got, report, pushed>>
        /\ pc' \notin {"compare", "set"}
    BY <1>3 DEF CloneRepo, Goto, End
  <2>2. pc' \in AfterClone /\ ByCommit => repo' = got.head
    BY <1>3 DEF CloneRepo, Goto, End, AfterClone
  <2>3. ClonedHead' /\ HeadKnown' /\ PinMatched'
    BY <2>1, <2>2 DEF ClonedHead, ByCommit, HeadKnown, PinMatched
  <2>. QED
    BY <2>1, <2>3 DEF VInv, ReportedHead, VerdictOnScanned, ByCommitReport
<1>4. ASSUME Report PROVE VInv'
  <2>1. /\ UNCHANGED <<forked, head, verdicts, repo, req, got, pushed>>
        /\ pc = "report" /\ pc' = "idle"
        /\ report'.tree = repo /\ report'.mode = req.mode
        /\ report'.headSha \in {None, got.head}
    BY <1>4 DEF Report, End
  <2>2. ByCommitReport(report') => repo = got.head
    BY <2>1 DEF VInv, ClonedHead, AfterClone, ByCommit, ByCommitReport
  <2>3. ReportedHead'
    BY <2>1, <2>2 DEF ReportedHead, ByCommitReport
  <2>. QED
    BY <2>1, <2>3 DEF VInv, ClonedHead, HeadKnown, PinMatched, VerdictOnScanned,
                      ByCommitReport, AfterClone
<1>5. ASSUME Compare PROVE VInv'
  <2>1. /\ UNCHANGED <<forked, head, verdicts, repo, req, got, report, pushed>>
        /\ pc = "compare" /\ pc' \in {"idle", "set"}
        /\ pc' = "set" => got.head = None \/ Pin \in {None, got.head}
    BY <1>5 DEF Compare, Goto, End
  <2>. QED
    BY <2>1 DEF VInv, ClonedHead, ReportedHead, HeadKnown, PinMatched, Pin,
                VerdictOnScanned, ByCommitReport, AfterClone
<1>6. ASSUME SetStatus \/ SetStatusNoAnswer PROVE VInv'
  <2> DEFINE v == Verdict
  <2>1. /\ UNCHANGED <<forked, head, repo, req, got, report, pushed>>
        /\ pc = "set" /\ pc' \in {"idle", "set"}
        /\ verdicts' \in {verdicts, verdicts \cup {v}}
    BY <1>6 DEF SetStatus, SetStatusNoAnswer, NoAnswer, Repeat, GiveUp, End
  <2>2. v.pin # None /\ (ByCommitReport(v.report) \/ v.pin = v.report.tree) =>
            v.on = v.report.tree \/ v.late \/ v.blind
    <3>1. Pin # None /\ ~pushed /\ got.head # None => Pin = head
      BY <2>1 DEF VInv, HeadKnown, PinMatched
    <3>2. Pin # None /\ ByCommitReport(report) => Pin = report.tree
      <4>1. req.pin \in {None, "checkout", "head_sha"}
        BY ConstantsTyped DEF TypeOK
      <4>2. Pin \in {None, report.tree, report.headSha}
        BY <4>1 DEF Pin
      <4>. QED
        BY <4>2 DEF VInv, ReportedHead
    <3>. QED
      BY <3>1, <3>2 DEF Verdict
  <2>3. VerdictOnScanned'
    BY <2>1, <2>2 DEF VInv, VerdictOnScanned, ByCommitReport
  <2>. QED
    BY <2>1, <2>3 DEF VInv, ClonedHead, ReportedHead, HeadKnown, PinMatched, Pin,
                      ByCommitReport, AfterClone
<1>7. ASSUME Push PROVE VInv'
  BY <1>7 DEF Push, VInv, ClonedHead, ByCommit, ReportedHead, ByCommitReport,
              HeadKnown, PinMatched, Pin, VerdictOnScanned
<1>8. ASSUME ListChanges \/ FetchBase \/ WipeFiles \/ CopyFiles \/ WipeLines
             \/ MaterializeDiff
      PROVE VInv'
  <2>1. UNCHANGED <<forked, head, verdicts, repo, req, got, report, pushed>>
    BY <1>8 DEF ListChanges, FetchBase, WipeFiles, CopyFiles, WipeLines, MaterializeDiff,
                Skip
  <2>2. /\ pc' \notin {"compare", "set"}
        /\ pc' \in AfterClone => pc \in AfterClone
    BY <1>8 DEF ListChanges, FetchBase, WipeFiles, CopyFiles, WipeLines, MaterializeDiff,
                Goto, End, AfterClone
  <2>. QED
    BY <2>1, <2>2, VerdictQuiet
<1>9. ASSUME \/ \E a \in ToAttach : Upload(a) \/ UploadFail(a)
             \/ PostComment \/ PostNoAnswer \/ AddRole \/ AddRoleNoAnswer \/ Killed
      PROVE VInv'
  <2>1. /\ UNCHANGED <<forked, head, verdicts, repo, req, got, report, pushed>>
        /\ pc' = pc \/ pc' = "idle"
    BY <1>9 DEF Upload, UploadFail, PostComment, PostNoAnswer, AddRole, AddRoleNoAnswer,
                NoAnswer, Repeat, GiveUp, Killed, End
  <2>. QED
    BY <2>1, VerdictQuiet DEF AfterClone
<1>10. ASSUME UNCHANGED vars PROVE VInv'
  BY <1>10, VerdictQuiet DEF vars
<1>. QED
  BY <1>1, <1>2, <1>3, <1>4, <1>5, <1>6, <1>7, <1>8, <1>9, <1>10, NextCases

\* A verdict asked for with a commit is on the files of the checkout, unless the
\* author pushed after the command read the head or the provider named none:
\* SetStatusOfPR of every plugin, after fetchPR.
THEOREM VerdictsOnScanned == Spec => []VerdictOnScanned
<1>1. VInv => VerdictOnScanned
  BY DEF VInv
<1>. QED
  BY VerdictInit, VerdictStep, TypeCorrect, <1>1, PTL DEF Spec

-----------------------------------------------------------------------------
(***************************************************************************)
(* What a fetch leaves on the disk.                                        *)
(***************************************************************************)
FilesOfTree ==
    \A f \in File : diffFiles[f].there => f \in listed /\ diffFiles[f] = content[repo][f]
LinesOfHead ==
    \A f \in File : diffLines[f].there =>
        f \in Selected /\ diffLines[f].lines \subseteq content[got.head][f].lines

\* The diff folders hold nothing, and later nothing but files of this fetch.
Folders ==
    req.op = "fetch" =>
        /\ pc = "copy" => \A f \in File : diffFiles[f] = Absent
        /\ pc \in {"wipeLines", "diff", "report"} /\ req.files => FilesOfTree
        /\ pc = "diff" => \A f \in File : ~diffLines[f].there
        /\ pc = "report" /\ req.lines => LinesOfHead

FInv == Folders /\ FetchIsOneCommit

LEMMA FetchInit == Init => FInv
BY DEF Init, FInv, Folders, FetchIsOneCommit, Fetched, NoRequest

\* Steps that leave the disk alone, go on at the same place or end otherwise than well.
LEMMA FetchQuiet ==
    ASSUME FInv,
           UNCHANGED <<forked, content, repo, diffFiles, diffLines, req, got, listed, report>>,
           \/ pc' = pc /\ outcome' = outcome
           \/ pc' = "idle" /\ (outcome' # "ok" \/ req.op # "fetch")
           \/ req.op # "fetch"
    PROVE  FInv'
BY DEF FInv, Folders, FilesOfTree, LinesOfHead, Selected, FetchIsOneCommit, Fetched,
       ByCommitReport

LEMMA FetchStep == TInv /\ VInv /\ FInv /\ [Next]_vars => FInv'
<1> SUFFICES ASSUME TInv, VInv, FInv, [Next]_vars PROVE FInv'
  OBVIOUS
<1> USE DEF world, server, disk, command, history
<1>0. TypeOK
  BY DEF TInv
<1> HIDE DEF FInv
<1>1. ASSUME NEW q \in Requests, Start(q) PROVE FInv'
  BY <1>1 DEF Start, FInv, Folders, FetchIsOneCommit, Fetched
<1>2. ASSUME GetPull PROVE FInv'
  <2>1. pc' \in {"list", "upload", "add", "compare"} \/ (pc' = "idle" /\ outcome' = "failed")
    BY <1>0, <1>2, AfterGet
  <2>. QED
    BY <2>1 DEF FInv, Folders, FetchIsOneCommit, Fetched
<1>3. ASSUME ListChanges \/ CloneRepo \/ FetchBase PROVE FInv'
  <2>1. \/ pc' \in {"list", "clone", "base", "wipeFiles"}
        \/ pc' \in {"wipeLines", "report"} /\ UNCHANGED req /\ ~req.files
             /\ (pc' = "report" => ~req.lines)
        \/ pc' = "idle" /\ outcome' = "failed"
    BY <1>3 DEF ListChanges, CloneRepo, FetchBase, Goto, End
  <2>. QED
    BY <2>1 DEF FInv, Folders, FetchIsOneCommit, Fetched
<1>4. ASSUME WipeFiles PROVE FInv'
  <2>1. \/ pc' = "copy" /\ diffFiles' = Empty
        \/ pc' = "idle" /\ outcome' = "failed"
    BY <1>4 DEF WipeFiles, Goto, End
  <2>. QED
    BY <2>1 DEF FInv, Folders, FetchIsOneCommit, Fetched, Empty
<1>5. ASSUME req.op = "fetch", CopyFiles PROVE FInv'
  <2>1. UNCHANGED <<content, repo, req, listed>>
    BY <1>5 DEF CopyFiles
  <2>2. \/ /\ pc' = "wipeLines" \/ (pc' = "report" /\ ~req.lines)
           /\ \E s \in SUBSET listed : diffFiles' = Copied(listed \ s)
        \/ pc' = "idle" /\ outcome' = "failed"
    BY <1>5 DEF CopyFiles, Goto, End
  <2>3. ASSUME NEW s \in SUBSET listed, diffFiles' = Copied(listed \ s) PROVE FilesOfTree'
    <3>1. \A f \in File : ~diffFiles[f].there
      BY <1>5 DEF CopyFiles, FInv, Folders, Absent
    <3>2. \A f \in File : diffFiles'[f] = IF f \in listed \ s THEN content[repo][f] ELSE diffFiles[f]
      BY <2>3 DEF Copied
    <3>. QED
      BY <2>1, <3>1, <3>2 DEF FilesOfTree
  <2>. QED
    BY <2>1, <2>2, <2>3 DEF FInv, Folders, FetchIsOneCommit, Fetched
<1>6. ASSUME req.op = "fetch", WipeLines PROVE FInv'
  <2>1. UNCHANGED <<content, repo, req, listed, diffFiles>>
    BY <1>6 DEF WipeLines
  <2>2. \/ pc' = "diff" /\ diffLines' = Empty
        \/ pc' = "idle" /\ outcome' = "failed"
    BY <1>6 DEF WipeLines, Goto, End
  <2>3. req.files => FilesOfTree
    BY <1>6 DEF WipeLines, FInv, Folders
  <2>. QED
    BY <2>1, <2>2, <2>3 DEF FInv, Folders, FilesOfTree, FetchIsOneCommit, Fetched, Empty, Absent
<1>7. ASSUME req.op = "fetch", MaterializeDiff PROVE FInv'
  <2>1. UNCHANGED <<content, repo, req, got, listed, diffFiles>>
    BY <1>7 DEF MaterializeDiff
  <2>2. \/ /\ pc' = "report"
           /\ \E fs \in SUBSET Selected : diffLines' = Sparse(fs)
        \/ pc' = "idle" /\ outcome' = "failed"
    BY <1>7 DEF MaterializeDiff, Goto, End
  <2>3. req.files => FilesOfTree
    BY <1>7 DEF MaterializeDiff, FInv, Folders
  <2>4. ASSUME NEW fs \in SUBSET Selected, diffLines' = Sparse(fs) PROVE LinesOfHead'
    <3>1. \A f \in File : ~diffLines[f].there
      BY <1>7 DEF MaterializeDiff, FInv, Folders
    <3>2. \A f \in File : diffLines'[f] =
            IF f \in fs THEN [there |-> TRUE, how |-> "edit", lines |-> Added(f)]
            ELSE diffLines[f]
      BY <2>4 DEF Sparse
    <3>3. \A f \in File : Added(f) \subseteq content[got.head][f].lines
      BY DEF Added
    <3>4. ASSUME NEW f \in File, diffLines'[f].there
          PROVE  f \in Selected /\ diffLines'[f].lines = Added(f)
      <4>1. f \in fs
        BY <3>1, <3>2, <3>4
      <4>2. diffLines'[f] = [there |-> TRUE, how |-> "edit", lines |-> Added(f)]
        BY <3>2, <4>1
      <4>. QED
        BY <4>1, <4>2
    <3>5. Selected' = Selected
      BY <2>1 DEF Selected
    <3>. QED
      BY <2>1, <3>3, <3>4, <3>5 DEF LinesOfHead
  <2>. QED
    BY <2>1, <2>2, <2>3, <2>4 DEF FInv, Folders, FilesOfTree, FetchIsOneCommit, Fetched
<1>8. ASSUME req.op = "fetch", Report PROVE FInv'
  <2>1. /\ UNCHANGED <<forked, content, repo, req, got, listed, diffFiles, diffLines>>
        /\ pc = "report" /\ pc' = "idle"
        /\ report'.head = got.head /\ report'.mode = req.mode
        /\ report'.files = req.files /\ report'.lines = req.lines
    BY <1>8 DEF Report, End
  <2>2. ByCommitReport(report') => repo = got.head
    BY <2>1 DEF VInv, ClonedHead, AfterClone, ByCommit, ByCommitReport
  <2>3. (req.files => FilesOfTree) /\ (req.lines => LinesOfHead)
    BY <1>8, <2>1 DEF FInv, Folders
  <2>4. FetchIsOneCommit'
    BY <2>1, <2>2, <2>3 DEF FetchIsOneCommit, FilesOfTree, LinesOfHead, Selected, ByCommitReport
  <2>. QED
    BY <2>1, <2>4 DEF FInv, Folders
<1>9. ASSUME req.op # "fetch",
             \/ Compare \/ SetStatus \/ SetStatusNoAnswer
             \/ \E a \in ToAttach : Upload(a) \/ UploadFail(a)
             \/ PostComment \/ PostNoAnswer \/ AddRole \/ AddRoleNoAnswer
      PROVE FInv'
  <2>1. UNCHANGED <<forked, content, repo, diffFiles, diffLines, req, got, listed, report>>
    BY <1>9 DEF Compare, SetStatus, SetStatusNoAnswer, Upload, UploadFail, PostComment,
                PostNoAnswer, AddRole, AddRoleNoAnswer
  <2>. QED
    BY <1>9, <2>1, FetchQuiet
<1>10. ASSUME Push \/ Killed \/ UNCHANGED vars PROVE FInv'
  <2>1. UNCHANGED <<forked, content, repo, diffFiles, diffLines, req, got, listed, report>>
    BY <1>10 DEF Push, Killed, vars
  <2>2. (pc' = pc /\ outcome' = outcome) \/ (pc' = "idle" /\ outcome' = "killed")
    BY <1>10 DEF Push, Killed, End, vars
  <2>. QED
    BY <2>1, <2>2, FetchQuiet
<1>. QED
  BY <1>1, <1>2, <1>3, <1>4, <1>5, <1>6, <1>7, <1>8, <1>9, <1>10, NextCases

\* The checkout, the files and the lines a fetch by commit leaves are of the head
\* it reports, and nothing of an earlier run is among them: fetchPR of every plugin.
THEOREM FetchesOneCommit == Spec => []FetchIsOneCommit
<1>1. Spec => []TInv
  BY TypeInit, TypeStep, PTL DEF Spec
<1>2. TInv => TypeOK
  BY DEF TInv
<1>3. Spec => []VInv
  BY VerdictInit, VerdictStep, <1>1, <1>2, PTL DEF Spec
<1>4. FInv => FetchIsOneCommit
  BY DEF FInv
<1>. QED
  BY FetchInit, FetchStep, <1>1, <1>3, <1>4, PTL DEF Spec

-----------------------------------------------------------------------------
(***************************************************************************)
(* Comments.                                                               *)
(***************************************************************************)
New == Len(comments) - before

\* Before the last call there is a comment for an attempt whose answer was lost, or none.
Commenting ==
    req.op = "comment" =>
        /\ pc \in {"idle", "get", "upload"}
        /\ pc \in {"get", "upload"} =>
              /\ New \in 0 .. tries /\ (lost \/ New = 0)
              /\ provider # "gitlab" => skipped = {}
        /\ pc = "get" => New = 0 /\ skipped = {}

CInv == Commenting /\ CommentOnce

LEMMA CommentInit == Init => CInv
BY DEF Init, CInv, Commenting, CommentOnce, NoRequest

\* Steps outside a comment, and those that end one in between.
LEMMA CommentQuiet ==
    ASSUME CInv, UNCHANGED <<provider, req, comments, sent, tries, lost, before>>,
           \/ req.op # "comment"
           \/ pc' = pc /\ outcome' = outcome /\ skipped' = skipped
           \/ pc' = "idle" /\ outcome' = "killed"
    PROVE  CInv'
BY DEF CInv, Commenting, New, CommentOnce, ToAttach

LEMMA CommentStep == TInv /\ CInv /\ [Next]_vars => CInv'
<1> SUFFICES ASSUME TInv, CInv, [Next]_vars PROVE CInv'
  OBVIOUS
<1> USE DEF world, server, disk, command, history
<1>0. TypeOK /\ Len(comments) \in Nat /\ before \in Nat /\ tries \in Nat /\ New \in Int
  BY PullRequestAssumption, LenProperties DEF TInv, TypeOK, New
<1>1. ASSUME NEW q \in Requests, Start(q) PROVE CInv'
  BY <1>0, <1>1 DEF Start, CInv, Commenting, CommentOnce, New
<1>2. ASSUME GetPull PROVE CInv'
  <2>1. UNCHANGED <<provider, req, comments, sent, tries, lost, before, skipped>> /\ pc = "get"
    BY <1>0, <1>2, AfterGet
  <2>2. req.op = "comment" => pc' = "upload" \/ (pc' = "idle" /\ outcome' = "failed")
    BY <1>0, <1>2, AfterGet
  <2>. QED
    BY <1>0, <2>1, <2>2 DEF CInv, Commenting, CommentOnce, New
<1>3. ASSUME req.op = "comment", NEW a \in ToAttach, Upload(a) PROVE CInv'
  BY <1>3 DEF Upload, CInv, Commenting, CommentOnce, New
<1>4. ASSUME req.op = "comment", NEW a \in ToAttach, UploadFail(a) PROVE CInv'
  <2>1. /\ UNCHANGED <<provider, req, comments, sent, tries, lost, before>> /\ pc = "upload"
        /\ \/ provider = "gitlab" /\ pc' = pc
           \/ pc' = "idle" /\ outcome' = "failed" /\ skipped' = skipped
    BY <1>4 DEF UploadFail, End
  <2>. QED
    BY <1>0, <1>4, <2>1 DEF CInv, Commenting, CommentOnce, New
<1>5. ASSUME req.op = "comment", PostComment PROVE CInv'
  <2>1. /\ UNCHANGED <<provider, req, sent, tries, lost, before, skipped>>
        /\ pc = "upload" /\ pc' = "idle" /\ outcome' = "ok"
        /\ ToAttach = sent \cup skipped
        /\ comments' = Append(comments, sent)
    BY <1>5 DEF PostComment, Uploaded, End
  <2>2. Len(comments') = Len(comments) + 1 /\ comments'[Len(comments')] = sent
    BY <1>0, <2>1, AppendProperties DEF TypeOK
  <2>3. ToAttach' = sent \cup (IF provider = "gitlab" THEN skipped ELSE {})
    BY <1>5, <2>1 DEF CInv, Commenting, ToAttach
  <2>4. New' = New + 1
    BY <1>0, <2>1, <2>2 DEF New
  <2>. QED
    BY <1>0, <1>5, <2>1, <2>2, <2>3, <2>4 DEF CInv, Commenting, CommentOnce, New
<1>6. ASSUME req.op = "comment", PostNoAnswer PROVE CInv'
  <2>1. /\ UNCHANGED <<provider, req, sent, before, skipped>>
        /\ pc = "upload"
        /\ \/ comments' = Append(comments, sent) /\ lost' = TRUE
           \/ UNCHANGED <<comments, lost>>
        /\ \/ tries' = tries + 1 /\ pc' = pc
           \/ tries' = tries /\ pc' = "idle" /\ outcome' = "failed"
    BY <1>0, <1>6, Unanswered DEF PostNoAnswer, Uploaded
  <2>2. Len(Append(comments, sent)) = Len(comments) + 1
    BY <1>0, AppendProperties DEF TypeOK
  <2>3. \/ New' = New + 1 /\ lost' = TRUE
        \/ New' = New /\ lost' = lost
    BY <1>0, <2>1, <2>2 DEF New
  <2>4. New \in 0 .. tries /\ (lost \/ New = 0)
    BY <1>6, <2>1 DEF CInv, Commenting
  <2>5. Commenting'
    BY <1>0, <1>6, <2>1, <2>3, <2>4 DEF CInv, Commenting
  <2>6. CommentOnce'
    BY <1>0, <1>6, <2>1, <2>3, <2>4 DEF CommentOnce, New
  <2>. QED
    BY <2>5, <2>6 DEF CInv
<1>7. ASSUME req.op # "comment",
             \/ ListChanges \/ CloneRepo \/ FetchBase \/ WipeFiles \/ CopyFiles
             \/ WipeLines \/ MaterializeDiff \/ Report
             \/ Compare \/ SetStatus \/ SetStatusNoAnswer \/ AddRole \/ AddRoleNoAnswer
      PROVE CInv'
  <2>1. req' = req
    BY <1>7 DEF ListChanges, CloneRepo, FetchBase, WipeFiles, CopyFiles, WipeLines,
                MaterializeDiff, Report, Compare, SetStatus, SetStatusNoAnswer, AddRole,
                AddRoleNoAnswer
  <2>. QED
    BY <1>7, <2>1 DEF CInv, Commenting, CommentOnce
<1>8. ASSUME Push \/ Killed \/ UNCHANGED vars PROVE CInv'
  <2>1. UNCHANGED <<provider, req, comments, sent, tries, lost, before, skipped>>
    BY <1>8 DEF Push, Killed, vars
  <2>2. (pc' = pc /\ outcome' = outcome) \/ (pc' = "idle" /\ outcome' = "killed")
    BY <1>8 DEF Push, Killed, End, vars
  <2>. QED
    BY <2>1, <2>2, CommentQuiet
<1>. QED
  BY <1>1, <1>2, <1>3, <1>4, <1>5, <1>6, <1>7, <1>8, NextCases

\* A comment command that reports success has left one comment with its files, one
\* that fails none, but for calls whose answer was lost: AddCommentToPR of every
\* plugin, and the client that repeats calls.
THEOREM CommentsOnce == Spec => []CommentOnce
<1>1. CInv => CommentOnce
  BY DEF CInv
<1>2. Spec => []TInv
  BY TypeInit, TypeStep, PTL DEF Spec
<1>. QED
  BY CommentInit, CommentStep, <1>1, <1>2, PTL DEF Spec

-----------------------------------------------------------------------------
(***************************************************************************)
(* What a fetch misses.                                                    *)
(***************************************************************************)
Rank(h, f) == Cardinality({ g \in Changed(h) : g <= f })
FirstPages == { f \in Changed(head) : Kept(f) /\ Rank(head, f) <= page * PageSize }
AllKept == { f \in Changed(head) : Kept(f) }

Cut == provider = "github" /\ Cardinality(Changed(head)) > PageSize

AllFiles == \A f \in Changed(head) \ (skipped \cup LeftOut(head)) : diffFiles[f] = content[head][f]
AllLines ==
    \A f \in Changed(head) \ (skipped \cup LeftOut(head)) :
        content[head][f].lines \ (content[Fork][f].lines \cup content[got.base][f].lines)
            \subseteq diffLines[f].lines

\* While nobody pushes, the list of a fetch grows page by page up to all the files.
Paging ==
    req.op = "fetch" /\ ~pushed =>
        /\ pc \notin {"idle", "get"} => got.head = head
        /\ pc = "list" => listed = FirstPages /\ page \in Nat
        /\ pc = "list" /\ provider = "github" => page = 0
        /\ pc \in AfterClone \cup {"clone"} /\ ~Cut => listed = AllKept
        /\ pc \in {"wipeLines", "diff", "report"} /\ ByCommit /\ ~Cut /\ req.files => AllFiles
        /\ pc = "report" /\ ByCommit /\ ~Cut /\ req.lines => AllLines

Unread == req.op = "fetch" /\ pc = "get" => page = 0 /\ listed = {}

MInv == Paging /\ Unread /\ NothingMissed

\* There is one way not to be there and not to have been moved.
LEMMA NoText ==
    ASSUME NEW t \in Text, ~t.there, t.how # "move"
    PROVE  t = Absent
<1>1. /\ t.lines = {} /\ t.there = FALSE /\ t.how = "edit"
      /\ t = [there |-> t.there, how |-> t.how, lines |-> t.lines]
  BY DEF Text
<1>. QED
  BY <1>1 DEF Absent

\* What is neither taken nor left out is deleted.
LEMMA KeptOrLeft ==
    ASSUME TypeOK, NEW f \in Changed(head) \ LeftOut(head), ~Kept(f)
    PROVE  content[head][f] = Absent
<1>1. f \in File /\ content[head][f] \in Text
  BY PullRequestAssumption DEF TypeOK, Changed, Commit
<1>2. content[head][f].how \in How
  BY <1>1 DEF Text
<1>3. content[head][f].how \in KeptChanges[provider]
  BY <1>1, <1>2 DEF TypeOK, Providers, LeftOut, KeptChanges, How
<1>4. ~content[head][f].there
  BY <1>3 DEF Kept
<1>5. content[head][f].how # "move"
  BY <1>4 DEF Changed
<1>. QED
  BY <1>1, <1>4, <1>5, NoText


LEMMA ChangedFinite ==
    ASSUME NEW h
    PROVE  /\ IsFiniteSet(Changed(h)) /\ Cardinality(Changed(h)) \in Nat
           /\ \A f \in Changed(h) : Rank(h, f) \in Nat /\ Rank(h, f) <= Cardinality(Changed(h))
<1>1. IsFiniteSet(Changed(h)) /\ Cardinality(Changed(h)) \in Nat
  <2>1. Changed(h) \subseteq File
    BY DEF Changed
  <2>. QED
    BY <2>1, ConstantsTyped, FS_Subset, FS_CardinalityType
<1>2. ASSUME NEW f \in Changed(h)
      PROVE  Rank(h, f) \in Nat /\ Rank(h, f) <= Cardinality(Changed(h))
  <2>1. { g \in Changed(h) : g <= f } \in SUBSET Changed(h)
    OBVIOUS
  <2>2. IsFiniteSet({ g \in Changed(h) : g <= f })
    BY <1>1, <2>1, FS_Subset
  <2>. QED
    BY <1>1, <2>1, <2>2, FS_Subset, FS_CardinalityType DEF Rank
<1>. QED
  BY <1>1, <1>2

LEMMA NoneOnPageZero == page = 0 => FirstPages = {}
<1> SUFFICES ASSUME page = 0, NEW f \in FirstPages PROVE FALSE
  OBVIOUS
<1>1. f \in Changed(head) /\ Rank(head, f) <= 0
  BY PullRequestAssumption DEF FirstPages
<1>2. f \in { g \in Changed(head) : g <= f }
  <2>1. f \in Nat
    BY <1>1, ConstantsTyped DEF Changed
  <2>. QED
    BY <1>1, <2>1
<1>3. IsFiniteSet({ g \in Changed(head) : g <= f })
  <2>1. { g \in Changed(head) : g <= f } \in SUBSET Changed(head)
    OBVIOUS
  <2>. QED
    BY <2>1, ChangedFinite, FS_Subset
<1>4. Rank(head, f) = 0
  BY <1>1, ChangedFinite
<1>. QED
  BY <1>2, <1>3, <1>4, FS_EmptySet DEF Rank

\* One more page of the list, and the last one.
LEMMA OnePage ==
    ASSUME TypeOK, page \in Nat, listed = FirstPages, ListChanges,
           pc' # "idle", UNCHANGED <<provider, content, head>>
    PROVE  /\ page' = page + 1 /\ listed' = FirstPages'
           /\ Cardinality(Changed(head)) <= page' * PageSize => listed' = AllKept
<1> DEFINE p == page * PageSize
<1>1. page' = page + 1 /\ listed' = listed \cup { f \in OnPage(page + 1) : Kept(f) }
  BY DEF ListChanges, End
<1>2. p \in Nat /\ PageSize \in Nat /\ (page + 1) * PageSize = p + PageSize
      /\ (page + 1 - 1) * PageSize = p
  BY PullRequestAssumption
<1>3. OnPage(page + 1) =
          { f \in Changed(head) : Rank(head, f) > p /\ Rank(head, f) <= p + PageSize }
  BY <1>2 DEF OnPage, Rank
<1>4. FirstPages' = { f \in Changed(head) : Kept(f) /\ Rank(head, f) <= p + PageSize }
  BY <1>1, <1>2 DEF FirstPages, Changed, Kept, KeptChanges, How, Rank
<1>5. FirstPages = { f \in Changed(head) : Kept(f) /\ Rank(head, f) <= p }
  BY DEF FirstPages
<1> HIDE DEF p
<1>6. listed' = FirstPages'
  BY <1>1, <1>2, <1>3, <1>4, <1>5, ChangedFinite
<1>7. ASSUME Cardinality(Changed(head)) <= page' * PageSize PROVE listed' = AllKept
  <2>1. Cardinality(Changed(head)) <= p + PageSize
    BY <1>1, <1>2, <1>7
  <2>2. \A f \in Changed(head) : Rank(head, f) <= p + PageSize
    BY <1>2, <2>1, ChangedFinite
  <2>. QED
    BY <1>4, <1>6, <2>2 DEF AllKept
<1>. QED
  BY <1>1, <1>6, <1>7

LEMMA MissInit == Init => MInv
BY DEF Init, MInv, Paging, Unread, NothingMissed, Fetched, NoRequest, AfterClone

\* Steps after which somebody has pushed, that end otherwise than well, or of
\* another command.
LEMMA MissVacuous ==
    ASSUME MInv,
           \/ pushed' /\ pc' # "get"
           \/ pc' = "idle" /\ outcome' # "ok"
           \/ req'.op # "fetch"
    PROVE  MInv'
BY DEF MInv, Paging, Unread, NothingMissed, Fetched, AfterClone

LEMMA MissStep == TInv /\ VInv /\ FInv /\ MInv /\ [Next]_vars => MInv'
<1> SUFFICES ASSUME TInv, VInv, FInv, MInv, [Next]_vars PROVE MInv'
  OBVIOUS
<1> USE DEF world, server, disk, command, history
<1>0. TypeOK
  BY DEF TInv
<1> HIDE DEF MInv
<1>1. ASSUME NEW q \in Requests, Start(q) PROVE MInv'
  BY <1>1 DEF Start, MInv, Paging, Unread, NothingMissed, Fetched, AfterClone
<1>2. ASSUME GetPull PROVE MInv'
  <2>1. CASE req.op = "fetch" /\ pc' = "list"
    <3>1. got'.head = head /\ UNCHANGED <<page, listed, head, content, req, provider>>
      BY <1>0, <1>2, <2>1, AfterGet
    <3>2. page = 0 /\ listed = {}
      BY <1>0, <1>2, <2>1, AfterGet DEF MInv, Unread
    <3>3. FirstPages' = FirstPages
      BY <3>1 DEF FirstPages, Changed, Kept, KeptChanges, How, Rank
    <3>. QED
      BY <2>1, <3>1, <3>2, <3>3, NoneOnPageZero
         DEF MInv, Paging, Unread, NothingMissed, Fetched, AfterClone
  <2>2. CASE ~(req.op = "fetch" /\ pc' = "list")
    <3>1. req' = req /\ (req.op # "fetch" \/ (pc' = "idle" /\ outcome' = "failed"))
      BY <1>0, <1>2, <2>2, AfterGet
    <3>. QED
      BY <3>1, MissVacuous
  <2>. QED
    BY <2>1, <2>2
<1>3. ASSUME req.op = "fetch", ~pushed, ListChanges, pc' # "idle" PROVE MInv'
  <2>1. /\ UNCHANGED <<content, head, provider, req, got, pushed, forked>>
        /\ pc = "list" /\ pc' = IF NoMorePages(page + 1) THEN "clone" ELSE "list"
    BY <1>3 DEF ListChanges, Goto, End
  <2>2. got.head = head /\ listed = FirstPages /\ page \in Nat
        /\ (provider = "github" => page = 0)
    BY <1>3, <2>1 DEF MInv, Paging
  <2>3. /\ page' = page + 1 /\ listed' = FirstPages'
        /\ Cardinality(Changed(head)) <= page' * PageSize => listed' = AllKept
    BY <1>0, <1>3, <2>1, <2>2, OnePage
  <2>4. AllKept' = AllKept /\ Cut' = Cut
    BY <2>1 DEF AllKept, Changed, Kept, KeptChanges, How, Cut
  <2>5. CASE pc' = "clone"
    <3>1. ~Cut => Cardinality(Changed(head)) <= page' * PageSize
      <4>1. CASE provider = "github"
        <5>1. page' * PageSize = PageSize
          BY <2>2, <2>3, <4>1, PullRequestAssumption
        <5>. QED
          BY <4>1, <5>1, ChangedFinite, PullRequestAssumption DEF Cut
      <4>2. CASE provider \in {"gitlab", "bitbucket"}
        BY <2>1, <2>3, <2>5, <4>2 DEF NoMorePages, FetchPaginated, PaginateChanges, LastPage
      <4>. QED
        BY <1>0, <4>1, <4>2 DEF TypeOK, Providers
    <3>. QED
      BY <2>1, <2>2, <2>3, <2>4, <2>5, <3>1
         DEF MInv, Paging, Unread, NothingMissed, Fetched, AfterClone
  <2>6. CASE pc' = "list"
    <3>1. provider # "github"
      BY <2>1, <2>6 DEF NoMorePages, ListFiles
    <3>. QED
      BY <2>1, <2>2, <2>3, <2>6, <3>1 DEF MInv, Paging, Unread, NothingMissed, Fetched, AfterClone
  <2>. QED
    BY <2>1, <2>5, <2>6
<1>4. ASSUME req.op = "fetch", ~pushed, CloneRepo \/ FetchBase \/ WipeFiles, pc' # "idle"
      PROVE MInv'
  <2>1. /\ UNCHANGED <<content, head, provider, req, got, pushed, forked, listed>>
        /\ pc \in AfterClone \cup {"clone"} /\ pc \notin {"idle", "get"}
        /\ \/ pc' \in {"base", "wipeFiles", "copy"}
           \/ pc' \in {"wipeLines", "report"} /\ ~req.files
                /\ (pc' = "report" => ~req.lines)
    BY <1>4 DEF CloneRepo, FetchBase, WipeFiles, Goto, End, AfterClone
  <2>2. AllKept' = AllKept /\ Cut' = Cut
    BY <2>1 DEF AllKept, Changed, Kept, KeptChanges, How, Cut
  <2>. QED
    BY <1>4, <2>1, <2>2 DEF MInv, Paging, Unread, NothingMissed, Fetched, AfterClone
<1>5. ASSUME req.op = "fetch", ~pushed, CopyFiles, pc' # "idle" PROVE MInv'
  <2>1. PICK s \in SUBSET listed : Skip(s) /\ diffFiles' = Copied(listed \ s)
    BY <1>5 DEF CopyFiles, End
  <2>2. /\ UNCHANGED <<content, head, provider, req, got, pushed, forked, listed, repo>>
        /\ pc = "copy" /\ (pc' = "wipeLines" \/ (pc' = "report" /\ ~req.lines))
        /\ skipped' = skipped \cup s
    BY <1>5, <2>1 DEF CopyFiles, Goto, End, Skip
  <2>3. AllKept' = AllKept /\ Cut' = Cut /\ ByCommit' = ByCommit
    BY <2>2 DEF AllKept, Changed, Kept, KeptChanges, How, Cut, ByCommit
  <2>4. got.head = head /\ (~Cut => listed = AllKept)
    BY <1>5, <2>2 DEF MInv, Paging, AfterClone
  <2>5. ASSUME ByCommit, ~Cut PROVE AllFiles'
    <3>1. repo = head
      BY <2>2, <2>4, <2>5 DEF VInv, ClonedHead, AfterClone
    <3>2. ASSUME NEW f \in Changed(head) \ (skipped \cup s \cup LeftOut(head))
          PROVE  diffFiles'[f] = content[head][f]
      <4>1. f \in File
        BY DEF Changed
      <4>2. CASE Kept(f)
        <5>1. f \in listed \ s
          BY <2>4, <2>5, <3>2, <4>2 DEF AllKept
        <5>. QED
          BY <2>1, <3>1, <4>1, <5>1 DEF Copied
      <4>3. CASE ~Kept(f)
        <5>1. f \notin listed /\ diffFiles[f] = Absent
          BY <1>5, <2>2, <2>4, <2>5, <4>1, <4>3 DEF AllKept, FInv, Folders
        <5>2. diffFiles'[f] = diffFiles[f]
          BY <2>1, <4>1, <5>1 DEF Copied
        <5>3. content[head][f] = Absent
          BY <1>0, <3>2, <4>3, KeptOrLeft
        <5>. QED
          BY <5>1, <5>2, <5>3
      <4>. QED
        BY <4>2, <4>3
    <3>. QED
      BY <2>2, <3>2 DEF AllFiles, Changed, LeftOut
  <2>6. pc' # "report" \/ ~req.lines
    BY <2>2
  <2>7. Paging'
    BY <1>5, <2>2, <2>3, <2>4, <2>5, <2>6 DEF Paging, AfterClone
  <2>8. Unread' /\ NothingMissed'
    BY <2>2 DEF Unread, NothingMissed, Fetched
  <2>. QED
    BY <2>7, <2>8 DEF MInv
<1>6. ASSUME req.op = "fetch", ~pushed, WipeLines, pc' # "idle" PROVE MInv'
  <2>1. /\ UNCHANGED <<content, head, provider, req, got, pushed, forked, listed, repo,
                      diffFiles, skipped>>
        /\ pc = "wipeLines" /\ pc' = "diff"
    BY <1>6 DEF WipeLines, Goto, End
  <2>2. AllKept' = AllKept /\ Cut' = Cut /\ ByCommit' = ByCommit /\ AllFiles' = AllFiles
    BY <2>1 DEF AllKept, Changed, Kept, KeptChanges, How, Cut, ByCommit, AllFiles,
                LeftOut
  <2>. QED
    BY <1>6, <2>1, <2>2 DEF MInv, Paging, Unread, NothingMissed, Fetched, AfterClone
<1>7. ASSUME req.op = "fetch", ~pushed, MaterializeDiff, pc' # "idle" PROVE MInv'
  <2> DEFINE sparse == { f \in Selected : Added(f) # {} /\ content[repo][f].there }
  <2>1. PICK s \in SUBSET sparse : Skip(s) /\ diffLines' = Sparse(sparse \ s)
    BY <1>7 DEF MaterializeDiff, End
  <2>2. /\ UNCHANGED <<content, head, provider, req, got, pushed, forked, listed, repo, diffFiles>>
        /\ pc = "diff" /\ pc' = "report" /\ skipped' = skipped \cup s
    BY <1>7, <2>1 DEF MaterializeDiff, Goto, End, Skip
  <2>3. AllKept' = AllKept /\ Cut' = Cut /\ ByCommit' = ByCommit
    BY <2>2 DEF AllKept, Changed, Kept, KeptChanges, How, Cut, ByCommit
  <2>4. got.head = head /\ (~Cut => listed = AllKept)
    BY <1>7, <2>2 DEF MInv, Paging, AfterClone
  <2>5. AllFiles => AllFiles'
    BY <2>2 DEF AllFiles, Changed, LeftOut
  <2>6. ASSUME ByCommit, ~Cut PROVE AllLines'
    <3>1. repo = head
      BY <2>2, <2>4, <2>6 DEF VInv, ClonedHead, AfterClone
    <3>2. ASSUME NEW f \in Changed(head) \ (skipped \cup s \cup LeftOut(head))
          PROVE  content[head][f].lines \ (content[Fork][f].lines \cup content[got.base][f].lines)
                     \subseteq diffLines'[f].lines
      <4>1. f \in File
        BY DEF Changed
      <4>2. CASE ~Kept(f)
        <5>1. content[head][f] = Absent
          BY <1>0, <3>2, <4>2, KeptOrLeft
        <5>. QED
          BY <5>1 DEF Absent
      <4>3. CASE Kept(f) /\ Added(f) # {}
        <5>1. f \in Selected
          BY <2>4, <2>6, <3>2, <4>1, <4>3 DEF AllKept, Selected
        <5>2. f \in sparse \ s
          BY <3>1, <3>2, <4>3, <5>1 DEF Kept
        <5>3. diffLines'[f] = [there |-> TRUE, how |-> "edit", lines |-> Added(f)]
          BY <2>1, <4>1, <5>2 DEF Sparse
        <5>. QED
          BY <2>4, <5>3 DEF Added
      <4>4. CASE Added(f) = {}
        BY <2>4, <4>4 DEF Added
      <4>. QED
        BY <4>2, <4>3, <4>4
    <3>. QED
      BY <2>2, <3>2 DEF AllLines, Changed, LeftOut
  <2>7. Paging'
    BY <1>7, <2>2, <2>3, <2>4, <2>5, <2>6 DEF MInv, Paging, AfterClone
  <2>8. Unread' /\ NothingMissed'
    BY <2>2 DEF Unread, NothingMissed, Fetched
  <2>. QED
    BY <2>7, <2>8 DEF MInv
<1>8. ASSUME req.op = "fetch", ~pushed, Report PROVE MInv'
  <2>1. /\ UNCHANGED <<content, head, provider, req, got, pushed, forked, listed, repo,
                      diffFiles, diffLines, skipped>>
        /\ pc = "report" /\ pc' = "idle"
        /\ report'.head = got.head /\ report'.base = got.base /\ report'.mode = req.mode
        /\ report'.files = req.files /\ report'.lines = req.lines
    BY <1>8 DEF Report, End
  <2>2. got.head = head
    BY <1>8, <2>1 DEF MInv, Paging
  <2>3. ByCommitReport(report') => ByCommit
    BY <2>1 DEF ByCommit, ByCommitReport
  <2>4. ASSUME ByCommit, ~Cut PROVE (req.files => AllFiles) /\ (req.lines => AllLines)
    BY <1>8, <2>1, <2>4 DEF MInv, Paging
  <2>5. ~Truncated' => ~Cut
    BY <2>1, <2>2 DEF Truncated, Cut, Changed
  <2>6. NothingMissed'
    BY <2>1, <2>2, <2>3, <2>4, <2>5
       DEF NothingMissed, AllFiles, AllLines, Changed, LeftOut, ByCommitReport
  <2>. QED
    BY <2>1, <2>6 DEF MInv, Paging, Unread, AfterClone
<1>9. ASSUME req.op = "fetch",
             ListChanges \/ CloneRepo \/ FetchBase \/ WipeFiles \/ CopyFiles
                \/ WipeLines \/ MaterializeDiff \/ Report,
             pushed \/ (pc' = "idle" /\ outcome' # "ok")
      PROVE MInv'
  <2>1. pushed' = pushed /\ pc' # "get"
    BY <1>9 DEF ListChanges, CloneRepo, FetchBase, WipeFiles, CopyFiles, WipeLines,
                MaterializeDiff, Report, Goto, End, Skip
  <2>. QED
    BY <1>9, <2>1, MissVacuous
<1>10. ASSUME req.op = "fetch",
              ListChanges \/ CloneRepo \/ FetchBase \/ WipeFiles \/ CopyFiles
                 \/ WipeLines \/ MaterializeDiff,
              pc' = "idle"
       PROVE outcome' = "failed"
  BY <1>10 DEF ListChanges, CloneRepo, FetchBase, WipeFiles, CopyFiles, WipeLines,
               MaterializeDiff, Goto, End
<1>11. ASSUME req.op # "fetch",
              \/ Compare \/ SetStatus \/ SetStatusNoAnswer
              \/ \E a \in ToAttach : Upload(a) \/ UploadFail(a)
              \/ PostComment \/ PostNoAnswer \/ AddRole \/ AddRoleNoAnswer
       PROVE MInv'
  <2>1. req' = req
    BY <1>11 DEF Compare, SetStatus, SetStatusNoAnswer, Upload, UploadFail, PostComment,
                 PostNoAnswer, AddRole, AddRoleNoAnswer
  <2>. QED
    BY <1>11, <2>1, MissVacuous
<1>12. ASSUME Push PROVE MInv'
  BY <1>12 DEF Push, MInv, Paging, Unread, NothingMissed
<1>13. ASSUME Killed PROVE MInv'
  BY <1>13, MissVacuous DEF Killed, End
<1>14. ASSUME UNCHANGED vars PROVE MInv'
  <2>1. /\ UNCHANGED <<content, head, provider, req, got, pushed, forked, listed, repo, page,
                      diffFiles, diffLines, skipped, report, pc, outcome>>
    BY <1>14 DEF vars
  <2>2. FirstPages' = FirstPages
    BY <2>1 DEF FirstPages, Changed, Kept, KeptChanges, How, Rank
  <2>3. AllKept' = AllKept /\ Cut' = Cut /\ ByCommit' = ByCommit
    BY <2>1 DEF AllKept, Changed, Kept, KeptChanges, How, Cut, ByCommit
  <2>4. AllFiles' = AllFiles /\ AllLines' = AllLines
    BY <2>1 DEF AllFiles, AllLines, Changed, LeftOut
  <2>5. Paging' /\ Unread'
    BY <2>1, <2>2, <2>3, <2>4 DEF MInv, Paging, Unread
  <2>6. NothingMissed'
    BY <2>1 DEF MInv, NothingMissed, Fetched, ByCommitReport, Truncated, Changed, LeftOut
  <2>. QED
    BY <2>5, <2>6 DEF MInv
<1>15. ASSUME req.op = "fetch",
              ListChanges \/ CloneRepo \/ FetchBase \/ WipeFiles \/ CopyFiles
                 \/ WipeLines \/ MaterializeDiff \/ Report
       PROVE MInv'
  <2>1. CASE pushed
    BY <1>9, <1>15, <2>1
  <2>2. CASE ~pushed /\ Report
    BY <1>8, <1>15, <2>2
  <2>3. CASE ~pushed /\ pc' # "idle"
    BY <1>3, <1>4, <1>5, <1>6, <1>7, <1>8, <1>15, <2>3
  <2>4. CASE ~Report /\ pc' = "idle"
    BY <1>9, <1>10, <1>15, <2>4
  <2>. QED
    BY <2>1, <2>2, <2>3, <2>4
<1>. QED
  BY <1>1, <1>2, <1>11, <1>12, <1>13, <1>14, <1>15, NextCases

\* A fetch by commit during which nobody pushed misses nothing that the pull request
\* adds but what could not be copied, what GitHub lists after its first page, and the
\* files that GitHub's and Bitbucket's plugins leave out for how they were changed:
\* fetchPR of every plugin, with the loops that list changes and the diff.
THEOREM MissesNothing == Spec => []NothingMissed
<1>1. Spec => []TInv
  BY TypeInit, TypeStep, PTL DEF Spec
<1>2. TInv => TypeOK
  BY DEF TInv
<1>3. Spec => []VInv
  BY VerdictInit, VerdictStep, <1>1, <1>2, PTL DEF Spec
<1>4. Spec => []FInv
  BY FetchInit, FetchStep, <1>1, <1>3, PTL DEF Spec
<1>5. MInv => NothingMissed
  BY DEF MInv
<1>. QED
  BY MissInit, MissStep, <1>1, <1>3, <1>4, <1>5, PTL DEF Spec

=============================================================================
