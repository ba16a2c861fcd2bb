----------------------------- MODULE PullRequest -----------------------------
(***************************************************************************)
(* A pull request as the CI job of a repository meets it: fetch brings its *)
(* head to the runner and prepares the diff folders, and integration-vcs   *)
(* comments, adds a reviewer and sets the verdict, through the plugin of   *)
(* GitHub, GitLab or Bitbucket, while its author goes on pushing.          *)
(*                                                                         *)
(* Every command is a sequence of calls to the provider, and nothing keeps *)
(* the pull request still between two of them.  The provider is external;  *)
(* the clone of the repository is taken at its promise (GitClone), the     *)
(* search for the fork point is that of MergeBase.                         *)
(***************************************************************************)
EXTENDS Integers, FiniteSets, Sequences

CONSTANTS
    HeadLine,    \* commits the head of the pull request may be at
    BaseLine,    \* commits the target branch may be at
    Fork,        \* the one both started from
    MaxFile,     \* files are 1 .. MaxFile, in the order providers list them
    Line,        \* lines of text
    Contents,    \* considered: what each commit holds
    PageSize,    \* changed files on a page of a provider
    Requests,    \* commands considered
    MaxRetries,  \* retries of the HTTP clients of the GitLab and Bitbucket plugins
    MaxOps,      \* bound: commands
    MaxPushes,   \* bound: pushes
    MaxFaults    \* bound: failing calls, file operations and kills

File   == 1 .. MaxFile
Commit == HeadLine \cup BaseLine
None   == "none"                             \* no commit
Providers == {"github", "gitlab", "bitbucket"}

\* A file of a commit, and how the provider says that a change of it came about.
\* The path a file was moved from is absent by a move.
How    == {"edit", "move", "copy", "mode"}
Text   == { t \in [there : BOOLEAN, how : How, lines : SUBSET Line] :
                t.there \/ (t.lines = {} /\ t.how \in {"edit", "move"}) }
Absent == [there |-> FALSE, how |-> "edit", lines |-> {}]

(***************************************************************************)
(* A command.  fetch uses mode (what of the pull request is cloned) and    *)
(* the diff folders wanted; comment the number of files to attach; status  *)
(* the commit given with --require-head-sha: none, the checkout's, or the  *)
(* head_sha that fetch reported.                                           *)
(***************************************************************************)
Request ==
    [op : {"fetch", "comment", "role", "status"}, mode : {"branch", "commit"},
     files : BOOLEAN, lines : BOOLEAN, base : BOOLEAN, attach : Nat,
     pin : {None, "checkout", "head_sha"}]

NoRequest == [op |-> "fetch", mode |-> "branch", files |-> FALSE, lines |-> FALSE,
              base |-> FALSE, attach |-> 0, pin |-> None]

ASSUME PullRequestAssumption ==
    /\ Fork \in BaseLine /\ None \notin Commit
    /\ MaxFile \in Nat /\ PageSize \in Nat \ {0}
    /\ MaxRetries \in Nat /\ MaxOps \in Nat /\ MaxPushes \in Nat /\ MaxFaults \in Nat
    /\ Contents \subseteq [Commit -> [File -> Text]]
    /\ Requests \subseteq Request

VARIABLES
    provider, forked, content,      \* the provider, head in another repository, commits
    head, base,                     \* the branches now
    reviewers, comments, verdicts,  \* what commands have left on the pull request
    repo, diffFiles, diffLines,     \* the runner's disk
    pc, req, outcome,               \* the running command, and how it ended
    got,                            \* the pull request as the command read it
    page, listed,                   \* pages of changes read, and paths taken from them
    sent, tries,                    \* attachments uploaded, attempts at a call
    report,                         \* what the last successful fetch reported
    ops, pushes, faults,
    pushed, skipped, lost, before   \* history: since the command read the head

world   == <<provider, forked, content>>
server  == <<head, base, reviewers, comments, verdicts>>
disk    == <<repo, diffFiles, diffLines>>
command == <<req, got, page, listed, sent, tries>>
bounds  == <<ops, pushes, faults>>
history == <<pushed, skipped, lost, before>>
vars == <<world, server, disk, pc, outcome, command, report, bounds, history>>

-----------------------------------------------------------------------------
Goto(there) == pc' = there /\ UNCHANGED outcome
End(how) == pc' = "idle" /\ outcome' = how

\* Something the command does fails; which, the bound decides.
Fault == faults < MaxFaults /\ faults' = faults + 1 /\ UNCHANGED <<ops, pushes>>
NoFault == UNCHANGED bounds

NoPull == [head |-> None, base |-> None]
NoReport == [tree |-> None, headSha |-> None, head |-> None, base |-> None,
             mode |-> "branch", files |-> FALSE, lines |-> FALSE]
Empty == [f \in File |-> Absent]

Start(q) ==
    /\ pc = "idle" /\ ops < MaxOps
    /\ q.op = "status" => report # NoReport
    /\ ops' = ops + 1
    /\ req' = q
    /\ pc' = "get" /\ outcome' = "running"
    /\ got' = NoPull /\ page' = 0 /\ listed' = {} /\ sent' = {} /\ tries' = 0
    /\ pushed' = FALSE /\ skipped' = {} /\ lost' = FALSE /\ before' = Len(comments)
    /\ UNCHANGED <<world, server, disk, report, pushes, faults>>

\* The base commit a provider names: the tip of the target branch, or on GitLab
\* the base of its own diff.
BaseOf == IF provider = "gitlab" THEN Fork ELSE base

\* Every command reads the pull request first.  The server may leave the head out.
GetPull ==
    /\ pc = "get"
    /\ \/ /\ \E h \in IF req.op = "status" THEN {head, None} ELSE {head} :
                got' = [head |-> h, base |-> BaseOf]
          /\ Goto(CASE req.op = "fetch"   -> "list"
                    [] req.op = "comment" -> "upload"
                    [] req.op = "role"    -> "add"
                    [] req.op = "status"  -> "compare")
          /\ NoFault
       \/ End("failed") /\ Fault /\ UNCHANGED got
    /\ pushed' = FALSE
    /\ UNCHANGED <<world, server, disk, req, page, listed, sent, tries, report,
                   skipped, lost, before>>

-----------------------------------------------------------------------------
(***************************************************************************)
(* fetchPR                                                                 *)
(***************************************************************************)

\* The files the pull request changes, as the provider lists them now: a file that
\* was moved is listed once, where it is.
Changed(h) ==
    { f \in File : /\ content[h][f] # content[Fork][f]
                   /\ content[h][f].how = "move" => content[h][f].there }

OnPage(n) ==
    { f \in Changed(head) :
        LET rank == Cardinality({ g \in Changed(head) : g <= f })
        IN  rank > (n - 1) * PageSize /\ rank <= n * PageSize }

LastPage(n) == n * PageSize >= Cardinality(Changed(head))

\* Plausible bug: GitLab's list is asked for once too.
FetchPaginatedOnce(n) == TRUE

\* GitHub's list is asked for once; GitLab's and Bitbucket's until the server says
\* that there is no next page.
ListFiles(n) == TRUE
FetchPaginated(n) == LastPage(n)
PaginateChanges(n) == LastPage(n)

NoMorePages(n) ==
    CASE provider = "github"    -> ListFiles(n)
      [] provider = "gitlab"    -> FetchPaginated(n)
      [] provider = "bitbucket" -> PaginateChanges(n)

\* collectGithubChangedPaths and its likes.  A deleted file has nothing to scan;
\* GitHub's plugin keeps what was added, modified or renamed, Bitbucket's what was
\* added or modified, GitLab's everything else.
KeptChanges == [github |-> {"edit", "move"}, gitlab |-> How, bitbucket |-> {"edit", "mode"}]

Kept(f) == content[head][f].there /\ content[head][f].how \in KeptChanges[provider]

ListChanges ==
    /\ pc = "list"
    /\ \/ /\ page' = page + 1
          /\ listed' = listed \cup { f \in OnPage(page + 1) : Kept(f) }
          /\ Goto(IF NoMorePages(page + 1) THEN "clone" ELSE "list")
          /\ NoFault
       \/ End("failed") /\ Fault /\ UNCHANGED <<page, listed>>
    /\ UNCHANGED <<world, server, disk, req, got, sent, tries, report, history>>

\* A fork has no branch here, so that its commit is cloned whatever the mode.
ByCommit == forked \/ req.mode = "commit"

\* Plausible bug: the branch of the target is taken for that of the head.
CloneTarget ==
    /\ pc = "clone"
    /\ repo' = IF ByCommit THEN got.head ELSE base
    /\ Goto("report") /\ NoFault
    /\ UNCHANGED <<world, server, diffFiles, diffLines, command, report, history>>

\* CloneRepository: what it leaves is of a commit the reference had meanwhile.
CloneRepo ==
    /\ pc = "clone"
    /\ \/ /\ repo' = IF ByCommit THEN got.head ELSE head
          /\ Goto(IF req.base THEN "base" ELSE IF req.files THEN "wipeFiles"
                  ELSE IF req.lines THEN "wipeLines" ELSE "report")
          /\ NoFault
       \/ End("failed") /\ Fault /\ UNCHANGED repo
    /\ UNCHANGED <<world, server, diffFiles, diffLines, command, report, history>>

\* EnsureCommitPresent for the base; the fork point is best effort.
FetchBase ==
    /\ pc = "base"
    /\ \/ Goto(IF req.files THEN "wipeFiles" ELSE IF req.lines THEN "wipeLines" ELSE "report")
          /\ NoFault
       \/ End("failed") /\ Fault
    /\ UNCHANGED <<world, server, disk, command, report, history>>

\* Plausible bug: the folder of an earlier run is written over.
WipeFilesNot ==
    /\ pc = "wipeFiles"
    /\ Goto("copy") /\ NoFault
    /\ UNCHANGED <<world, server, disk, command, report, history>>

WipeFiles ==
    /\ pc = "wipeFiles"
    /\ \/ diffFiles' = Empty /\ Goto("copy") /\ NoFault
       \/ diffFiles' \in {diffFiles, Empty} /\ End("failed") /\ Fault
    /\ UNCHANGED <<world, server, repo, diffLines, command, report, history>>

\* The files of s cannot be copied or written, which is only logged.
Skip(s) ==
    /\ faults + Cardinality(s) <= MaxFaults
    /\ faults' = faults + Cardinality(s)
    /\ skipped' = skipped \cup s
    /\ UNCHANGED <<ops, pushes, pushed, lost, before>>

\* Copy: a file, a folder or a link, as it is in the working tree, which need
\* not have it.
Copied(fs) == [f \in File |-> IF f \in fs THEN content[repo][f] ELSE diffFiles[f]]

\* The listed files from the working tree, then the dot files, which have to succeed.
CopyFiles ==
    /\ pc = "copy"
    /\ \/ \E s \in SUBSET listed :
             /\ Skip(s)
             /\ diffFiles' = Copied(listed \ s)
             /\ Goto(IF req.lines THEN "wipeLines" ELSE "report")
       \/ End("failed") /\ Fault /\ UNCHANGED <<diffFiles, history>>
    /\ UNCHANGED <<world, server, repo, diffLines, command, report>>

WipeLines ==
    /\ pc = "wipeLines"
    /\ \/ diffLines' = Empty /\ Goto("diff") /\ NoFault
       \/ diffLines' \in {diffLines, Empty} /\ End("failed") /\ Fault
    /\ UNCHANGED <<world, server, repo, diffFiles, command, report, history>>

\* AddedLines: between the two trees, whatever the pull request is about.
Added(f) == content[got.head][f].lines \ content[got.base][f].lines

\* buildFilterSet: an empty list of paths filters nothing.
Selected == IF listed = {} THEN File ELSE listed

\* writeSparseFile lays the added lines over the file of the working tree, which
\* has to be there.
Sparse(fs) ==
    [f \in File |-> IF f \in fs
                   THEN [there |-> TRUE, how |-> "edit", lines |-> Added(f)]
                   ELSE diffLines[f]]

MaterializeDiff ==
    /\ pc = "diff"
    /\ LET sparse == { f \in Selected : Added(f) # {} /\ content[repo][f].there }
       IN  \/ \E s \in SUBSET sparse :
                 Skip(s) /\ diffLines' = Sparse(sparse \ s) /\ Goto("report")
           \/ End("failed") /\ Fault /\ UNCHANGED <<diffLines, history>>
    /\ UNCHANGED <<world, server, repo, diffFiles, command, report>>

Report ==
    /\ pc = "report"
    /\ report' = [tree |-> repo, headSha |-> IF req.lines THEN got.head ELSE None,
                  head |-> got.head, base |-> got.base, mode |-> req.mode,
                  files |-> req.files, lines |-> req.lines]
    /\ End("ok") /\ NoFault
    /\ UNCHANGED <<world, server, disk, command, history>>

-----------------------------------------------------------------------------
(***************************************************************************)
(* SetStatusOfPR                                                           *)
(***************************************************************************)
Pin == CASE req.pin = None       -> None
         [] req.pin = "checkout" -> report.tree
         [] req.pin = "head_sha" -> report.headSha

\* Plausible bug: a head that moved is only warned about.
CompareWarning ==
    /\ pc = "compare"
    /\ Goto("set") /\ NoFault
    /\ UNCHANGED <<world, server, disk, command, report, history>>

\* --require-head-sha; a server that names no head is trusted.
Compare ==
    /\ pc = "compare"
    /\ IF Pin # None /\ got.head # None /\ Pin # got.head THEN End("failed") ELSE Goto("set")
    /\ NoFault
    /\ UNCHANGED <<world, server, disk, command, report, history>>

\* No good answer to a call, which may have been carried out.  The client of the
\* Bitbucket plugin repeats a call whose connection broke, that of the GitLab plugin
\* one that was answered with a failure of the server; the other kind ends the command.
Repeat == tries < MaxRetries /\ tries' = tries + 1 /\ pc' = pc /\ UNCHANGED outcome
GiveUp == End("failed") /\ UNCHANGED tries
NoAnswer == Fault /\ (GiveUp \/ (provider # "github" /\ Repeat))

\* A verdict is on what the pull request is when it arrives.
Verdict ==
    [on |-> head, pin |-> Pin, report |-> report, late |-> pushed, blind |-> got.head = None]

SetStatus ==
    /\ pc = "set"
    /\ verdicts' = verdicts \cup {Verdict}
    /\ End("ok") /\ NoFault
    /\ UNCHANGED <<world, head, base, reviewers, comments, disk, command, report, history>>

SetStatusNoAnswer ==
    /\ pc = "set"
    /\ NoAnswer
    /\ verdicts' \in {verdicts, verdicts \cup {Verdict}}
    /\ UNCHANGED <<world, head, base, reviewers, comments, disk, req, got, page, listed,
                   sent, report, history>>

-----------------------------------------------------------------------------
(***************************************************************************)
(* AddCommentToPR and AddRoleToPR                                          *)
(***************************************************************************)

\* GitHub takes no attachments.
ToAttach == IF provider = "github" THEN {} ELSE 1 .. req.attach

Upload(a) ==
    /\ pc = "upload" /\ a \in ToAttach \ (sent \cup skipped)
    /\ \A b \in ToAttach : b < a => b \in sent \cup skipped
    /\ sent' = sent \cup {a}
    /\ pc' = pc /\ UNCHANGED outcome /\ NoFault
    /\ UNCHANGED <<world, server, disk, req, got, page, listed, tries, report, history>>

\* Plausible bug: Bitbucket's comment goes on without the file as well.
UploadFailSkipping(a) ==
    /\ pc = "upload" /\ a \in ToAttach \ (sent \cup skipped)
    /\ Fault
    /\ skipped' = skipped \cup {a} /\ pc' = pc /\ UNCHANGED outcome
    /\ UNCHANGED <<world, server, disk, command, report, pushed, lost, before>>

\* GitLab's comment goes on without the file, Bitbucket's ends there.
UploadFail(a) ==
    /\ pc = "upload" /\ a \in ToAttach \ (sent \cup skipped)
    /\ Fault
    /\ IF provider = "gitlab" THEN skipped' = skipped \cup {a} /\ pc' = pc /\ UNCHANGED outcome
       ELSE End("failed") /\ UNCHANGED skipped
    /\ UNCHANGED <<world, server, disk, command, report, pushed, lost, before>>

Uploaded == pc = "upload" /\ ToAttach = sent \cup skipped

PostComment ==
    /\ Uploaded
    /\ comments' = Append(comments, sent)
    /\ End("ok") /\ NoFault
    /\ UNCHANGED <<world, head, base, reviewers, verdicts, disk, command, report, history>>

PostNoAnswer ==
    /\ Uploaded
    /\ NoAnswer
    /\ \/ comments' = Append(comments, sent) /\ lost' = TRUE
       \/ UNCHANGED <<comments, lost>>
    /\ UNCHANGED <<world, head, base, reviewers, verdicts, disk, req, got, page, listed,
                   sent, report, pushed, skipped, before>>

\* UpdateMergeRequest is given the list of one; the others add.
WithReviewer == IF provider = "gitlab" THEN {"bot"} ELSE reviewers \cup {"bot"}

\* Bitbucket refuses to add who is there, which the plugin reports as an error.
AddRole ==
    /\ pc = "add"
    /\ reviewers' = WithReviewer
    /\ End(IF provider = "bitbucket" /\ "bot" \in reviewers THEN "failed" ELSE "ok")
    /\ NoFault
    /\ UNCHANGED <<world, head, base, comments, verdicts, disk, command, report, history>>

AddRoleNoAnswer ==
    /\ pc = "add"
    /\ NoAnswer
    /\ \/ reviewers' = WithReviewer /\ lost' = TRUE
       \/ UNCHANGED <<reviewers, lost>>
    /\ UNCHANGED <<world, head, base, comments, verdicts, disk, req, got, page, listed,
                   sent, report, pushed, skipped, before>>

-----------------------------------------------------------------------------
(***************************************************************************)
(* The environment.                                                        *)
(***************************************************************************)

\* The author pushes, forces the branch back, or the target branch moves on.
Push ==
    /\ pushes < MaxPushes
    /\ pushes' = pushes + 1
    /\ pushed' = TRUE
    /\ \/ \E h \in HeadLine \ {head} : head' = h /\ UNCHANGED base
       \/ \E b \in BaseLine \ {base, Fork} : base' = b /\ UNCHANGED head
    /\ UNCHANGED <<world, reviewers, comments, verdicts, disk, pc, outcome, command,
                   report, ops, faults, skipped, lost, before>>

Killed ==
    /\ pc # "idle"
    /\ End("killed") /\ Fault
    /\ UNCHANGED <<world, server, disk, command, report, history>>

Init ==
    /\ provider \in Providers /\ forked \in BOOLEAN /\ content \in Contents
    /\ head \in HeadLine /\ base = Fork
    /\ reviewers = {"ann"} /\ comments = <<>> /\ verdicts = {}
    /\ repo = None /\ diffFiles = Empty /\ diffLines = Empty
    /\ pc = "idle" /\ req = NoRequest /\ outcome = "none"
    /\ got = NoPull /\ page = 0 /\ listed = {} /\ sent = {} /\ tries = 0
    /\ report = NoReport
    /\ ops = 0 /\ pushes = 0 /\ faults = 0
    /\ pushed = FALSE /\ skipped = {} /\ lost = FALSE /\ before = 0

Fetch == GetPull \/ ListChanges \/ CloneRepo \/ FetchBase \/ WipeFiles \/ CopyFiles
         \/ WipeLines \/ MaterializeDiff \/ Report
Status == GetPull \/ Compare \/ SetStatus \/ SetStatusNoAnswer
Comment == GetPull \/ (\E a \in ToAttach : Upload(a) \/ UploadFail(a))
           \/ PostComment \/ PostNoAnswer
Role == GetPull \/ AddRole \/ AddRoleNoAnswer

\* The handlers of the three plugins.
Handling(p, op) == pc # "idle" /\ provider = p /\ req.op = op
GithubFetchPR      == Handling("github", "fetch") /\ Fetch
GitlabFetchPR      == Handling("gitlab", "fetch") /\ Fetch
BitbucketFetchPR   == Handling("bitbucket", "fetch") /\ Fetch
GithubSetStatus    == Handling("github", "status") /\ Status
GitlabSetStatus    == Handling("gitlab", "status") /\ Status
BitbucketSetStatus == Handling("bitbucket", "status") /\ Status
GithubAddComment   == Handling("github", "comment") /\ Comment
GitlabAddComment   == Handling("gitlab", "comment") /\ Comment
BitbucketAddComment == Handling("bitbucket", "comment") /\ Comment
GithubAddRole      == Handling("github", "role") /\ Role
GitlabAddRole      == Handling("gitlab", "role") /\ Role
BitbucketAddRole   == Handling("bitbucket", "role") /\ Role

Next ==
    \/ \E q \in Requests : Start(q)
    \/ GithubFetchPR \/ GitlabFetchPR \/ BitbucketFetchPR
    \/ GithubSetStatus \/ GitlabSetStatus \/ BitbucketSetStatus
    \/ GithubAddComment \/ GitlabAddComment \/ BitbucketAddComment
    \/ GithubAddRole \/ GitlabAddRole \/ BitbucketAddRole
    \/ Push \/ Killed

Spec == Init /\ [][Next]_vars

-----------------------------------------------------------------------------
(***************************************************************************)
(* Correctness.                                                            *)
(***************************************************************************)

PullOrNone == HeadLine \cup {None}

(***************************************************************************)
(* Type invariant.                                                         *)
(***************************************************************************)
TypeOK ==
    /\ provider \in Providers /\ forked \in BOOLEAN /\ content \in Contents
    /\ head \in HeadLine /\ base \in BaseLine
    /\ reviewers \subseteq {"ann", "bot"} /\ comments \in Seq(SUBSET Nat)
    /\ repo \in PullOrNone
    /\ diffFiles \in [File -> Text] /\ diffLines \in [File -> Text]
    /\ req \in Requests \cup {NoRequest}
    /\ got \in [head : PullOrNone, base : BaseLine \cup {None}]
    /\ listed \subseteq File /\ sent \subseteq Nat /\ skipped \subseteq Nat
    /\ tries \in 0 .. MaxRetries /\ before \in Nat
    /\ report.tree \in PullOrNone /\ report.headSha \in PullOrNone
    /\ ops \in 0 .. MaxOps /\ pushes \in 0 .. MaxPushes /\ faults \in 0 .. MaxFaults

\* A fetch that was to be of one commit.
ByCommitReport(r) == forked \/ r.mode = "commit"

(***************************************************************************)
(* A verdict asked for with the commit that was scanned lands on the very  *)
(* files that were scanned, unless the author pushed after the command     *)
(* read the head, or the provider named none.  The commit may be that of   *)
(* the checkout; head_sha of the report will do for a fetch by commit, not *)
(* for one by branch, where the branch may have been at another commit     *)
(* when it was cloned.                                                     *)
(***************************************************************************)
VerdictOnScanned ==
    \A v \in verdicts :
        v.pin # None /\ (ByCommitReport(v.report) \/ v.pin = v.report.tree) =>
            v.on = v.report.tree \/ v.late \/ v.blind

Fetched == pc = "idle" /\ req.op = "fetch" /\ outcome = "ok"

(***************************************************************************)
(* A fetch by commit is of one commit: the checkout, the files and the     *)
(* lines it leaves are all of the head it reports, however the author      *)
(* pushed meanwhile, and nothing in the diff folders is of an earlier run  *)
(* that failed, was killed or fetched another head.                        *)
(***************************************************************************)
FetchIsOneCommit ==
    Fetched /\ ByCommitReport(report) =>
        /\ repo = report.head
        /\ report.files => \A f \in File : diffFiles[f].there =>
               f \in listed /\ diffFiles[f] = content[report.head][f]
        /\ report.lines => \A f \in File : diffLines[f].there =>
               f \in Selected /\ diffLines[f].lines \subseteq content[report.head][f].lines

\* What a fetch may miss without an error.
Truncated == provider = "github" /\ Cardinality(Changed(report.head)) > PageSize
LeftOut(h) ==
    { f \in File : content[h][f].how \in
        CASE provider = "github"    -> {"copy", "mode"}
          [] provider = "gitlab"    -> {}
          [] provider = "bitbucket" -> {"move", "copy"} }

(***************************************************************************)
(* A fetch by commit during which nobody pushed leaves every file and      *)
(* every line that the pull request adds to what is there, on however many *)
(* pages they are listed.  What it may miss is a file whose copy failed,   *)
(* on GitHub whatever is not on the first page and a file that was copied  *)
(* or got another mode, on Bitbucket one that was moved or copied.         *)
(***************************************************************************)
NothingMissed ==
    Fetched /\ ByCommitReport(report) /\ ~pushed /\ ~Truncated =>
        \A f \in Changed(report.head) \ (skipped \cup LeftOut(report.head)) :
            /\ report.files => diffFiles[f] = content[report.head][f]
            /\ report.lines =>
                  content[report.head][f].lines
                      \ (content[Fork][f].lines \cup content[report.base][f].lines)
                  \subseteq diffLines[f].lines

(***************************************************************************)
(* A comment command that reports success has left one comment, with all   *)
(* of the files GitLab and Bitbucket were to attach but those GitLab could *)
(* not upload; one that fails has left none.  Only after a lost answer may *)
(* there be more: a comment of a command that failed, or one for each time *)
(* GitLab or Bitbucket was asked.                                          *)
(***************************************************************************)
CommentOnce ==
    pc = "idle" /\ req.op = "comment" /\ outcome # "none" =>
        LET new == Len(comments) - before IN
        /\ outcome = "ok" => new = 1 \/ (lost /\ new \in 1 .. tries + 1)
        /\ outcome = "failed" => new = 0 \/ (lost /\ new <= tries + 1)
        /\ outcome = "ok" => ToAttach =
               comments[Len(comments)] \cup (IF provider = "gitlab" THEN skipped ELSE {})
=============================================================================
