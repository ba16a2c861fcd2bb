------------------------------ MODULE IssueSync ------------------------------
(***************************************************************************)
(* The sarif-issues command (cmd/sarif-issues) keeping the GitHub issues   *)
(* of one repository in step with a scanner's SARIF report.                *)
(*                                                                         *)
(* Each run is a process of its own: it reads the report, lists the open   *)
(* issues page by page, correlates, opens an issue for every finding left  *)
(* over and then comments on and closes every issue left over.  Each of    *)
(* these API calls is one step, so that runs of several CI jobs, people    *)
(* closing issues by hand, failing calls and killed processes interleave.  *)
(*                                                                         *)
(* GitHub is the variable `issues`; it is external and modelled from the   *)
(* way plugins/github/github.go uses it.                                   *)
(***************************************************************************)
EXTENDS Correlator, FiniteSets

CONSTANTS
    Runs,        \* invocations of the command
    MaxIssue,    \* bound: issue numbers the repository can reach
    PageSize,    \* issues per page of the listing (100 in the code)
    MaxFaults,   \* bound: failing API calls and killed processes
    MaxByHand,   \* bound: issues people close by hand
    Inputs,      \* assignments of one command line and report to every run
    Stores,      \* contents the repository's issue list may start with
    Inside,      \* the files below each folder a run can be scoped to
    ParsedFile   \* a file name as read back from an issue body

Root == ""       \* no subfolder: every issue is in scope
Unknown == "<unknown>"

Numbers == 1 .. MaxIssue

ASSUME BoundsAssumption ==
    /\ MaxIssue \in Nat /\ PageSize \in Nat \ {0}
    /\ MaxFaults \in Nat /\ MaxByHand \in Nat

VARIABLES
    issues,      \* GitHub: number -> issue
    pc,          \* run -> where it is
    input,       \* run -> its report and options, chosen once
    page,        \* run -> next page of the listing
    listed,      \* run -> numbers of the open managed issues it has seen
    toCreate,    \* run -> report positions still to be opened as issues
    toClose,     \* run -> issue numbers still to be closed
    current,     \* run -> issue commented on and not closed yet, 0 if none
    faults,      \* API calls that failed and processes killed so far
    byHand,      \* issues closed by hand so far
    quiet,       \* history: nothing in the run's scope changed but by the run
    noClosing,   \* history: nothing was closed by others while it listed
    atListing,   \* history: managed open issues when its listing began
    settled,     \* history: input of the run after which nothing changed
    rescan       \* history: the run repeats such an input

ghost == <<quiet, noClosing, atListing, settled, rescan>>
vars == <<issues, pc, input, page, listed, toCreate, toClose, current,
          faults, byHand, ghost>>

-----------------------------------------------------------------------------
(***************************************************************************)
(* From the SARIF report to findings, and through an issue body and back.  *)
(***************************************************************************)

\* buildNewIssuesFromSARIF keeps a result of an allowed level with a rule;
\* ReadReport dropped the suppressed ones before.
Reported(in, res) ==
    /\ ~res.suppressed
    /\ res.level \in in.levels
    /\ res.rule # ""

\* ComputeSnippetHash: empty without a line or a readable file.
SnippetHash(res) == IF res.start <= 0 THEN "" ELSE res.text

\* The metadata of one result; an absent end line stays 0.
FindingOf(res) ==
    [scanner |-> res.scanner, rule |-> res.rule,
     file |-> IF res.file = "" THEN Unknown ELSE res.file,
     start |-> res.start, end |-> res.end, hash |-> SnippetHash(res)]

\* readSarifReport drops the error of json.Unmarshal.  On a value of another
\* type, a number for a rule id, that error comes after the rest was read: the
\* result is there, and its rule is empty.
ResultRead(res) == [res EXCEPT !.rule = IF res.ruleId = "mistyped" THEN "" ELSE @]

ResultsRead(in) == [i \in DOMAIN in.results |-> ResultRead(in.results[i])]

\* The file is JSON, has a run of a tool, and no value of another type.
Parses(in) ==
    in.shaped /\ \A i \in DOMAIN in.results : in.results[i].ruleId # "mistyped"

\* EnrichResultsTitleProperty: without a first run (a file that is not JSON has
\* none), or with a result in it that names no rule, the program panics.
EnrichPanics(in) ==
    \/ ~in.shaped
    \/ \E i \in DOMAIN in.results :
          ~in.results[i].suppressed /\ in.results[i].ruleId = "missing"

\* Findings of a run by their position in the report.
NewIssues(in) ==
    LET results == ResultsRead(in)
        kept    == { i \in DOMAIN results : Reported(in, results[i]) }
    IN [i \in kept |-> FindingOf(results[i])]

\* The metadata parseIssueBody reads back from the body written for a finding:
\* a missing scanner was written as "SARIF", a range is only written when the
\* end is past the start, fields are cut at commas.
AsParsed(f) ==
    [f EXCEPT !.scanner = IF @ = "" THEN "SARIF" ELSE @,
              !.file = ParsedFile[@],
              !.end = IF @ > f.start THEN @ ELSE f.start]

\* Plausible bug: the body is written without the scanio-managed annotation.
NewIssueUnannotated(f) ==
    [state |-> "open", managed |-> FALSE, pr |-> FALSE,
     meta |-> AsParsed(f), comments |-> 0]

NewIssue(f) ==
    [state |-> "open", managed |-> TRUE, pr |-> FALSE,
     meta |-> AsParsed(f), comments |-> 0]

NoIssue ==
    [state |-> "none", managed |-> FALSE, pr |-> FALSE,
     meta |-> [scanner |-> "", rule |-> "", file |-> "",
               start |-> 0, end |-> 0, hash |-> ""], comments |-> 0]

\* filterIssuesBySourceFolder
InScope(meta, scope) == scope = Root \/ meta.file \in Inside[scope]

WellFormed(meta) == meta.scanner # "" /\ meta.rule # "" /\ meta.file # ""

\* What listOpenIssues keeps: open, no pull request, annotated body.
Listable(issue) == issue.state = "open" /\ issue.managed /\ ~issue.pr

\* Plausible bug: neither the folder nor the metadata filter is applied.
KnownIssuesUnfiltered(seen, scope) == [n \in seen |-> issues[n].meta]

\* buildKnownIssuesFromOpen on the listed issues in the run's scope.
KnownIssues(seen, scope) ==
    LET kept == { n \in seen : /\ InScope(issues[n].meta, scope)
                               /\ WellFormed(issues[n].meta) }
    IN [n \in kept |-> issues[n].meta]

Metadata == [scanner : STRING, rule : STRING, file : STRING,
             start : Nat, end : Nat, hash : STRING]
Issue == [state : {"none", "open", "closed"}, managed : BOOLEAN, pr : BOOLEAN,
          meta : Metadata, comments : Nat]

\* Lines of a SARIF region count from 1; 0 stands for an absent one.  An issue
\* body is text, so whatever is read back as the file name is text too.
ASSUME InputsAssumption ==
    /\ \A in \in Inputs, r \in Runs :
          /\ DOMAIN in[r].results \subseteq Nat
          /\ \A i \in DOMAIN in[r].results :
                /\ FindingOf(ResultRead(in[r].results[i])) \in Metadata
                /\ AsParsed(FindingOf(ResultRead(in[r].results[i]))) \in Metadata
    /\ Stores \subseteq [Numbers -> Issue]
    /\ "nobody" \notin Runs

-----------------------------------------------------------------------------
(***************************************************************************)
(* GitHub.                                                                 *)
(***************************************************************************)

OpenNumbers == { n \in Numbers : issues[n].state = "open" }

\* Position of an open issue in the listing, newest first.
Rank(n) == Cardinality({ m \in OpenNumbers : m >= n })

PageItems(p) ==
    { n \in OpenNumbers : (p - 1) * PageSize < Rank(n) /\ Rank(n) <= p * PageSize }

\* Plausible bug: the loop ends one page early.
IsLastPageEarly(p) == Cardinality(OpenNumbers) <= (p + 1) * PageSize

IsLastPage(p) == Cardinality(OpenNumbers) <= p * PageSize

NextPage(p) == p + 1

\* The number the next issue gets; none when the bound is reached.
FreshNumbers ==
    { n \in Numbers : /\ issues[n].state = "none"
                      /\ \A m \in 1 .. n - 1 : issues[m].state # "none" }

\* History: a change of issue n made by `who` (a run or nobody).
Changed(who, n, closing) ==
    LET meta == issues'[n].meta
    IN /\ quiet' = [q \in Runs |->
                       quiet[q] /\ (q = who \/ ~InScope(meta, input[q].scope))]
       /\ noClosing' = [q \in Runs |->
                           noClosing[q] /\ (closing => pc[q] # "list" \/ q = who)]
       /\ settled' = {}
       /\ UNCHANGED <<atListing, rescan>>

-----------------------------------------------------------------------------
(***************************************************************************)
(* One run.                                                                *)
(***************************************************************************)

Active == {"list", "process", "sync"}

\* Reads the report and sets levels and titles: the command ends when the file
\* cannot be opened, and in a panic before anything is listed.
ReadReport(r) ==
    /\ pc[r] = "idle"
    /\ pc' = [pc EXCEPT ![r] = IF input[r].exists /\ ~EnrichPanics(input[r])
                                THEN "list" ELSE "failed"]
    /\ quiet' = [quiet EXCEPT ![r] = TRUE]
    /\ noClosing' = [noClosing EXCEPT ![r] = TRUE]
    /\ atListing' = [atListing EXCEPT
                        ![r] = { n \in Numbers : Listable(issues[n]) }]
    /\ rescan' = [rescan EXCEPT ![r] = input[r] \in settled]
    /\ UNCHANGED <<issues, input, page, listed, toCreate, toClose, current,
                   faults, byHand, settled>>

\* One request of the pagination loop in ListIssues.
ListPage(r) ==
    /\ pc[r] = "list"
    /\ listed' = [listed EXCEPT
                     ![r] = @ \cup { n \in PageItems(page[r]) : Listable(issues[n]) }]
    /\ page' = [page EXCEPT ![r] = NextPage(@)]
    /\ pc' = [pc EXCEPT ![r] = IF IsLastPage(page[r]) THEN "process" ELSE "list"]
    /\ UNCHANGED <<issues, input, toCreate, toClose, current, faults, byHand, ghost>>

\* processSARIFReport up to the first API call; it reads no remote state.
ProcessSARIFReport(r) ==
    LET known == KnownIssues(listed[r], input[r].scope)
        new   == NewIssues(input[r])
    IN /\ pc[r] = "process"
       /\ toCreate' = [toCreate EXCEPT ![r] = UnmatchedNew(known, new)]
       /\ toClose' = [toClose EXCEPT ![r] = UnmatchedKnown(known, new)]
       /\ pc' = [pc EXCEPT ![r] = "sync"]
       /\ UNCHANGED <<issues, input, page, listed, current, faults, byHand, ghost>>

\* With --dry-run the differences are only printed and counted.
DryRun(r) ==
    /\ pc[r] = "sync" /\ input[r].dry
    /\ toCreate' = [toCreate EXCEPT ![r] = {}]
    /\ toClose' = [toClose EXCEPT ![r] = {}]
    /\ pc' = [pc EXCEPT ![r] = "done"]
    /\ UNCHANGED <<issues, input, page, listed, current, faults, byHand, ghost>>

\* An API call was carried out, but its answer may be an error all the same.
AnswerLost(r) ==
    /\ faults < MaxFaults
    /\ faults' = faults + 1
    /\ pc' = [pc EXCEPT ![r] = "failed"]

AnswerReceived == UNCHANGED <<faults, pc>>

\* createUnmatchedIssues, one finding in report order; an error ends the run.
CreateIssue(r) ==
    /\ pc[r] = "sync" /\ ~input[r].dry
    /\ \E i \in toCreate[r], n \in FreshNumbers :
          /\ \A j \in toCreate[r] : i <= j
          /\ issues' = [issues EXCEPT ![n] = NewIssue(NewIssues(input[r])[i])]
          /\ toCreate' = [toCreate EXCEPT ![r] = @ \ {i}]
          /\ Changed(r, n, FALSE)
    /\ AnswerReceived \/ AnswerLost(r)
    /\ UNCHANGED <<input, page, listed, toClose, current, byHand>>

\* closeUnmatchedIssues: the comment before one closing, in the random order of
\* a Go map.  A failing comment is logged and ignored.
CommentIssue(r) ==
    /\ pc[r] = "sync" /\ ~input[r].dry
    /\ toCreate[r] = {} /\ current[r] = 0
    /\ \E n \in toClose[r] :
          /\ current' = [current EXCEPT ![r] = n]
          /\ \/ /\ issues' = [issues EXCEPT ![n].comments = @ + 1]
                /\ UNCHANGED faults
             \/ /\ faults < MaxFaults
                /\ faults' = faults + 1
                /\ UNCHANGED issues
    /\ UNCHANGED <<pc, input, page, listed, toCreate, toClose, byHand, ghost>>

\* Plausible bug: the issue being closed is never reset.
CloseIssueKeepingCurrent(r) ==
    LET n == current[r]
    IN /\ pc[r] = "sync" /\ n # 0
       /\ issues' = [issues EXCEPT ![n].state = "closed"]
       /\ toClose' = [toClose EXCEPT ![r] = @ \ {n}]
       /\ Changed(r, n, TRUE)
       /\ AnswerReceived \/ AnswerLost(r)
       /\ UNCHANGED <<input, page, listed, toCreate, current, byHand>>

\* closeUnmatchedIssues: the update to state "closed"; an error ends the run.
CloseIssue(r) ==
    LET n == current[r]
    IN /\ pc[r] = "sync" /\ n # 0
       /\ issues' = [issues EXCEPT ![n].state = "closed"]
       /\ toClose' = [toClose EXCEPT ![r] = @ \ {n}]
       /\ current' = [current EXCEPT ![r] = 0]
       /\ Changed(r, n, TRUE)
       /\ AnswerReceived \/ AnswerLost(r)
       /\ UNCHANGED <<input, page, listed, toCreate, byHand>>

\* runSarifIssues returns nil; the input is settled when the listing missed
\* nothing and nobody else changed an issue of the scope.
Finish(r) ==
    /\ pc[r] = "sync" /\ ~input[r].dry
    /\ toCreate[r] = {} /\ toClose[r] = {}
    /\ pc' = [pc EXCEPT ![r] = "done"]
    /\ settled' = IF quiet[r] /\ noClosing[r] THEN {input[r]} ELSE settled
    /\ UNCHANGED <<issues, input, page, listed, toCreate, toClose, current,
                   faults, byHand, quiet, noClosing, atListing, rescan>>

\* The listing, a creation or a closing fails without effect and the command
\* returns the error, or the process is killed between two calls.
Abort(r) ==
    /\ pc[r] \in Active
    /\ faults < MaxFaults
    /\ faults' = faults + 1
    /\ pc' = [pc EXCEPT ![r] = "failed"]
    /\ UNCHANGED <<issues, input, page, listed, toCreate, toClose, current,
                   byHand, ghost>>

\* Somebody closes an issue on GitHub.
CloseByHand(n) ==
    /\ byHand < MaxByHand
    /\ issues[n].state = "open"
    /\ byHand' = byHand + 1
    /\ issues' = [issues EXCEPT ![n].state = "closed"]
    /\ Changed("nobody", n, TRUE)
    /\ UNCHANGED <<pc, input, page, listed, toCreate, toClose, current, faults>>

-----------------------------------------------------------------------------

Init ==
    /\ input \in Inputs
    /\ issues \in Stores
    /\ pc = [r \in Runs |-> "idle"]
    /\ page = [r \in Runs |-> 1]
    /\ listed = [r \in Runs |-> {}]
    /\ toCreate = [r \in Runs |-> {}]
    /\ toClose = [r \in Runs |-> {}]
    /\ current = [r \in Runs |-> 0]
    /\ faults = 0 /\ byHand = 0
    /\ quiet = [r \in Runs |-> FALSE]
    /\ noClosing = [r \in Runs |-> FALSE]
    /\ atListing = [r \in Runs |-> {}]
    /\ settled = {}
    /\ rescan = [r \in Runs |-> FALSE]

\* What a run does by itself when no call fails.
Step(r) ==
    \/ ReadReport(r) \/ ListPage(r) \/ ProcessSARIFReport(r) \/ DryRun(r)
    \/ CreateIssue(r) \/ CommentIssue(r) \/ CloseIssue(r) \/ Finish(r)

AllEnded ==
    /\ \A r \in Runs : pc[r] \in {"done", "failed"}
    /\ UNCHANGED vars

Next ==
    \/ \E r \in Runs : Step(r) \/ Abort(r)
    \/ \E n \in Numbers : CloseByHand(n)
    \/ AllEnded

Spec == Init /\ [][Next]_vars

-----------------------------------------------------------------------------
(***************************************************************************)
(* Correctness.                                                            *)
(***************************************************************************)

(***************************************************************************)
(* Type invariant of the store and of the runs' local state.               *)
(***************************************************************************)
TypeOK ==
    /\ issues \in [Numbers -> Issue]
    /\ pc \in [Runs -> {"idle", "list", "process", "sync", "done", "failed"}]
    /\ page \in [Runs -> Nat \ {0}]
    /\ listed \in [Runs -> SUBSET Numbers]
    /\ toCreate \in [Runs -> SUBSET Nat]
    /\ toClose \in [Runs -> SUBSET Numbers]
    /\ current \in [Runs -> {0} \cup Numbers]
    /\ \A r \in Runs : current[r] \in {0} \cup toClose[r]
    /\ faults \in 0 .. MaxFaults /\ byHand \in 0 .. MaxByHand
    /\ quiet \in [Runs -> BOOLEAN] /\ noClosing \in [Runs -> BOOLEAN]
    /\ atListing \in [Runs -> SUBSET Numbers]
    /\ rescan \in [Runs -> BOOLEAN]

\* The finding survives the way into an issue body and back, up to its end line.
Faithful(f) == f.scanner # "" /\ ParsedFile[f.file] = f.file

Candidate(n, scope) ==
    /\ Listable(issues[n])
    /\ WellFormed(issues[n].meta)
    /\ InScope(issues[n].meta, scope)

Covered(f) ==
    \E n \in Numbers : Listable(issues[n]) /\ Matching(issues[n].meta, f)

(***************************************************************************)
(* Nothing is lost.  While a run is closing issues, and when it ends with  *)
(* success, every finding of its scope has an open issue, whatever runs of *)
(* other folders do in between; a run that fails half-way has closed       *)
(* nothing a finding depended on.                                          *)
(***************************************************************************)
CoveredBeforeClose ==
    \A r \in Runs :
        /\ quiet[r] /\ ~input[r].dry
        /\ \/ pc[r] = "done"
           \/ pc[r] = "sync" /\ (toCreate[r] = {} \/ current[r] # 0)
        => \A i \in DOMAIN NewIssues(input[r]) :
              LET f == NewIssues(input[r])[i]
              IN Faithful(f) /\ InScope(f, input[r].scope) => Covered(f)

\* In this step run r closes issue n.
Closes(r, n) ==
    /\ issues[n].state = "open" /\ issues'[n].state = "closed"
    /\ current[r] = n /\ current'[r] # n

(***************************************************************************)
(* A run only closes an issue it listed: scanio-managed, well formed,      *)
(* inside its folder, not in a dry run, and such that every finding it     *)
(* matches has a more precise issue that the run listed and keeps open.    *)
(***************************************************************************)
ClosesOnlySuperseded ==
    [][\A r \in Runs, n \in Numbers : Closes(r, n) =>
          /\ ~input[r].dry
          /\ n \in listed[r]
          /\ Candidate(n, input[r].scope)
          /\ \A i \in DOMAIN NewIssues(input[r]), s \in Stages :
                MatchStage(issues[n].meta, NewIssues(input[r])[i], s) =>
                \E m \in listed[r] \ toClose[r], t \in 1 .. s - 1 :
                    FirstMatch(issues[m].meta, NewIssues(input[r])[i], t)]_vars

\* In this step run r opens issue n for the finding at position i.
Opens(r, i, n) ==
    /\ issues[n].state = "none" /\ issues'[n].state = "open"
    /\ i \in toCreate[r] /\ i \notin toCreate'[r]

(***************************************************************************)
(* Duplicate prevention.  While nobody else changes its folder and nothing *)
(* is closed under its listing, a run opens an issue only when every       *)
(* eligible issue open at its start that matches the finding matches       *)
(* another finding of the report more precisely.                           *)
(***************************************************************************)
OpensOnlyUncovered ==
    [][\A r \in Runs, n \in Numbers : \A i \in toCreate[r] :
          Opens(r, i, n) /\ quiet[r] /\ noClosing[r] =>
          \A m \in atListing[r], s \in Stages :
              /\ Candidate(m, input[r].scope)
              /\ MatchStage(issues[m].meta, NewIssues(input[r])[i], s)
              => \E j \in DOMAIN NewIssues(input[r]), t \in 1 .. s - 1 :
                    FirstMatch(issues[m].meta, NewIssues(input[r])[j], t)]_vars

(***************************************************************************)
(* Offset pagination misses nothing while issues are only added: an issue  *)
(* open when the listing began has been seen when the run correlates,      *)
(* unless somebody closed an issue meanwhile.                              *)
(***************************************************************************)
ListingComplete ==
    \A r \in Runs :
        pc[r] = "process" /\ noClosing[r] => atListing[r] \subseteq listed[r]

\* Every finding's metadata comes back from an issue body unchanged, and its
\* file lies in the folder of the run: an issue of another file, or of a result
\* without one, is not known to the next run, which opens it again.
ExactReport(in) ==
    \A i \in DOMAIN NewIssues(in) :
        LET f == NewIssues(in)[i]
        IN Faithful(f) /\ AsParsed(f) = f /\ InScope(f, in.scope)

(***************************************************************************)
(* Repeating a completed run is idle.  With the same report, and no change *)
(* by others in its folder, the second run neither opens nor closes.       *)
(***************************************************************************)
RescanIdle ==
    \A r \in Runs :
        /\ rescan[r] /\ quiet[r] /\ noClosing[r] /\ pc[r] = "sync"
        /\ ExactReport(input[r])
        => toCreate[r] = {} /\ toClose[r] = {}

-----------------------------------------------------------------------------
(***************************************************************************)
(* What the documentation says and the code does not do.                   *)
(***************************************************************************)

(***************************************************************************)
(* docs/reference/cmd-sarif-issues.md, Core Validation: the command makes  *)
(* sure the SARIF file can be parsed successfully.  So a run on a file that *)
(* json.Unmarshal refuses closes nothing.                                  *)
(***************************************************************************)
UnparsableReportClosesNothing ==
    [][\A r \in Runs, n \in Numbers : Closes(r, n) => Parses(input[r])]_vars
=============================================================================
