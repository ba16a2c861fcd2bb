# Scanio, specified

TLA+ modules that model the parts of Scanio where several actors, failures or
repeated runs make the code hard to test; TLC configurations that check them on
small instances; and TLAPS proofs of what matters most, for every value of the
constants. All paths below are relative to the repository. `PROJECT.json` holds
the same information in a form for tools: components, runs, mutants, the lines
each definition models, findings, hazards and theorems.

    tlc -workers 2 -config MCGitClone.cfg MCGitClone     # check one run
    tlapm GitCloneProofs.tla                             # check the proofs

## 1. The system

Scanio is a command line tool. A command validates its flags, prepares a list
of requests and hands each one to a plugin process (hashicorp/go-plugin over
net/rpc): VCS plugins list, fetch, comment and set statuses; scanner plugins
run a tool. Nothing is kept between commands but files: clones under the
projects folder, SARIF reports, artifacts. Shared state outside the process is
the VCS provider (issues, pull requests) and DefectDojo.

| Component | State | Operations | Hard because | Modelled by |
|---|---|---|---|---|
| issue correlation (`pkg/issuecorrelation`) | two maps of pairs | `Process`, `UnmatchedNew`, `UnmatchedKnown` | many-to-many greedy stages; repeated synchronisations must settle | `Correlator` |
| `sarif-issues` (`cmd/sarif-issues`, issue calls of `plugins/github`) | the repository's issues; each run's report, listing, lists of work | list, create, comment, close | parallel jobs, listings that change while they are read, failing calls, killed jobs, data that passes through an issue body | `IssueSync` |
| worker pool and plugins (`pkg/shared/common.go`, `internal/fetcher`, `internal/scanner`, the `fetch` and `analyse` commands) | guard channel, wait group, two channels, plugin processes | spawn, connect, dispense, set up, call, kill, report, collect | interleaving of goroutines, every step may fail, channels closed while used, limits of 0 or below | `BoundedPool`, `FanOut` |
| clone (`internal/git/clone.go`, `utils.go`) | the folder, a temporary folder, the remote | list, clone, fetch, retry, reclone, check out | kills and failures between any two steps, folders earlier runs left, references that move | `GitClone` |
| diff baseline (`internal/git/mergebase.go`, `fetch.go`) | commits, `.git/shallow`, temporary references | ask the API, prune, deepen with go-git, deepen with git, compute | two tools that read the same shallow file differently; histories that are cut | `MergeBase` |
| pull request: fetch, comment, role, status (`plugins/{github,gitlab,bitbucket}`, `internal/bitbucket`, `internal/git/diff.go`, `integration-vcs`) | the pull request; the checkout and the two diff folders on the runner | read, list changes, clone, copy, diff, compare, set, upload, post | every command is several calls and the head moves between two; paging; folders of earlier runs; calls whose answer is lost, or that a client repeats | `PullRequest` |
| list (`cmd/list`, `internal/vcsintegrator`, the plugins, `internal/bitbucket`) | the file it writes | nested, paged calls | a service that changes while it is read; calls that fail in an inner loop | `Inventory` |
| repository URLs (`pkg/shared/vcsurl`) and the folders of `fetch` and `analyse` | none; the clones | read an address by host or shape, build links, compute folders | two commands compute the same thing in different ways; links that are read again | `VcsUrl`, `Inventory` |
| reports: `to-html`, `report-patch`, `internal/sarif` | a report and what was made of it | enrich, filter, sort, count; select, edit, delete | passes that read what earlier passes wrote, reports edited before | `Report` |
| DefectDojo upload (`internal/dojo`, `cmd/upload`) | the service's objects | look up, create, import | a look-up and a creation are two calls, several jobs at once; the name is a filter | `DojoUpload` |
| scanner plugins, configuration, artifacts, HTTP client, templates, logging, version | none | one command line each, construction, rendering | nothing that depends on order, failure or time | section 6 |

What makes each modelled component correct:

- *Correlation*: no finding and issue that agree are left over on both sides; a
  pair gives way only to a more precise one; a second synchronisation is idle.
- *sarif-issues*: no finding is without an open issue once closing starts; a
  run closes only what it listed, in its folder, and what is superseded; no
  duplicates while nobody interferes.
- *Pool*: never more plugin processes than threads; no send on a closed or full
  channel; each request reported once; no plugin left behind; the command ends
  and its status tells whether all went well.
- *Clone*: success means the files of the reference as it was during the run; a
  repository is replaced only by a complete one; runs recover from what killed
  runs left; no temporary folders or references stay.
- *Baseline*: whatever is reported works in `git diff --merge-base`; it is
  common to head and base; the clone stays readable; it is absent only for a
  reason.
- *Pull request*: a verdict is on what was scanned; a fetch is of one commit,
  with nothing of an earlier one, and misses nothing it does not say; a comment
  is there once.
- *Listing and addresses*: what was there all the time is in the list, once; a
  scan finds the clone of its repository; links lead back to where they came
  from.
- *Report*: the counters of a page agree with what it shows; a patch touches
  what was selected.
- *Upload*: a report lands once, in the one product the service knows
  for the name or a new one of that name; products are doubled only by jobs that
  overlap.

## 2. The modules and how they correspond to the code

### Correlator

Pure operators over functions from an index to a metadata record. `MatchStage`
is `matchStage`, `AddStage` one round of the loop in `Process` (an index matched
by an earlier stage is skipped, within a stage every match counts), `Process`
the four rounds. A set of pairs stands for both Go maps. Recursion is unrolled
(`AfterStage1..3`), which keeps the module open to proofs.

### IssueSync (extends Correlator)

One process per run of `sarif-issues`, one action per API call. `issues` is
GitHub, external, with the operations of `plugins/github/github.go`.

| Action | Code |
|---|---|
| `ReadReport` | `runSarifIssues` up to the listing: `ResultRead` is the ignored error of `json.Unmarshal`, `EnrichPanics` the reports on which `EnrichResultsTitleProperty` ends the program (no run, or a result without a rule id) |
| `ListPage` | one request of the loop in `ListIssues`; pages are cut from the newest-first list *as it is at that moment* |
| `ProcessSARIFReport` | filter, parse, correlate: `parseIssueBody`, `filterIssuesBySourceFolder`, `buildKnownIssuesFromOpen`, `buildNewIssuesFromSARIF`, `Correlator` |
| `CreateIssue`, `CommentIssue`, `CloseIssue` | one call each of `createUnmatchedIssues`, `closeUnmatchedIssues`; a call may take effect and its answer be lost |
| `DryRun`, `Finish`, `Abort` | the ends of a run; `Abort` is also a kill |
| `CloseByHand` | a person |

A title and a body are abstracted to `AsParsed`: what the next run reads back.
It is not the identity: a missing scanner becomes a placeholder, an end line
that is not past the start is not written, file names are cut at a comma.

### BoundedPool and FanOut

The main goroutine and one goroutine per request, with the guard channel, the
wait group and both result channels of
`ForEveryStringWithBoundedGoroutines`/`FetchRepos`/`ScanRepos`, and every step
of `WithPlugin`. `FetchValid` and `AnalyseValid` are the validations including
their early returns. `FanOut` is the promise: a command is refused or settles
each request once and then fails exactly if one of them did; `BoundedPool`
implements it (`Abstract`, a refinement mapping over channel contents).

### GitClone

`CloneRepository` as a process on one folder; runs follow each other, each with
any request. A repository is its origin, commits, cut or not, references,
temporary references and the commit its files are of. Every network call and
file operation can fail, the process can be killed at every step, references
move. A removal that fails or is killed may leave anything between the whole
repository and none (`PartlyRemoved`): one that is `torn` may fail in every
later fetch and checkout. A target that does not lie below its parent is not
`managed`: `RefuseRemoval` is the check of `clone.go:157`, which fails `-o /repo`,
`-o .` and a path that ends in a slash. The remote's history is a line, which is enough for what the module is
about (freshness and loss); graphs are the subject of `MergeBase`.

### MergeBase

`ResolveMergeBase` on a commit graph. The clone is a set of commits and the
entries of `.git/shallow`. The git binary takes an entry for a commit without
parents (`Seen`); go-git adds entries and never drops one (`GoGitShallow`); the
git binary's `fetch --depth` does both (`CLIShallow`, which is why a clone that
was deeper can get shallower); `cleanShallowEntries` is `Pruned`. What a fetch
brings is the constant operator `Near`, constrained by an assumption: depth 1 is
the commits asked for, each further one adds the parents. These effects are
external and follow the comments and tests in `mergebase.go` and
`mergebase_test.go`. `Check`, `GoGitDeepen`, `CLIDeepen`, `DeepenBoth` are one
rung of each loop. `AskAPI` covers the four cases of the switch; since the
provider is asked by names, its answer may be of other commits (`moved`).

### PullRequest

The runner, and one action per call to the provider or per file operation, in
the order of the handlers. `GithubFetchPR`, `GitlabFetchPR`, ...
`BitbucketAddRole` are the twelve handlers; they share their steps, and the
steps differ by `provider` where the handlers do:

| | GitHub | GitLab | Bitbucket |
|---|---|---|---|
| changed files (`NoMorePages`) | one page | until the last | until the last |
| base commit (`BaseOf`) | tip of the target | base of the diff | tip of the target |
| an attachment that fails (`UploadFail`) | none are taken | left out | ends the command |
| changes that are kept (`KeptChanges`) | added, modified, moved | all | added, modified |
| a call that broke, or that the server failed (`NoAnswer`) | ends the command | ends it, or is repeated | is repeated, or ends it |
| reviewers (`WithReviewer`) | added | replaced | added, refused if there |

Three readings of one branch, at three times, are kept apart: `got.head` (the
answer to the first call), `repo` (what was checked out), and `head` (what the
branch is when the verdict arrives). Files are numbers in the provider's order,
a text is a set of lines at their places, and `Added` is what a diff of two
trees adds; `how` is what the provider says of a change: an edit, a move (listed
once, at its new path), a copy, a new mode. A `DELETE` and the old path of a move
have nothing to scan. Bitbucket's retries are those of the connection, set at
`httpclient/client.go:71`; GitLab's those of the client library built at
`gitlab.go:70`, which repeats what is answered with 429 or 5xx, a `POST` too. A
call that only reads is repeated without a trace, so `GetPull` and `ListChanges` stand
for its last attempt. The clone is taken at its promise, a commit of the reference
(`SuccessIsFresh` of `GitClone`), and the fork point is `MergeBase`'s.

### VcsUrl and Inventory

`VcsUrl` reads and builds addresses: a path is the sequence of its segments, a
host is known to be of a service or is not (`HostKind`). `ParseGithub`,
`ParseGitlab`, `ParseBitbucket` and `HandleGenericVCS` are the functions of
those names, with every case of their `switch`.

`Inventory` is the list command against a service: a record of the plugin that
reads it, its host, its namespaces with their repositories, the groups it names
and those inside a group, constrained by `ServicesAssumption` (a repository is in
one namespace, once, and no two there share a name or a slug; the groups of GitLab
are a forest; the namespaces of the others are flat). An entry of Bitbucket has the
name that is shown ("My Repo", `plugins/bitbucket/utils.go:18`), its links the slug
("my-repo", `utils.go:14`); of GitHub and GitLab name and slug are one, by an
assumption of `ServiceType`. Repositories come and go while they are listed, a new one at
any place of its namespace. There is one action per answered call:

| Action | Code |
|---|---|
| `GroupsListed` | the list of organisations, groups or projects |
| `RepoPage` | one page of the loop over the repositories of a namespace; `got` and `pages` are what that loop has so far |
| `SubgroupsListed`, `LanguagesRead`, `GroupDone` | GitLab: the groups inside a group, a project's languages, the end of a group of the outer loop |
| `OwnListed` | GitHub without an organisation: the user's repositories |
| `CallFails` | one failing call; what the handler does about it depends on the loop it is in |
| `Save` | the end of `list`, with or without a file |

Then `Fetch` and `Analyse` work out a folder from an entry (`FetchFolder`,
`AnalyseFolder`); of entries that share a folder the one that is cloned last
stays, and which that is the pool decides. Then `Open`, `OpenUserPage` and
`Follow` read an address of the file, build the links of a report and read those.

### Report

`ReportPatch` and `ToHtml` over small reports, with the crashes and errors of
both as actions of their own. A report has runs, a run has rules and findings;
the passes of `to-html` are operators in the order of the command
(`Read`, `Enriched`, `Page`), and each counter reads the properties the code
reads. The findings of a run are a function on their places, so that a finding
keeps its place when another is deleted. A location has or has not a path, a
region and properties of its file, which decide where `to-html` panics
(`ViewPanics`) or the template gives up (`Placed`): findings with code flows are
shown only in some forms. The property bag of a finding becomes a
record: to `Enriched` a finding is what the scanner wrote, and its severity,
whether it is hidden and whether it is required. A name or a text is the set of
the strings it contains.

### DojoUpload

Jobs that upload at once, one action per request, in the order of
`cmd/upload/upload.go`. A request may fail without effect (`RequestFails`) or
after it (`Answered`). The service is external: `?name=` is a filter, answered
with every product whose name it matches, more than the name itself (`Matches`:
a name that has the other as a part), and `GetProduct` takes an answer of one
without comparing names. So a report for `app` lands in `webapp` where that is
the only product the name matches; what `ImportedWhereAsked` says is that a
product of the very name is never passed over, and that one of another name is
taken only when the answer was it alone. The service creates what it is asked
for, of a name it holds too; the client's error for several results is written
for that.

### Composition

`IssueSync` extends `Correlator` and uses its properties' vocabulary.
`BoundedPool` refines `FanOut`; its step `Call` is one whole `Fetch` or `Scan`,
and for a fetch that is one run of `GitClone`, then one of `MergeBase` in the
clone it leaves. The two meet only in the folder: `MergeBase` starts from any
clone, whole or cut to some depth, that `GitClone` can leave behind.
`PullRequest` uses what both promise. `Inventory` extends `VcsUrl`; the list it
writes is what the pool's commands take. `Report` edits and shows what
`IssueSync` reads.

## 3. Runs

| Run | Asks | Bounds |
|---|---|---|
| `correlator` | the four properties of the correlation, over two synchronisations | every store of up to 2 issues and report of up to 3 findings, over 2 starts, 2 ends, 2 hashes (one empty). Two issues and three findings make every competition the stages allow: one-to-many, many-to-one, and a chain of two |
| `sync` | safety of two concurrent runs | 2 runs, pages of 2 issues, up to 3 issues at first, one fault, one closing by hand; 6 reports × 4 stores for the whole repository, 8 × 2 for folders (one with a finding outside), a dry run and an absent report. Three issues give two pages; both runs creating three leaves room in 9 numbers |
| `pool` | the pool's seven properties, among them `ImplementsFanOut` and liveness | up to 3 requests, limits -1 to 3: below, at and above the number of requests; each combination of the flags the validations look at; one call that may hang with two threads |
| `clone` | the clone's five properties | 2 commits, 3 runs, 2 faults or kills, 1 push; 5 kinds of requests, cut or not, with and without repair; 4 folders. Three runs let a third one meet what a killed second one left of a first one's clone |
| `mergebase` | the baseline's six properties | every history of up to 5 commits with up to 2 parents each, any head and base, cloned whole or to depth 1, a ladder of 2 and 3, 2 fetches into the folder, 1 failing call. Five commits give merges on either side, unrelated histories, head and base in one line, fork points before, on and past each rung, and a base that is fetched apart from the head |
| `pull_request` | the five properties of a pull request | 3 providers, own branch and fork, 2 files, 3 lines, 4 contents of the four commits (files added, deleted, moved, copied, with another mode, on two pages), 8 requests; 3 commands, 2 pushes, 1 fault, 1 retry. Three commands are a fetch, a second fetch over its folders, and a verdict; two pushes move the branch away and back |
| `inventory` | the listing, the folders and the links | 7 services: each plugin, with groups four deep, users, a host that is not known, repositories without an SSH address or with a homepage, a group with the name of a page; pages of 1 entry, 2 faults, 2 repositories created or deleted; links of up to 8 segments. A page of 1 makes each change move a page |
| `report` | what the page tells and what a patch touches | 141 reports of up to 2 runs and 5 findings, with and without code flows, locations, paths, regions, 9 patches, 5 views; 3 commands, so that a patched report is patched again and shown; 1 failing write |
| `upload` | where reports land, and what makes duplicates | 3 jobs, two of one product and one of a product whose name has the first as a part, 7 states of the service (empty, used, with the longer name alone, the shorter, both, doubles), 2 faults |
| `sync_mistyped`, `clone_repair`, `inventory_folders` | one documented statement each that the code does not keep | see Findings |

Deadlock is checked in `sync`. It is switched off where the system may really
stop: `pool` (a limit of 0 waits for ever, which `CommandEnds` excludes by
name), and wherever nobody has to start another command (`correlator`, `clone`,
`mergebase`, `pull_request`, `inventory`, `report`, `upload`).

Each property was also tried against a changed model (the definitions marked
*Plausible bug*), which it has to refute.

**Fairness.** Only `BoundedPool` has liveness properties: the Go scheduler runs every goroutine that can run, and a plugin call that is not in
`hangs` returns. No timeout is assumed around a call, since the code has none.

## 4. Findings

1. **A report that does not parse closes issues** (`sync_mistyped`).
   `internal/sarif/sarif.go:42` drops the error of `json.Unmarshal`, which goes
   on after a value of another type: of a rule id that is a number an empty rule
   is left, the result is skipped (`issue_processing.go:208`) and the open issue
   of the finding is closed, where `cmd-sarif-issues.md:103` promises a
   validation. A file that is not JSON closes nothing: it has no first run, and
   `sarif.go:275` panics before anything is listed (in the model too).
2. **Auto-repair never repairs** (`clone_repair`). `os.MkdirTemp` refuses the
   pattern `reclone-owner/repository-*` (`internal/git/clone.go:129`).
3. **A listed repository may be analysed where it was not fetched**
   (`inventory_folders`). `fetch` takes the domain of the entry, which GitHub's
   plugin fills with the *homepage* of the repository
   (`plugins/github/utils.go:89`), and drops the `~` of a person's namespace
   (`fetcher.go:74-78`); `analyse` takes the domain of the SSH address, also
   when that is empty, and keeps the `~` (`scanner.go:76`).
   `plugin-semgrep.md:167` gives the file of `list` as input for both.

The properties that are checked name the cases in which the code does less than
its documents say. Those met in `IssueSync`, `BoundedPool`, `GitClone` and
`MergeBase`:

- A report without a tool name is opened again by every scan: the body holds a
  placeholder that is compared with the empty name
  (`issue_processing.go:233`), against "Duplicate Prevention",
  `cmd-sarif-issues.md:275`.
- A run of one folder whose report has a finding of another folder opens that
  finding again each time: its findings are not filtered by the folder
  (`buildNewIssuesFromSARIF`), the issues it knows are
  (`filterIssuesBySourceFolder`). `RescanIdle` therefore speaks of reports whose
  files lie in the folder (`ExactReport`), which is how the scan of a folder
  writes them.
- Jobs of different folders interfere: the listing by position
  (`plugins/github/github.go:782-792`) skips an issue when another job closes
  one on an earlier page, and its finding is opened a second time, against
  "Independent Management", `cmd-sarif-issues.md:314`.
- A limit that is not positive passes the validation of `fetch` with a URL
  (`cmd/fetch/validation.go:88`) and of `analyse` with a path: 0 waits for ever,
  a negative one panics.
- The baseline can be an approximation (`mergebase.go:277`): if a branch from
  before the fork point was merged into the base late, two cut histories meet in
  an older commit first; `diff-aware-baseline.md:72` says that never happens. It
  is always a common ancestor (`BaselineCommon`), and exact where the history has
  no merges (`ForkPointExact`): the diff gets larger, not smaller.

In the newer modules:

- *Pull request.* The head is compared in one call and the status set in the
  next, so a push in between gets the verdict (`plugin-github.md:425`,
  `plugin-gitlab.md:448`); a server that names no head is trusted; `head_sha` of
  a fetch by branch may differ from what was cloned. GitHub's changed files are
  those of the first page, and a file that was copied, or has status `changed`, is not among
  them (`github.go:661-665`); Bitbucket's leave out what was moved or copied
  (`bitbucket.go:504`, `internal/bitbucket/types.go:6`), without an error and though
  `cmd-fetch.md:56` speaks of "the fully changed files". An empty list of
  files is no filter for the diff (`diff.go:240`). A copy that fails is only
  logged. GitLab's reviewers are replaced where `cmd-integration-vcs.md:18` says
  they are added. The clients of Bitbucket and GitLab repeat a POST, so that a
  comment may be there twice. A pull request given by URL skips the normalisation
  of `--require-head-sha`.
- *Listing and addresses.* The comment at `fetcher.go:75` ("same folder for ssh
  and http links") is not true of the page of a person's repository, and of
  a project `x` and a person `~x` with repositories of one name only one is in the
  shared folder after a fetch of both; a repository of Bitbucket whose name is not its
  slug is cloned to one folder when it is fetched from a list, which has the name,
  and to another when its address is given, which has the slug;
  a repository that is created while GitLab or
  Bitbucket are listed moves another one to the next page, which is then listed
  twice, where GitHub's single page loses it; links name port 7989 where
  the detection looks for 7999 (`vcsurl.go:457`, `:142`); a GitLab group or repository that is
  named `tree` or `merge_requests`, from the fourth segment on, hides the branch
  or the pull request; the addresses of a file or a commit of GitLab are read as
  repositories; the user form of Bitbucket loses the number of a pull request;
  an address is used before its error is looked at (`cmd/list/utils.go:31`,
  `cmd/integration-vcs/utils.go:38`); a list that fails leaves the file of the
  one before.
- *Report.* `--set-severity` does not change what is shown where the rule has a
  severity of its own, and takes any text: all but `high`, `medium` and `low` is
  shown as `info` (the flag's help names `none` too, `cmd-report-patch.md:31`
  does not); `--when-location-contains` selects findings without a
  location; a rule without a configuration or a finding without a level panics;
  a report that does not parse is rewritten as an empty one, and an error of the
  write is dropped; only findings of the first run are classified as required
  (`cmd-to-html.md`). `to-html` panics on a finding of the first run that has
  neither code flows nor a region, or a path, in one of its locations
  (`sarif.go:303`, `:310`), on one whose code flows lead through such a location,
  on one with code flows and a path in its first location, unless the report
  gives that `artifactLocation` properties (`sarif.go:604`: the map is made only
  for locations of a flow), and on code flows in a later run
  (`calculateThreadFlowFingerprint`). A finding without a location, or whose first
  location has no region, ends the page half written (`report.html:2360-2362`).
- *Upload.* A look-up is by a filter and its answer is not compared with the
  name (`client.go:205-225`): a report goes to a product whose name only has
  the one asked for as a part, if it is alone, where `upload.go:43` says
  "Create product if it's not exists yet", and an upload fails for good when two
  names match. The same holds for product types. Two products of one name make every later upload of the name fail;
  `CreateSLAConfiguration` posts to `/sla_configuration/`, all reads are from
  `/sla_configurations/`; `GetOrCreateSLAConfiguration` is used by no command
  and never creates.

Further notes: the refusal to delete an unmanaged path (`clone.go:157-159`)
returns without removing the temporary folder, so that a run with
`--auto-repair` leaves up to two clones behind where the target is `/repo`, `.`
or ends in a slash (`NoTempLeft` counts them); stage 2 of the correlation joins
two items without a snippet, whose hashes are both empty, against the comment
at `correlator.go:57`; `cliMergeBaseReachable` accepts any common ancestor, so
an answer about a head or base that moved may be reported though it is no
ancestor of the head (`mergebase.go:121`); the fallback's first rung, depth 1,
cuts a clone that is deeper; a kill between `PlainInit` and `CreateRemote`
leaves a folder that every later run refuses as another repository; a failing
`os.Rename` (a temporary folder on another file system) loses the old
repository, which the next run clones anew. A scan with fewer `--levels` than
the one before closes issues of findings that are still in the report; the
comparison with `"already up-to-date"` at `internal/fetcher/fetcher.go:175` is
never true, since the error is wrapped.

## 5. Proofs

All theorems are checked by tlapm to the last leaf, from the assumptions named
in the modules (`BoundsAssumption`, `InputsAssumption`, `PoolAssumption`,
`MergeBaseAssumption`, `PullRequestAssumption`, `JobsAssumption`,
`MatchesAssumption`, `HoldingsAssumption`, `ReportAssumption`, `HomeAssumption`,
`ServicesAssumption`), which TLC evaluates in every run.

- **`IssueSyncProofs`**, on correlation: `NoChurnAlways`, `EarlierStageAlwaysWins`,
  `OneStageAlways`, `RescanAlwaysIdle`, for all finite or infinite sets of
  items. The argument: a pair enters at stage *s* exactly if it matches at *s*
  and both sides were free (`AddStage`), so what is unmatched at the end was
  free at each stage. For the second synchronisation an opened issue is an exact
  copy of its finding and matches at stage 1; the kept issues then meet the same
  competitors, stage by stage, as the first time. Correlation asks only which
  metadata there are, not under which numbers (`LeftOverAlike`).
- **`IssueSyncProofs`**, on `sarif-issues`: `TypesKept`, `AlwaysCoveredBeforeClose`,
  `ListingAlwaysComplete`, `RescanAlwaysFindsNothing`,
  `AlwaysClosesOnlySuperseded`, `AlwaysOpensOnlyUncovered`: all properties of
  the run, for any number of runs, any reports, folders and page size, any
  number of failures, kills and issues closed by hand. Findings are typed by an
  assumption (`InputsAssumption`: what a report yields, and what is read back of
  it, is metadata). The inductive invariant `IInv` says of each run what
  the steps of others cannot take away while it is undisturbed: `Local` (what it
  has to do is a part of what its correlation left over), `Seen` (what it listed
  exists and was fit to be listed), `Paged` (what the pages so far have covered is
  listed: new issues come in front and only move others back), `Fresh` (in a quiet
  folder the listing stays true), `Provided` (a finding is still to be opened or
  has an open issue the run will not close), `HalfWay` (between the first opening
  and the last closing, the folder's issues are those that were matched, those
  still to be closed and those opened so far) and `Repeats` (a run that repeats an
  input which is in step has nothing to do; after a completed run its input is in
  step, `SettledInStep`, by `RescanIsIdle` of the correlation).
- **`BoundedPoolProofs`**: `TypeCorrect`, `LimitHolds`, `SendsSafe`,
  `PluginsGone` and the refinement `PoolImplementsFanOut`, for any number of
  requests and any limit. The inductive
  invariant is a shape part (where main is, which workers exist) and
  `Accounting`: the guard holds one token per worker that has not released, the
  wait group counts the workers not done, the channels' lengths are the numbers
  of workers past their sends. The limit and the sends follow by counting; the
  type invariant alone is not inductive, since `guard` and `wg` are only bounded
  below by what they count. `SendsSafe` needs that a worker about to send has not
  been counted among the senders, hence fewer entries than requests. For the
  refinement, each step of the pool is a step of `FanOut` or none under the
  mapping `Outcomes` and `Verdict`; that the status tells the truth needs that
  the reports which lie in the channel or were collected are those of the workers
  past their send, each with what its worker learnt (`Told`), and that main
  collects only when all requests are started (`AllStarted`).
- **`GitCloneProofs`**: `TypeCorrect`, `SuccessFresh`, `TmpRefGone`,
  `TempsGone`, `FailuresHaveCause`, `OldUntilReplacement`, for any number of
  commits, runs, faults and pushes. Three invariants: `Typed` (with how many
  temporary folders there can be at each point), `Fresh` (references lead to
  objects that are there, and from "checkout" on the wanted reference has a
  value it had during the run), `Causes` (each point a run can be at with an
  error behind it has its cause recorded; what is checked out is not torn,
  `TornKept`).
- **`MergeBaseProofs`**: `TypeCorrect`, `CloneReadable`, `ReportedUsable`,
  `ReportedCommon`, `ReportedExact`, `AbsentOnlyForCause`, `RefsGone`: all
  properties of the run, for every set of commit graphs, any ladder, any number
  of runs and failures. Ancestors are the intersection of the closed sets around
  a commit, so that each fact about them needs one such set and no induction.
  `CloneOK` (a parent is missing only behind an entry) is kept by each fetch and
  pruning (`GoGitKeeps`, `CLIKeeps`, `PrunedKeeps`); then what git sees from the
  head is in the clone (`SeenIsThere`), and the number order of commits makes a
  seen ancestor its own merge base (`AncestorIsMergeBase`). In a history without
  merges a cut history that reaches a commit reaches all in between
  (`NothingBetween`), so that the best common commit it shows is the best one
  (`SeenIsBest`). For absence: after the deepest fetch only commits at its edge
  are without their parents (`DeepestIsApart`), so each of head and base sees all
  that is near it (`NearIsReached`); if these had a commit in common there would
  be a best one (`BestExists`, the one of the highest number). The two inductions
  this takes, over depths and over numbers, are stated of sets (`Smallest`,
  `UpTo`), from the well-foundedness of the natural numbers.
- **`PullRequestProofs`**: `TypeCorrect`, `VerdictsOnScanned`,
  `FetchesOneCommit`, `MissesNothing`, `CommentsOnce`, for any commits, files,
  page size, requests, retries and bounds: all five properties of the run. Types
  need `HeadsThere` (what is copied or compared is of a commit that was read), on
  which four invariants rest, each of what one command knows where it is.
  Verdicts: until somebody pushes, the head is the one read (`HeadKnown`), the
  pin equals it once compared (`PinMatched`), and the head a fetch reported is
  the one it checked out (`ReportedHead`). Fetches: a folder is empty after it is
  wiped and then holds files of this fetch only (`Folders`). Missing: after *n*
  pages the list is of the changes whose rank is up to *n* times the page size
  (`Paging`); a rank is never above the number of changes, so that the last page
  has all. Comments: before the last call there are at most as many as attempts
  (`Commenting`).
- **`DojoUploadProofs`**: `ImportsRight`, `DuplicatesOverlap`, for any number of
  jobs, products and failures and any filter that matches the name itself
  (`MatchesAssumption`). The invariant says what a job holds at each request:
  nothing its name matched when it looked (`NoneThen`), a product that is right
  (`Chosen`), an engagement of its own (`Own`), and that whoever made something
  is past the step that makes it (`Made`, `Engaged`, `Imported`).

- **`ReportProofs`**: `PatchAsPromised`, `PagesTellAll`: both properties of the
  run, for every report of typed findings, every patch and every view. The
  invariant (`FilesOK`) is that a file which can be read holds runs of rules and
  findings of the right shape, on finitely many places; deletion leaves gaps, so
  a file's findings are no sequence and the places are what later steps count
  by. A patch: a result-specific one leaves the rules alone (`RulesKept`), and a
  rule that is rewritten belongs to selected findings only, so that the
  severity of the others is worked out from the same rule (`SameSeverity`); with a
  score no level is looked at (`ByScore`), without one the level written is
  what is shown (`ByLevel`). A page: each pass keeps every finding and its place
  but the filter (`EnrichedMade`, `ViewedOK`), sorting is a bijection of places
  within a run (`Sorted`), hence what is shown and what is in the report are as
  many (`AsMany`, `ActiveAsMany`); the active findings fall into six disjoint
  sets by severity, since every severity worked out is one of the six
  (`SomeSeverity`), and the counters are their sizes (`Counters`). That no more are
  required than blocked needs that only an active finding of a blocking severity
  is marked.

- **`InventoryProofs`**: `ListsKeepTheirCounts`, `NothingEverUnlisted`,
  `TwiceOnlyForCause`, `ScansAlwaysFindTheirClones`, `LinksAlwaysComeBack`: all
  four properties of the run, for every service the assumption admits, any page
  size, any number of failing calls and of repositories created or deleted, all
  names, and links of any length (`MaxPath` is arbitrary).
  - *The list.* Neither property is inductive: both speak of the file only. The
    invariant `ListInv` says at every call what the list holds (`Held`: the loops'
    three lists) and what is still before it (`Pending`: the unread pages of the
    namespace under way, its subgroups, and the namespaces behind it). `Lost` are
    the repositories asked for that are in neither, `Doubled` those that are in
    one of the lists twice, in two, or held and pending; `CountsOK` bounds both by
    the repositories that were deleted or created. A step of the command moves
    repositories from pending to held or to `missed` and adds to neither set
    (`RepoPageStep`, `GroupDoneStep`, `CallFailsStep`, ...); a new or a deleted
    repository moves the others by one place, so that at most one crosses the edge
    of the answered pages (`CreatedStep`, `DeletedStep`). That nothing is on
    the way twice is `RouteOK`: the groups waiting are apart from one another in
    the forest, and only a list of all goes into a subgroup twice.
  - *The folders* (`FoldersOK`). Every entry that can be cloned has a clone or
    shares the folder of one (`Cloned`); the folder determines host, namespace and
    name of an entry that is plain, and two entries that agree in these are one.
  - *The links* (`LinksOK`). What was read last is one of the two readings of the
    repository (`Knows`: by its project, or by a user), and every link built of
    such a reading is read as such a reading again: one lemma for each plugin and
    form of address that reads it (`GithubLink`, `GitlabLink`, `ProjectLink`,
    `UserLink`, `BitbucketAddress`), one for each plugin that builds the links
    (`GithubLinked`, `GitlabLinked`, `BitbucketLinked`). For GitLab the word that
    decides is the first behind the third segment; that it is the one the link
    put there is where `HasPageName` is needed.

Every safety invariant and every safety action property of every passing run is
a theorem. `OneStageAlways`, `TmpRefGone` and `RefsGone` are proved without a run
of their own. Only model-checked: liveness (`CommandEnds`, `OthersProgress`),
which is out of the prover's reach together with `ENABLED`; and that the three
documented statements of section 4 are refuted.

## 6. What is abstracted or left out

- Texts: titles, bodies, hashes and file names are members of small sets; the
  conversions that lose something are modelled (`AsParsed`, `SnippetHash`,
  `ResolveSeverity`, the parsers of `VcsUrl`).
- `IssueSync`: labels, assignees and permalinks; renames of an issue by hand.
- `BoundedPool`: preparing the requests (paths, names); results of a command
  that is killed; the metadata files. Requests of one list that share an output
  folder (`fetcher.go:80`).
- `GitClone`: submodules and sparse checkouts of other tools; two runs at once
  in one folder; histories with merges.
- `MergeBase`: clones without a remote, ids that are too short, a git process
  that is killed while it writes, temporary references of killed runs.
- `PullRequest`: the text of comments; the mapping of roles and states to those
  of a provider; two jobs on one runner's folders; the copied dot files.
- `Inventory`: case of names; the contents of repositories; projects that move to
  another group or are shared with one; a name that is used again after its
  repository was deleted; a homepage is one segment of a folder.
- `Report`: findings that come with a `Severity` or `Suppressed` property of the
  scanner's own (`to-html` overwrites or trusts them); titles, code
  snippets and columns that lie outside their line, what a code flow shows, code
  flows without a location, a location without `physicalLocation` or
  `artifactLocation`, markup.
- `DojoUpload`: the form of requests; what the service makes of a report.
- Of external programs only the effects named in the modules: go-git's
  `PlainClone` removes what it made when it fails, `fetch --depth` moves the
  boundary, GitHub lists newest first and cuts pages by position.

Not modelled, since no state, order or failure is in them: the scanner plugins
(one command line and its exit code), the configuration but for the folder of a
repository (a fixed order of assignments), the names of artifacts, the
construction of HTTP clients and loggers, the version, and the markup of the
HTML report.

## 7. Plan

1. *Done*: `Correlator`, `IssueSync`, `FanOut`, `BoundedPool`, `GitClone`,
   `MergeBase`, `PullRequest`, `VcsUrl`, `Inventory`, `Report`, `DojoUpload`,
   with the proofs above.
2. `SharedFolder`: two workers of one list in one output folder, from the steps
   of `GitClone`.
