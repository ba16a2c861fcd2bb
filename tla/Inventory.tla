----------------------------- MODULE Inventory -----------------------------
(***************************************************************************)
(* From a list of repositories to their scans: the list command asks the   *)
(* plugin of a service for the repositories of one namespace or of all,    *)
(* page by page and group by group, and writes a file; the fetch command   *)
(* clones every repository of the file and the analyse command scans them, *)
(* each working out on its own in which folder a repository lies.  The     *)
(* addresses in the file and the links of a report lead back to the same   *)
(* repositories (module VcsUrl).                                           *)
(*                                                                         *)
(* Repositories are created and deleted while the pages are read, and any  *)
(* call may fail.  Names are compared without regard to case by the        *)
(* services and by the folders, so no two names here differ in case only,  *)
(* and no name is given to two repositories.                               *)
(***************************************************************************)
EXTENDS VcsUrl

CONSTANTS
    Services,    \* the services a list may be taken of
    PageSize,    \* entries of one page of an answer
    MaxFaults,   \* calls that may fail
    MaxMoves,    \* repositories created or deleted by others
    MaxPath      \* segments of an address whose links are followed

Plugins == {"github", "gitlab", "bitbucket"}

\* The slug is the name as the addresses have it: of Bitbucket one shows the name
\* ("My Repo") and links to the slug ("my-repo"), of the others they are one.
Repositories == [ns : Seq(Names), name : Names, slug : Names, homepage : STRING,
                 ssh : BOOLEAN, speaks : BOOLEAN]

All    == <<>>          \* the scope of a list without a namespace
Branch == <<"feature">>
PrId   == "5"
Sha    == "sha"
File   == <<"dir", "main.go">>

-----------------------------------------------------------------------------
(***************************************************************************)
(* What a service is: the plugin that reads it and its host; its           *)
(* namespaces with their repositories, in the order of its answers; the    *)
(* groups it names, and those inside a group; the namespace of GitHub's    *)
(* user; and the repositories that may be created while the commands run.  *)
(***************************************************************************)
Universe(s) == (UNION {Range(s.repos[g]) : g \in DOMAIN s.repos}) \cup s.late

ServiceType(s) ==
    /\ s.plugin \in Plugins
    /\ s.host \in Names /\ HostKind[s.host] \in {"generic", s.plugin}
    /\ DOMAIN s.repos \subseteq Seq(Names) \ {<<>>}
    /\ s.repos \in [DOMAIN s.repos -> Seq(Repositories)]
    /\ s.groups \in Seq(DOMAIN s.repos)
    /\ s.sub \in [DOMAIN s.repos -> Seq(DOMAIN s.repos)]
    /\ s.plugin = "github" => s.user \in DOMAIN s.repos
    /\ s.late \in SUBSET Repositories /\ IsFiniteSet(s.late)
    /\ s.plugin # "bitbucket" => \A r \in Universe(s) : r.slug = r.name

\* A repository is in one namespace, once, and is known by its name and by its slug.
OnePlace(s) ==
    /\ \A r \in Universe(s) : r.ns \in DOMAIN s.repos
    /\ \A g \in DOMAIN s.repos :
          /\ Range(s.repos[g]) \cap s.late = {}
          /\ \A r \in Range(s.repos[g]) : r.ns = g
          /\ IsInjective(s.repos[g])
    /\ IsInjective(s.groups)
    /\ \A r, q \in Universe(s) :
          r.ns = q.ns /\ (r.name = q.name \/ r.slug = q.slug) => r = q

\* The groups of GitLab are a forest, in which a group that can be read lets
\* one read the groups inside; "-" is no name.  The namespaces of the others
\* are flat, and each user of Bitbucket has a project.
Shape(s) ==
    IF s.plugin = "gitlab"
    THEN /\ \A g \in DOMAIN s.repos :
               /\ \A h \in Range(s.sub[g]) : Len(h) = Len(g) + 1 /\ IsPrefix(g, h)
               /\ IsInjective(s.sub[g])
               /\ \A h \in DOMAIN s.repos :
                     IsStrictPrefix(g, h) => \E k \in Range(s.sub[g]) : IsPrefix(k, h)
               /\ "-" \notin Range(g)
         /\ \A r \in Universe(s) : r.name # "-"
    ELSE /\ \A g \in DOMAIN s.repos : Len(g) = 1
         /\ s.plugin = "bitbucket" => \A u \in DOMAIN Home : <<Home[u]>> \in DOMAIN s.repos

ASSUME ServicesAssumption ==
    /\ \A s \in Services : ServiceType(s) /\ OnePlace(s) /\ Shape(s)
    /\ PageSize \in Nat \ {0} /\ MaxFaults \in Nat /\ MaxMoves \in Nat

VARIABLES
    svc,      \* the service
    repos,    \* its repositories now, by namespace
    late,     \* those that may still be created
    pc,       \* what the command under way does next
    scope,    \* the namespace asked for, or All
    lang,     \* is the list restricted to a language?
    top,      \* the namespaces still to be listed, the one under way first
    todo,     \* its groups still to be asked, the one under way first
    got,      \* what the call under way has answered; later, the repositories
              \* found to be in the language
    pages,    \* its answered pages
    acc,      \* the repositories of the namespace under way
    result,   \* those of the namespaces before
    file,     \* the file of the list, none before one succeeded
    clones,   \* [folder -> the entry cloned there]
    scans,    \* the folder each entry was scanned in
    at,       \* what was read from the last address
    asked,    \* what that address was a link to
    due,      \* ghost: repositories the list asked for has to contain
    missed,   \* ghost: repositories whose call failed
    created,  \* ghost: repositories created while they were listed
    deleted,  \* ghost: repositories deleted while they were listed
    faults, moves

service  == <<svc, repos, late>>
listVars == <<scope, lang, top, todo, got, pages, acc, result>>
useVars  == <<clones, scans, at, asked>>
ghosts   == <<due, missed, created, deleted>>
vars == <<service, pc, listVars, file, useVars, ghosts, faults, moves>>

-----------------------------------------------------------------------------
(***************************************************************************)
(* What the services answer.                                               *)
(***************************************************************************)
\* "users/x" is the plugin's name of the project a user of Bitbucket has.
ProjectKey(g) ==
    IF svc.plugin = "bitbucket" /\ Len(g) > 1 THEN <<Home[g[2]]>> ELSE g

InGroup(g) == repos[ProjectKey(g)]

Hosted == UNION {Range(repos[g]) : g \in DOMAIN repos}

\* One page, and whether more follow.
\* Plausible bugs: the pages overlap; the last page is not asked for.
PageOverlapping(s, n) == SubSeq(s, Max({1, n * PageSize}), Min({(n + 1) * PageSize, Len(s)}))
Page(s, n) == SubSeq(s, n * PageSize + 1, Min({(n + 1) * PageSize, Len(s)}))
MoreThanTwo(s, n) == Len(s) > (n + 2) * PageSize
More(s, n) == Len(s) > (n + 1) * PageSize
FirstPage(s) == Page(s, 0)

\* The plugin of GitHub asks for one page only.
ReadsAllPages == svc.plugin # "github"

-----------------------------------------------------------------------------
(***************************************************************************)
(* The entries of the file.                                                *)
(***************************************************************************)
HttpLink(r) ==
    Https(svc.host, IF svc.plugin = "bitbucket" THEN <<"scm">> \o r.ns \o <<r.slug>> ELSE Append(r.ns, r.slug))
SshLink(r) ==
    CASE ~r.ssh -> NoLink
      [] r.ssh /\ svc.plugin = "bitbucket" -> Ssh(svc.host, SshPort, Append(r.ns, r.slug))
      [] OTHER -> Ssh(svc.host, NoPort, Append(r.ns, r.slug))

\* The plugin of GitHub puts the home page of the repository where the
\* domain is expected; the others leave the domain empty.
ToRepositoryParams(r) ==
    [domain |-> IF svc.plugin = "github" THEN r.homepage ELSE "",
     ns |-> r.ns, repo |-> r.name, http |-> HttpLink(r), ssh |-> SshLink(r)]

Entries(listed) == [i \in 1 .. Len(listed) |-> ToRepositoryParams(listed[i])]

-----------------------------------------------------------------------------
(***************************************************************************)
(* The list command.                                                       *)
(***************************************************************************)
\* GitLab names every group, those inside another too; Bitbucket names the
\* projects, not those of users.
NamedGroups == IF ReadsAllPages THEN svc.groups ELSE FirstPage(svc.groups)

\* The namespaces a list of scope s goes through, and what it promises of
\* each; on GitHub that is the first page.
Namespaces(s) ==
    CASE s # All -> {s}
      [] s = All /\ svc.plugin = "github" /\ svc.groups = <<>> -> {svc.user}
      [] OTHER -> Range(NamedGroups)

Has(g, r) == IF svc.plugin = "gitlab" THEN IsPrefix(g, r.ns) ELSE r.ns = ProjectKey(g)

Reachable(r) == ReadsAllPages \/ r \in Range(FirstPage(repos[r.ns]))

Asked(s, l) ==
    {r \in Hosted : Reachable(r) /\ (l => r.speaks) /\ \E g \in Namespaces(s) : Has(g, r)}

Init ==
    /\ svc \in Services /\ repos = svc.repos /\ late = svc.late
    /\ pc = "idle" /\ scope = All /\ lang = FALSE
    /\ top = <<>> /\ todo = <<>> /\ got = <<>> /\ pages = 0 /\ acc = <<>> /\ result = <<>>
    /\ file = <<>>
    /\ clones = <<>> /\ scans = {} /\ at = Unreadable /\ asked = "nothing"
    /\ due = {} /\ missed = {} /\ created = 0 /\ deleted = 0 /\ faults = 0 /\ moves = 0

Scopes ==
    {All} \cup DOMAIN repos
    \cup (IF svc.plugin = "bitbucket" THEN {<<"users", u>> : u \in DOMAIN Home} ELSE {})

\* A list of one namespace, or of all; a language is for GitLab only.
List(s, l) ==
    /\ pc = "idle"
    /\ l => svc.plugin = "gitlab"
    /\ scope' = s /\ lang' = l
    /\ top' = (IF s = All THEN <<>> ELSE <<s>>) /\ todo' = top'
    /\ got' = <<>> /\ pages' = 0 /\ acc' = <<>> /\ result' = <<>>
    /\ pc' = IF s = All THEN "groups" ELSE "repos"
    /\ due' = Asked(s, l) /\ missed' = {} /\ created' = 0 /\ deleted' = 0
    /\ UNCHANGED <<service, file, useVars, faults, moves>>

\* The list of namespaces.
GroupsListed ==
    /\ pc = "groups"
    /\ top' = NamedGroups
    /\ todo' = IF NamedGroups = <<>> THEN <<>> ELSE <<Head(NamedGroups)>>
    /\ pc' = CASE NamedGroups # <<>> -> "repos"
               [] NamedGroups = <<>> /\ svc.plugin = "github" -> "own"
               [] OTHER -> "failed"
    /\ UNCHANGED <<service, scope, lang, got, pages, acc, result, file, useVars, ghosts, faults, moves>>

\* The namespace under way is done with these repositories: on to the next one.
NextNamespace(listed) ==
    /\ result' = result \o listed
    /\ top' = Tail(top) /\ acc' = <<>> /\ got' = <<>> /\ pages' = 0
    /\ todo' = IF Len(top) > 1 THEN <<top[2]>> ELSE <<>>
    /\ pc' = CASE Len(top) > 1 -> "repos"
               [] Len(top) = 1 /\ scope = All /\ result' = <<>> -> "failed"
               [] OTHER -> "listed"
    /\ UNCHANGED <<scope, lang>>

\* The call under way is done for a group of GitLab: on to the next group, and
\* after the last to the languages.
NextGroup(groups, listed) ==
    /\ todo' = groups /\ acc' = listed /\ got' = <<>> /\ pages' = 0
    /\ pc' = IF groups = <<>> THEN "languages" ELSE "repos"
    /\ UNCHANGED <<scope, lang, top, result>>

\* One page of the repositories of a group.
RepoPage ==
    LET answer == InGroup(Head(todo))
        read   == got \o Page(answer, pages)
    IN  /\ pc = "repos"
        /\ \/ /\ ReadsAllPages /\ More(answer, pages)
              /\ got' = read /\ pages' = pages + 1
              /\ UNCHANGED <<pc, scope, lang, top, todo, acc, result>>
           \/ /\ ~(ReadsAllPages /\ More(answer, pages))
              /\ IF svc.plugin = "gitlab"
                 THEN /\ acc' = acc \o read /\ got' = <<>> /\ pages' = 0 /\ pc' = "subgroups"
                      /\ UNCHANGED <<scope, lang, top, todo, result>>
                 ELSE NextNamespace(read)
        /\ UNCHANGED <<service, file, useVars, ghosts, faults, moves>>

SubgroupsListed ==
    /\ pc = "subgroups"
    /\ NextGroup(svc.sub[Head(todo)] \o Tail(todo), acc)
    /\ UNCHANGED <<service, file, useVars, ghosts, faults, moves>>

\* The languages of the next repository; it stays in if the one asked for is
\* among them.
LanguagesRead ==
    /\ pc = "languages" /\ lang /\ acc # <<>>
    /\ acc' = Tail(acc)
    /\ got' = IF Head(acc).speaks THEN Append(got, Head(acc)) ELSE got
    /\ UNCHANGED <<service, pc, scope, lang, top, todo, pages, result, file, useVars, ghosts, faults, moves>>

GroupDone ==
    /\ pc = "languages" /\ (lang => acc = <<>>)
    /\ NextNamespace(got \o acc)
    /\ UNCHANGED <<service, file, useVars, ghosts, faults, moves>>

\* Without an organisation GitHub lists the repositories of the user, one page.
OwnListed ==
    /\ pc = "own"
    /\ result' = FirstPage(repos[svc.user])
    /\ pc' = IF result' = <<>> THEN "failed" ELSE "listed"
    /\ UNCHANGED <<service, scope, lang, top, todo, got, pages, acc, file, useVars, ghosts, faults, moves>>

\* A subgroup of GitLab that fails is left out; a namespace that fails is
\* left out of a list of all and fails a list of its own; a repository whose
\* languages cannot be read is left out.
Within(g) == {r \in Hosted : IsPrefix(g, r.ns)}
InSubgroup == svc.plugin = "gitlab" /\ Head(todo) # Head(top)

SkipSubgroup ==
    /\ InSubgroup
    /\ NextGroup(Tail(todo), acc)
    /\ missed' = missed \cup Within(Head(todo))

SkipNamespace ==
    /\ ~InSubgroup /\ scope = All
    /\ NextNamespace(<<>>)
    /\ missed' = missed \cup Within(Head(top))

FailList ==
    /\ ~InSubgroup /\ scope # All
    /\ pc' = "failed"
    /\ UNCHANGED <<listVars, missed>>

SkipRepository ==
    /\ acc' = Tail(acc) /\ missed' = missed \cup {Head(acc)}
    /\ UNCHANGED <<pc, scope, lang, top, todo, got, pages, result>>

CallFails ==
    /\ faults < MaxFaults
    /\ faults' = faults + 1
    /\ \/ /\ pc \in {"groups", "own"}
          /\ pc' = "failed"
          /\ UNCHANGED <<listVars, missed>>
       \/ pc \in {"repos", "subgroups"} /\ (SkipSubgroup \/ SkipNamespace \/ FailList)
       \/ pc = "languages" /\ lang /\ acc # <<>> /\ SkipRepository
    /\ UNCHANGED <<service, file, useVars, due, created, deleted, moves>>

\* The command ends; one that failed leaves the file alone and may be given again.
Save ==
    /\ pc \in {"listed", "failed"}
    /\ top' = <<>> /\ todo' = <<>> /\ got' = <<>> /\ pages' = 0 /\ acc' = <<>> /\ result' = <<>>
    /\ file' = IF pc = "listed" THEN Entries(result) ELSE file
    /\ pc' = IF pc = "listed" THEN "saved" ELSE "idle"
    /\ UNCHANGED <<service, scope, lang, useVars, ghosts, faults, moves>>

-----------------------------------------------------------------------------
(***************************************************************************)
(* The service changes under the list.  A new repository comes first where *)
(* the newest do, and anywhere where the names decide.                     *)
(***************************************************************************)
Listing == pc \in {"groups", "repos", "subgroups", "languages", "own"}

Created ==
    /\ Listing /\ moves < MaxMoves
    /\ \E r \in late :
        /\ late' = late \ {r}
        /\ \E i \in 1 .. Len(repos[r.ns]) + 1 :
              repos' = [repos EXCEPT ![r.ns] = InsertAt(@, i, r)]
    /\ created' = created + 1
    /\ moves' = moves + 1
    /\ UNCHANGED <<svc, pc, listVars, file, useVars, due, missed, deleted, faults>>

Deleted ==
    /\ Listing /\ moves < MaxMoves
    /\ \E g \in DOMAIN repos : \E i \in 1 .. Len(repos[g]) :
        /\ repos' = [repos EXCEPT ![g] = RemoveAt(@, i)]
        /\ due' = due \ {repos[g][i]}
    /\ deleted' = deleted + 1
    /\ moves' = moves + 1
    /\ UNCHANGED <<svc, late, pc, listVars, file, useVars, missed, created, faults>>

-----------------------------------------------------------------------------
\* What the ghosts remember is about the list only.
EndOfList == due' = {} /\ missed' = {} /\ created' = 0 /\ deleted' = 0

(***************************************************************************)
(* The commands that use the file.                                         *)
(***************************************************************************)
\* An address that is missing has the empty domain, and no error.
GetDomain(link) == link.host

Folder(domain, ns, repo) == GetPathDirs(<<domain>> \o ns \o <<repo>>)

\* The fetch command puts a user's project of Bitbucket under the user.
TrimHome(ns) ==
    IF svc.plugin = "bitbucket" /\ \E u \in DOMAIN Home : ns = <<Home[u]>>
    THEN <<CHOOSE u \in DOMAIN Home : ns = <<Home[u]>>>>
    ELSE ns

GetCloneURL(e, auth) == IF auth = "http" THEN e.http ELSE e.ssh

\* Plausible bug: the outermost group only.
FetchFolderOfGroup(e, auth) ==
    Folder(IF e.domain = "" THEN GetDomain(GetCloneURL(e, auth)) ELSE e.domain, <<TrimHome(e.ns)[1]>>, e.repo)

FetchFolder(e, auth) ==
    Folder(IF e.domain = "" THEN GetDomain(GetCloneURL(e, auth)) ELSE e.domain, TrimHome(e.ns), e.repo)

AnalyseFolder(e) == Folder(GetDomain(e.ssh), e.ns, e.repo)

\* A repository without the address asked for cannot be cloned.  Of entries
\* that share a folder the last one to be cloned stays.
Fetch(auth) ==
    LET cloned == {e \in Range(file) : GetCloneURL(e, auth) # NoLink} IN
    /\ pc = "saved"
    /\ \E stays \in SUBSET cloned :
        /\ \A e \in cloned : \E d \in stays : FetchFolder(d, auth) = FetchFolder(e, auth)
        /\ \A d, e \in stays : FetchFolder(d, auth) = FetchFolder(e, auth) => d = e
        /\ clones' = [f \in {FetchFolder(e, auth) : e \in stays} |->
                        CHOOSE e \in stays : FetchFolder(e, auth) = f]
    /\ pc' = "fetched"
    /\ EndOfList
    /\ UNCHANGED <<service, listVars, file, scans, at, asked, faults, moves>>

Analyse ==
    /\ pc = "fetched"
    /\ scans' = {<<e, AnalyseFolder(e)>> : e \in Range(file)}
    /\ pc' = "analysed"
    /\ UNCHANGED <<service, listVars, file, clones, at, asked, ghosts, faults, moves>>

-----------------------------------------------------------------------------
(***************************************************************************)
(* The addresses of the file and the links of a report.                    *)
(***************************************************************************)
\* What the reader knows of the service: its name, its host from the
\* configuration, or nothing, where the name of the host tells it.
Readings ==
    {"name", "map"} \cup (IF HostKind[svc.host] = "generic" THEN {} ELSE {"nothing"})

ReadBy(link, reading) ==
    CASE reading = "name"    -> ParseForVCSType(link, StringToVCSType(svc.plugin))
      [] reading = "map"     -> ParseWithOptions(link, [h \in {svc.host} |-> svc.plugin])
      [] reading = "nothing" -> ParseForVCSType(link, "unknown")

Visit(link, reading, what) ==
    /\ link # NoLink
    /\ at' = ReadBy(link, reading)
    /\ asked' = what
    /\ pc' = "links"
    /\ EndOfList
    /\ UNCHANGED <<service, listVars, file, clones, scans, faults, moves>>

\* The first entry of the file stands for all: each is in front of some list.
Open(reading) ==
    /\ pc = "saved" /\ file # <<>>
    /\ (Visit(file[1].http, reading, "repo") \/ Visit(file[1].ssh, reading, "repo"))

\* The report command sets the pull request of what it has read.
WithPullRequest == [at EXCEPT !.pr = PrId]

\* The addresses of a file and of a commit of GitLab have no form that is
\* read: they pass for repositories, and are not followed here.
Follow(reading) ==
    /\ pc = "links" /\ Len(at.http.path) <= MaxPath
    /\ \/ Visit(at.http, reading, "repo")
       \/ Visit(at.ssh, reading, "repo")
       \/ Visit(BranchURL(at, Branch), reading, "branch")
       \/ Visit(PRURL(WithPullRequest), reading, "pr")
       \/ Visit(PRDiffLink(WithPullRequest), reading, "pr")
       \/ /\ svc.plugin # "gitlab"
          /\ \/ Visit(FilePermalink(at, Sha, File), reading, "repo")
             \/ Visit(CommitURL(at, Sha), reading, "repo")

\* The name of a repository in the address of its entry.
Slug(e) == Last(e.http.path)

\* The page of a user's repository in the browser of Bitbucket.
OpenUserPage(reading) ==
    /\ pc = "saved" /\ file # <<>> /\ svc.plugin = "bitbucket"
    /\ \E u \in DOMAIN Home :
        /\ file[1].ns = <<Home[u]>>
        /\ Visit(Https(svc.host, <<"users", u, "repos", Slug(file[1])>>), reading, "repo")

Next ==
    \/ \E s \in Scopes, l \in BOOLEAN : List(s, l)
    \/ GroupsListed \/ RepoPage \/ SubgroupsListed \/ LanguagesRead \/ GroupDone \/ OwnListed
    \/ CallFails \/ Save
    \/ Created \/ Deleted
    \/ \E auth \in {"http", "ssh"} : Fetch(auth)
    \/ Analyse
    \/ \E reading \in Readings : Open(reading) \/ Follow(reading) \/ OpenUserPage(reading)

Spec == Init /\ [][Next]_vars

-----------------------------------------------------------------------------
(***************************************************************************)
(* Properties.                                                             *)
(***************************************************************************)
\* The file of the list command has every repository that was there all the
\* time, apart from those behind a call that failed; on GitHub, of the first
\* page.  A deletion moves the pages and hides one repository at the most; on
\* GitHub a new repository moves one off the page.
NothingUnlisted ==
    pc = "saved" =>
        Cardinality({r \in due \ missed : ToRepositoryParams(r) \notin Range(file)})
            <= IF ReadsAllPages THEN deleted ELSE created

\* A repository stands twice in the file only when all groups of GitLab are
\* listed and it is in a subgroup (once for the subgroup and once for each
\* group around it), or when a new repository moved it to the next page: one
\* repository for each new one.
TwiceOnlyInSubgroups ==
    pc = "saved" =>
        LET twice == {e \in Range(file) : \E i, j \in DOMAIN file : i # j /\ e = file[i] /\ e = file[j]}
            once  == {e \in twice : ~(svc.plugin = "gitlab" /\ scope = All /\ Len(e.ns) > 1)}
        IN  Cardinality(once) <= created

\* The scan of a repository finds its clone: where the entry has no domain of
\* its own and an address over SSH, and is neither a user's of Bitbucket nor
\* of a project with the name of a user, both commands work out one folder,
\* and no other repository comes to lie in it.
PlainEntry(e) ==
    /\ e.domain = "" /\ e.ssh # NoLink
    /\ svc.plugin = "bitbucket" => \A u \in DOMAIN Home : e.ns \notin {<<u>>, <<Home[u]>>}

ScansFindTheirClones ==
    \A s \in scans :
        PlainEntry(s[1]) => s[2] \in DOMAIN clones /\ clones[s[2]] = s[1]

\* plugin-semgrep.md: the file of the list command is "input for scanning
\* fetched repositories".  Refuted: the home page of GitHub, the users of
\* Bitbucket and a missing SSH address make the folders differ.
AnalysedWhereFetched ==
    \A s \in scans :
        (\E f \in DOMAIN clones : clones[f] = s[1]) => s[2] \in DOMAIN clones /\ clones[s[2]] = s[1]

\* However long one follows the links, from an address of the file and from
\* the links of the report to each other, the repository stays the same; a
\* link to a branch or a pull request is read as one to it.  The user form of
\* Bitbucket has no pull requests, and a deep group or repository of GitLab
\* with the name of a page hides the page.  What is read back is the slug, which of
\* Bitbucket need not be the name the entry has.
Owner(ns) == TrimHome(IF Len(ns) > 1 /\ ns[1] = "users" THEN Tail(ns) ELSE ns)
HasPageName(path) == \E i \in 4 .. Len(path) : path[i] \in {"tree", "merge_requests"}

LinksComeBack ==
    pc = "links" /\ ~HasPageName(Append(file[1].ns, Slug(file[1]))) =>
        /\ Owner(at.ns) = Owner(file[1].ns) /\ at.repo = Slug(file[1])
        /\ asked = "branch" => IsSuffix(Branch, at.branch)
        /\ asked = "pr" /\ at.ns[1] # "users" => at.pr = PrId
=============================================================================
