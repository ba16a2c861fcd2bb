------------------------------- MODULE VcsUrl -------------------------------
(***************************************************************************)
(* The addresses of repositories (pkg/shared/vcsurl): which service an     *)
(* address belongs to, which repository, branch and pull request it names, *)
(* and the links built from what was read.  Every command that takes an    *)
(* address reads it with these operators, and the report command prints    *)
(* the links they build.                                                   *)
(*                                                                         *)
(* An address is a record: the path is the sequence of its non-empty       *)
(* segments, without a trailing ".git"; the fragment that marks a line is  *)
(* left out, for no reader looks at it.                                    *)
(***************************************************************************)
EXTENDS Integers, Sequences, SequencesExt

CONSTANTS
    HostKind,   \* [host -> the service its name contains, or "generic"]
    Home        \* [user of Bitbucket -> the key of the user's own project, "~user"]

\* What stands between the slashes.
Names == STRING \ {""}

ASSUME HomeAssumption ==
    \A u, v \in DOMAIN Home :
        /\ u \in Names /\ Home[u] \in Names \ DOMAIN Home
        /\ Home[u] = Home[v] => u = v

SshPort  == 7999    \* what the detection takes for the port of Bitbucket
LinkPort == 7989    \* what the links of the program name
NoPort   == 0
NoRef    == <<>>

\* The segments that are not empty, in their order.
GetPathDirs(path) ==
    LET dirs     == {i \in DOMAIN path : path[i] # ""}
        place(i) == Cardinality({j \in dirs : j <= i})
    IN  [k \in 1 .. Cardinality(dirs) |-> path[CHOOSE i \in dirs : place(i) = k]]

Address(scheme, host, port, path, at) ==
    [scheme |-> scheme, host |-> host, port |-> port, path |-> GetPathDirs(path), at |-> at]
Https(host, path) == Address("https", host, NoPort, path, NoRef)
Ssh(host, port, path) == Address("ssh", host, port, path, NoRef)

\* No link can be built.
NoLink == Https("", <<>>)

StringToVCSType(s) ==
    IF s \in {"github", "gitlab", "bitbucket", "generic"} THEN s ELSE "unknown"

IsHttp(u) == u.scheme \in {"http", "https"}

-----------------------------------------------------------------------------
(***************************************************************************)
(* Which service.                                                          *)
(***************************************************************************)
ShapeOfGitlab(u) == \E i \in 1 .. Len(u.path) - 1 : u.path[i] = "-"

ShapeOfBitbucket(u) ==
    \/ /\ Len(u.path) >= 4
       /\ u.path[1] \in {"projects", "users"}
       /\ u.path[3] = "repos"
    \/ Len(u.path) >= 1 /\ u.path[1] = "scm"
    \/ u.at # NoRef
    \/ u.port = SshPort

InferVCSTypeFromShape(u) ==
    CASE ShapeOfGitlab(u)                          -> "gitlab"
      [] ~ShapeOfGitlab(u) /\ ShapeOfBitbucket(u)  -> "bitbucket"
      [] OTHER                                     -> "generic"

\* The name of the host decides before the shape of the address.
DetermineVCSType(u) ==
    IF HostKind[u.host] # "generic" THEN HostKind[u.host] ELSE InferVCSTypeFromShape(u)

\* The map of hosts in the configuration decides before the name.
ResolveVCSType(u, hostMap) ==
    IF u.host \in DOMAIN hostMap THEN hostMap[u.host] ELSE DetermineVCSType(u)

-----------------------------------------------------------------------------
(***************************************************************************)
(* What is read from an address.                                           *)
(***************************************************************************)
Read(u, type, ns, repo, branch, pr, http, ssh) ==
    [type |-> type, host |-> u.host, ns |-> ns, repo |-> repo, branch |-> branch,
     pr |-> pr, http |-> http, ssh |-> ssh]

Unreadable == Read(NoLink, "unknown", <<>>, "", NoRef, "", NoLink, NoLink)

Project(u, type, ns) == Read(u, type, ns, "", NoRef, "", NoLink, NoLink)

WithGenericURLs(u, type, ns, repo, branch, pr) ==
    Read(u, type, ns, repo, branch, pr,
         Https(u.host, Append(ns, repo)), Ssh(u.host, NoPort, Append(ns, repo)))

HandleGenericVCS(u) ==
    LET d == u.path IN
    IF Len(d) <= 1 THEN Project(u, "generic", d)
    ELSE WithGenericURLs(u, "generic", Front(d), Last(d), NoRef, "")

ParseGithub(u) ==
    LET d      == u.path
        pr     == IF Len(d) > 3 /\ d[3] = "pull" THEN d[4] ELSE ""
        branch == IF Len(d) > 3 /\ d[3] = "tree" THEN SubSeq(d, 4, Len(d)) ELSE NoRef
    IN  IF Len(d) <= 1 THEN Project(u, "github", d)
        ELSE WithGenericURLs(u, "github", <<d[1]>>, d[2], branch, pr)

\* Plausible bug: the dash is taken for the name of the repository.
ParseGitlabAtDash(u) ==
    LET d == u.path IN
    IF Len(d) <= 1 THEN Project(u, "gitlab", d)
    ELSE IF Len(d) > 4 /\ d[Len(d) - 2] = "-"
    THEN WithGenericURLs(u, "gitlab", SubSeq(d, 1, Len(d) - 3), d[Len(d) - 2], NoRef, d[Len(d)])
    ELSE WithGenericURLs(u, "gitlab", Front(d), Last(d), NoRef, "")

\* The first of the two words behind the third segment decides, be it a part
\* of the path of a group.
ParseGitlab(u) ==
    LET d     == u.path
        words == {i \in 4 .. Len(d) : d[i] \in {"merge_requests", "tree"}}
        w     == IF words = {} THEN 0 ELSE Min(words)
        inDash(word) == w > 0 /\ d[w] = word /\ d[w - 1] = "-"
    IN  IF Len(d) <= 1 THEN Project(u, "gitlab", d)
        ELSE IF inDash("merge_requests") /\ w < Len(d)
        THEN WithGenericURLs(u, "gitlab", SubSeq(d, 1, w - 3), d[w - 2], NoRef, d[w + 1])
        ELSE IF inDash("tree")
        THEN WithGenericURLs(u, "gitlab", SubSeq(d, 1, w - 3), d[w - 2], SubSeq(d, w + 1, Len(d)), "")
        ELSE WithGenericURLs(u, "gitlab", Front(d), Last(d), NoRef, "")

\* The links of Bitbucket: the port of the link over SSH is the one of the
\* address only when the address itself is one over SSH.
WithBitbucketURLs(u, ns, repo, branch, pr, port, ofUser) ==
    LET bare == IF Len(ns) > 1 /\ ns[1] = "users" THEN Tail(ns) ELSE ns
        web  == IF ofUser THEN "users" ELSE "projects"
        key  == IF ofUser THEN <<Home[bare[1]]>> ELSE bare
    IN  Read(u, "bitbucket", ns, repo, branch, pr,
             Https(u.host, <<web>> \o bare \o <<"repos", repo>>),
             Ssh(u.host, IF port = NoPort THEN LinkPort ELSE port, Append(key, repo)))

IsUserRepo(d)    == Len(d) > 3 /\ d[1] = "users" /\ d[3] = "repos"
IsPullRequest(d) == Len(d) > 5 /\ d[1] = "projects" /\ d[5] = "pull-requests"
IsProjectRepo(d) == Len(d) > 3 /\ d[1] = "projects" /\ d[3] = "repos"

ParseBitbucketWeb(u) ==
    LET d == u.path IN
    CASE Len(d) = 2 /\ d[1] = "projects" -> Project(u, "bitbucket", <<d[2]>>)
      [] Len(d) = 2 /\ d[1] = "users"    -> WithBitbucketURLs(u, d, "", NoRef, "", NoPort, TRUE)
      [] IsUserRepo(d)    -> WithBitbucketURLs(u, <<d[1], d[2]>>, d[4], u.at, "", NoPort, TRUE)
      [] IsPullRequest(d) -> WithBitbucketURLs(u, <<d[2]>>, d[4], NoRef, d[6], NoPort, FALSE)
      [] IsProjectRepo(d) /\ ~IsPullRequest(d)
                          -> WithBitbucketURLs(u, <<d[2]>>, d[4], u.at, "", NoPort, FALSE)
      [] Len(d) = 2 /\ d[1] = "scm"      -> Project(u, "bitbucket", <<d[2]>>)
      [] Len(d) > 2 /\ d[1] = "scm"      -> WithBitbucketURLs(u, <<d[2]>>, Last(d), NoRef, "", NoPort, FALSE)
      [] OTHER -> Unreadable

ParseBitbucketSsh(u) ==
    IF Len(u.path) = 1 THEN Project(u, "bitbucket", u.path)
    ELSE WithBitbucketURLs(u, <<u.path[1]>>, Last(u.path), NoRef, "", u.port, FALSE)

ParseBitbucket(u) ==
    IF u.path = <<>> THEN Project(u, "bitbucket", <<>>)
    ELSE IF IsHttp(u) THEN ParseBitbucketWeb(u)
    ELSE ParseBitbucketSsh(u)

ParseAs(u, type) ==
    CASE type = "bitbucket" -> ParseBitbucket(u)
      [] type = "github"    -> ParseGithub(u)
      [] type = "gitlab"    -> ParseGitlab(u)
      [] OTHER              -> HandleGenericVCS(u)

ParseForVCSType(u, type) ==
    ParseAs(u, IF type = "unknown" THEN DetermineVCSType(u) ELSE type)

ParseWithOptions(u, hostMap) == ParseAs(u, ResolveVCSType(u, hostMap))

-----------------------------------------------------------------------------
(***************************************************************************)
(* The links of a report (builder.go).                                     *)
(***************************************************************************)
Below(p, segments) == [p.http EXCEPT !.path = @ \o segments]

BranchURL(p, branch) ==
    CASE p.http = NoLink \/ branch = NoRef -> NoLink
      [] p.http # NoLink /\ branch # NoRef /\ p.type = "bitbucket" ->
            [Below(p, <<"browse">>) EXCEPT !.at = <<"refs", "heads">> \o branch]
      [] p.http # NoLink /\ branch # NoRef /\ p.type = "gitlab" ->
            Below(p, <<"-", "tree">> \o branch)
      [] OTHER -> Below(p, <<"tree">> \o branch)

PRURL(p) ==
    CASE p.http = NoLink \/ p.pr = "" -> NoLink
      [] p.http # NoLink /\ p.pr # "" /\ p.type = "bitbucket" -> Below(p, <<"pull-requests", p.pr>>)
      [] p.http # NoLink /\ p.pr # "" /\ p.type = "gitlab"    -> Below(p, <<"-", "merge_requests", p.pr>>)
      [] OTHER -> Below(p, <<"pull", p.pr>>)

\* The tab of the changes of a pull request; Bitbucket has one for a file
\* only, and every link here is to a line of one.
PRDiffLink(p) ==
    LET tab == CASE p.type = "bitbucket" -> "diff"
                 [] p.type = "gitlab"    -> "diffs"
                 [] OTHER                -> "files"
    IN  IF PRURL(p) = NoLink THEN NoLink
        ELSE [PRURL(p) EXCEPT !.path = Append(@, tab)]

FilePermalink(p, ref, file) ==
    CASE p.http = NoLink \/ ref = "" \/ file = <<>> -> NoLink
      [] p.http # NoLink /\ ref # "" /\ file # <<>> /\ p.type = "bitbucket" ->
            [Below(p, <<"browse">> \o file) EXCEPT !.at = <<ref>>]
      [] p.http # NoLink /\ ref # "" /\ file # <<>> /\ p.type = "gitlab" ->
            Below(p, <<"-", "blob", ref>> \o file)
      [] OTHER -> Below(p, <<"blob", ref>> \o file)

CommitURL(p, sha) ==
    CASE p.http = NoLink \/ sha = "" -> NoLink
      [] p.http # NoLink /\ sha # "" /\ p.type = "bitbucket" -> Below(p, <<"commits", sha>>)
      [] p.http # NoLink /\ sha # "" /\ p.type = "gitlab"    -> Below(p, <<"-", "commit", sha>>)
      [] OTHER -> Below(p, <<"commit", sha>>)
=============================================================================
