---------------------------- MODULE MCInventory ----------------------------
(* Small services for Inventory. *)
EXTENDS Inventory

MCHostKind ==
    [h \in {"github.com", "gitlab.corp", "bitbucket.corp", "git.corp", ""} |->
        CASE h = "github.com"     -> "github"
          [] h = "gitlab.corp"    -> "gitlab"
          [] h = "bitbucket.corp" -> "bitbucket"
          [] OTHER                -> "generic"]
MCHome == [u \in {"ann"} |-> "~ann"]

Repo(ns, name) ==
    [ns |-> ns, name |-> name, slug |-> name, homepage |-> "", ssh |-> TRUE, speaks |-> TRUE]

\* Repositories of these namespaces, in this order; what comes later; the groups a
\* list of all goes through.
Service(plugin, host, groups, namespaces, there, new) ==
    LET sub(g) == SelectSeq(groups, LAMBDA h : Len(h) = Len(g) + 1 /\ IsPrefix(g, h))
    IN  [plugin |-> plugin, host |-> host, groups |-> groups,
         repos |-> [g \in namespaces |-> SelectSeq(there, LAMBDA r : r.ns = g)],
         sub |-> [g \in namespaces |-> sub(g)], user |-> <<"me">>, late |-> new]

Github ==
    { Service("github", "github.com", <<<<"org">>, <<"two">>>>, {<<"org">>, <<"two">>, <<"me">>},
              <<Repo(<<"org">>, "a"), [Repo(<<"org">>, "b") EXCEPT !.homepage = "site"],
                Repo(<<"two">>, "c")>>,
              {Repo(<<"org">>, "d")}),
      Service("github", "github.com", <<>>, {<<"me">>},
              <<[Repo(<<"me">>, "a") EXCEPT !.homepage = "site"], Repo(<<"me">>, "b")>>,
              {Repo(<<"me">>, "d")}) }

Groups == <<<<"g">>, <<"g", "h">>, <<"g", "h", "i">>, <<"k">>>>
Deep == <<"g", "h", "i", "tree">>

Gitlab ==
    { Service("gitlab", "gitlab.corp", Groups, Range(Groups),
              <<Repo(<<"g">>, "a"), Repo(<<"g", "h">>, "b"), Repo(<<"g">>, "c"),
                [Repo(<<"g", "h", "i">>, "a") EXCEPT !.speaks = FALSE], Repo(<<"k">>, "a")>>,
              {Repo(<<"g">>, "d"), Repo(<<"k">>, "d")}),
      Service("gitlab", "git.corp", <<<<"g">>, <<"g", "h">>>>, {<<"g">>, <<"g", "h">>},
              <<Repo(<<"g">>, "a"), Repo(<<"g", "h">>, "b")>>, {}),
      Service("gitlab", "gitlab.corp", <<Deep>>, {Deep}, <<Repo(Deep, "a")>>, {}) }

Bitbucket ==
    { Service("bitbucket", host, <<<<"ann">>, <<"k">>>>, {<<"ann">>, <<"~ann">>, <<"k">>},
              <<[Repo(<<"k">>, "My A") EXCEPT !.slug = "my-a"],
                [Repo(<<"~ann">>, "My A") EXCEPT !.slug = "my-a"],
                Repo(<<"k">>, "b"), Repo(<<"ann">>, "My A"),
                [Repo(<<"k">>, "c") EXCEPT !.ssh = FALSE]>>,
              {Repo(<<"k">>, "d")}) : host \in {"bitbucket.corp", "git.corp"} }

MCServices == Github \cup Gitlab \cup Bitbucket

=============================================================================
