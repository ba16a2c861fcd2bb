---------------------------- MODULE MCPullRequest ----------------------------
(***************************************************************************)
(* Small instances of PullRequest: two files, a head at two commits, and a *)
(* target branch that moves on once.                                       *)
(***************************************************************************)
EXTENDS PullRequest

Has(lines) == [Absent EXCEPT !.there = TRUE, !.lines = lines]
By(how, lines) == [Has(lines) EXCEPT !.how = how]

\* Each commit as its first and second file.
Commits(fork, main, h1, h2) ==
    [c \in Commit |-> CASE c = Fork -> fork [] c = "main" -> main
                        [] c = "h1" -> h1 [] c = "h2" -> h2]

\* Both files changed, then one of them; a file deleted while the target branch
\* loses a line; a file added, and then deleted again with another; a file moved,
\* and then copied instead, the original with another mode.
AllContents ==
    { Commits(<<Has({1}), Has({1})>>, <<Has({1, 2}), Has({1})>>,
              <<Has({1, 3}), Has({3})>>, <<Has({2, 3}), Has({1})>>),
      Commits(<<Has({1, 2}), Has({1})>>, <<Has({1}), Has({1})>>,
              <<Has({1, 2}), Absent>>, <<Has({1, 2, 3}), Absent>>),
      Commits(<<Absent, Has({1})>>, <<Absent, Has({1, 2})>>,
              <<Has({3}), Has({1, 3})>>, <<Absent, Absent>>),
      Commits(<<Has({1}), Absent>>, <<Has({1}), Absent>>,
              <<[Absent EXCEPT !.how = "move"], By("move", {1, 2})>>,
              <<By("mode", {1}), By("copy", {1, 3})>>) }

FetchOf(mode, files, lines, withBase) ==
    [op |-> "fetch", mode |-> mode, files |-> files, lines |-> lines, base |-> withBase,
     attach |-> 0, pin |-> None]
Other(op, attach, pin) ==
    [op |-> op, mode |-> "branch", files |-> FALSE, lines |-> FALSE, base |-> FALSE,
     attach |-> attach, pin |-> pin]

AllRequests ==
    { FetchOf("commit", TRUE, TRUE, TRUE), FetchOf("branch", TRUE, TRUE, FALSE),
      FetchOf("commit", FALSE, FALSE, FALSE),
      Other("comment", 2, None), Other("role", 0, None), Other("status", 0, "checkout"),
      Other("status", 0, "head_sha"), Other("status", 0, None) }
=============================================================================
