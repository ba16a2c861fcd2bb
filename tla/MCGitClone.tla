------------------------------ MODULE MCGitClone ------------------------------
(***************************************************************************)
(* Small instances of GitClone: a remote of two commits, and folders as a  *)
(* first use, an earlier full or depth-1 clone and another tool leave them.*)
(***************************************************************************)
EXTENDS GitClone

Asked(kind, commit, depth, repair) ==
    [kind |-> kind, commit |-> commit, depth |-> depth, repair |-> repair]

\* A branch, a tag, a pull request and two commits, cut or not, with and
\* without consent to a reclone.
AllRequests ==
    { Asked(k, 1, d, r) : k \in Kinds, d \in {0, 1}, r \in BOOLEAN }
    \cup { Asked("commit", c, d, TRUE) : c \in Commits, d \in {0, 1} }

\* An earlier clone of the branch, at the commit it then had.
Cloned(c, shallow) ==
    [repo |-> TRUE, origin |-> "this",
     objects |-> IF shallow THEN {c} ELSE 1 .. c, shallow |-> shallow,
     refs |-> [k \in Kinds |-> IF k = "branch" THEN c ELSE Gone],
     tmpRefs |-> {}, tree |-> c, torn |-> FALSE]

AllFolders ==
    { Absent, Cloned(1, FALSE), Cloned(2, TRUE),
      [Cloned(1, FALSE) EXCEPT !.origin = "other"] }
=============================================================================
