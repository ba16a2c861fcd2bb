----------------------------- MODULE MCIssueSync -----------------------------
(***************************************************************************)
(* Small instances of IssueSync: two runs of the command, two folders with *)
(* one file each, and findings of one rule that differ in line range,      *)
(* code and level.                                                         *)
(***************************************************************************)
EXTENDS IssueSync, Sequences, TLC

CONSTANTS r1, r2

Web == "web"
App == "app"
MCInside == (Web :> {"web/b.py"}) @@ (App :> {"app/a.py", "app/x,y.py"})
MCParsedFile == [f \in {"web/b.py", "app/a.py", Unknown} |-> f]
                @@ ("app/x,y.py" :> "app/x")

Result(file, start, end, text) ==
    [scanner |-> "semgrep", rule |-> "rule", file |-> file, start |-> start,
     end |-> end, text |-> text, level |-> "error", suppressed |-> FALSE,
     ruleId |-> "text"]

Here    == Result("app/a.py", 1, 2, "h1")
Moved   == Result("app/a.py", 5, 6, "h1")   \* same code, other lines
Changed1 == Result("app/a.py", 1, 3, "h2")  \* same start, other code
NoHash  == Result("app/a.py", 8, 9, "")     \* file unreadable
Other   == Result("web/b.py", 1, 2, "h1")
Warning == [Moved EXCEPT !.level = "warning"]
Mistyped(res) == [res EXCEPT !.ruleId = "mistyped"]
NoRule(res) == [res EXCEPT !.ruleId = "missing"]

Input(results, scope) ==
    [results |-> results, levels |-> {"error"}, scope |-> scope,
     dry |-> FALSE, shaped |-> TRUE, exists |-> TRUE]

Stored(res) == NewIssue(FindingOf(res))
ByPeople(res) == [Stored(res) EXCEPT !.managed = FALSE]
PullRequest(res) == [Stored(res) EXCEPT !.pr = TRUE]
Malformed(res) == [Stored(res) EXCEPT !.meta.scanner = ""]

\* The store whose first issues are those of the sequence.
Store(seq) ==
    [n \in Numbers |-> IF n \in DOMAIN seq THEN seq[n] ELSE NoIssue]

\* Two jobs of the whole repository, with equal or different reports, against
\* an empty repository, one in step and one with leftovers of every kind.
RootReports == { <<Here>>, <<Moved, Changed1>>, <<Here, Here>>, << >>,
                 <<NoHash, Here>>, <<Warning, Other>> }
SameRootInputs == { [r \in Runs |-> Input(rep, Root)] : rep \in RootReports }
MixedRootInputs ==
    { (r1 :> Input(rep, Root)) @@ (r2 :> Input(<<Here>>, Root)) :
         rep \in RootReports }
DryInput == [Input(<<Here, Other>>, Root) EXCEPT !.dry = TRUE]
NotJSONInput == [Input(<< >>, Root) EXCEPT !.shaped = FALSE]
AbsentInput == [Input(<< >>, Root) EXCEPT !.exists = FALSE]
RootInputs ==
    SameRootInputs \cup MixedRootInputs
    \cup { (r1 :> DryInput) @@ (r2 :> AbsentInput) }
    \cup { (r1 :> Input(<<Mistyped(Here), Moved>>, Root)) @@ (r2 :> in) :
               in \in { Input(<<Here, NoRule(Moved)>>, Root), NotJSONInput } }

RootStores == { Store(<< >>), Store(<<Stored(Here)>>),
                Store(<<Stored(Changed1), Stored(Here), Malformed(Here)>>),
                Store(<<ByPeople(Here), PullRequest(Here), Stored(NoHash)>>) }

\* One job per folder, as in the monorepo workflow of the documentation.
FolderInputs ==
    { [r \in Runs |-> Input(a, App)] :
         a \in { <<Here>>, <<Moved, Changed1, Here>>, <<Here, Other>> } }
    \cup
    { (r1 :> Input(a, App)) @@ (r2 :> Input(b, Web)) :
         a \in { <<Here>>, <<Moved, Changed1>>, << >> }, b \in { <<Other>>, << >> } }
FolderStores == { Store(<< >>),
                  Store(<<Stored(Here), Stored(Other), Stored(Changed1)>>) }

AllInputs == RootInputs \cup FolderInputs
AllStores == RootStores \cup FolderStores

\* The report of the run that shows a disagreement with the documentation: it
\* is JSON, and a rule id in it is a number.
MistypedInputs == { [r \in Runs |-> Input(<<Mistyped(Here)>>, Root)] }
=============================================================================
