------------------------------ MODULE MCReport ------------------------------
(* Small reports for Report: two rules whose names have a part in common, one *)
(* with a score, and findings that lack what SARIF lets them lack.            *)
EXTENDS Report, TLC

Rule(id, cvss, problem, config, tag, precision) ==
    [id |-> id, cvss |-> cvss, problem |-> problem, config |-> config, tag |-> tag,
     precision |-> precision]

Xss == Rule({"xss"}, Unset, "", "warning", Unset, 65)
Dom == Rule({"xss", "dom"}, 8, "", Nil, Unset, Unset)
Sql == Rule({"sql"}, Unset, "recommendation", "error", 40, 95)
RuleSets == { {Xss, Dom, Sql}, {Xss} }

InSrc == [path |-> {"src"}, region |-> TRUE, properties |-> FALSE]
InModules == [InSrc EXCEPT !.path = {"node_modules"}]
Nowhere == [InSrc EXCEPT !.path = {}]

Result(id, rule, level) ==
    [id |-> id, rule |-> rule, text |-> {}, locations |-> <<InSrc>>, codeFlows |-> {},
     level |-> level, suppressed |-> FALSE, confidence |-> Unset]

A == Result("a", {"xss"}, Nil)
B == [Result("b", {"xss"}, "note") EXCEPT !.text = {"argument"}, !.locations = <<InModules>>]
C == [Result("c", {"xss", "dom"}, "warning") EXCEPT !.suppressed = TRUE]
D == [Result("d", {"sql"}, "error") EXCEPT !.confidence = 70, !.locations = <<InSrc, InModules>>]
E == [Result("e", {}, "error") EXCEPT !.locations = << >>]
F == [Result("f", {"sql"}, "none") EXCEPT !.codeFlows = {InSrc, InModules}]
\* Findings with code flows that to-html can show, and what it can not.
Bagged == [F EXCEPT !.locations[1].properties = TRUE]
Pathless == [F EXCEPT !.locations = <<Nowhere, InSrc>>]
Lost == [F EXCEPT !.locations = << >>, !.codeFlows = {Nowhere}]
Regionless == [A EXCEPT !.locations[1].region = FALSE]

Firsts == { << >>, <<A, B>>, <<C, D>>, <<D, Bagged, B>>, <<D, F>>, <<Pathless>>, <<Lost>>,
            <<Regionless>>, <<E>>, <<C, B, D>> }
Seconds == { << >>, <<A>>, <<E, B>>, <<F>>, <<Regionless>>,
             <<[C EXCEPT !.id = "g"], [D EXCEPT !.id = "h"]>> }
Run(rules, results) == [rules |-> rules, results |-> results]

MCReports ==
    { << >> }
    \cup { <<Run(rules, first)>> : rules \in RuleSets, first \in Firsts }
    \cup { <<Run(rules, first), Run({Xss, Sql}, second)>> :
              rules \in RuleSets, first \in Firsts, second \in Seconds }

NoPatch == [rule |-> {}, text |-> {}, notText |-> {}, location |-> {}, set |-> "", delete |-> FALSE]
MCPatches ==
    { [NoPatch EXCEPT !.set = "low"],
      [NoPatch EXCEPT !.rule = {"xss"}, !.set = "high"],
      [NoPatch EXCEPT !.rule = {"sql"}, !.set = "medium"],
      [NoPatch EXCEPT !.rule = {"sql"}, !.set = "low", !.delete = TRUE],
      [NoPatch EXCEPT !.text = {"argument"}, !.set = "high"],
      [NoPatch EXCEPT !.text = {"argument"}, !.set = "none"],
      [NoPatch EXCEPT !.rule = {"sql"}, !.notText = {"argument"}, !.set = "medium"],
      [NoPatch EXCEPT !.location = {"node_modules"}, !.set = "high"],
      [NoPatch EXCEPT !.location = {"node_modules"}, !.delete = TRUE] }

NoFlag == [s \in {} |-> Unset]
NoEnv == [blockers |-> {}, thresholds |-> NoFlag]
View(noSuppressions, flag, env) == [noSuppressions |-> noSuppressions, flag |-> flag, env |-> env]
MCViews ==
    { View(FALSE, NoFlag, NoEnv), View(TRUE, NoFlag, NoEnv),
      View(FALSE, [s \in {"critical", "high"} |-> Unset], NoEnv),
      View(FALSE, ("high" :> 50) @@ ("medium" :> Unset), NoEnv),
      View(TRUE, NoFlag, [blockers |-> {"high", "low"}, thresholds |-> ("high" :> 80)]) }

=============================================================================
