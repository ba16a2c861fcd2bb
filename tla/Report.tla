------------------------------- MODULE Report -------------------------------
(***************************************************************************)
(* A SARIF report between the scanner and its readers: report-patch        *)
(* (cmd/reportPatch.go) rewrites it, to-html (cmd/to-html, internal/sarif) *)
(* reads it, decides severity, suppression and what is required to fix,    *)
(* and counts.  A rule name, a text and a path are the set of the strings  *)
(* they contain, which is all that the selectors ask of them; the name of  *)
(* a finding without a rule, and the path of a location without one, are   *)
(* empty.  A confidence is a percentage, a CVSS score a whole number.  The *)
(* results of a run are a function on their positions, of which a deletion *)
(* takes some and keeps the order of the others.                           *)
(***************************************************************************)
EXTENDS Integers, Sequences, FiniteSets, Functions

CONSTANTS Reports,      \* what a scanner may have written
          Patches,      \* the options report-patch is started with
          Views,        \* the options to-html is started with
          MaxCommands,  \* how many commands are run
          MaxFaults     \* how many of their writes fail

Nil == "nil"      \* a pointer that is not set
Unset == -1       \* a number that is not given

Rules == [id : SUBSET STRING, cvss : Int, problem : STRING, config : STRING,
          tag : Int, precision : Int]

\* A location may come without a region, and with properties of its file or not.
Locations == [path : SUBSET STRING, region : BOOLEAN, properties : BOOLEAN]

\* The locations of a finding, and those that its code flows lead through.
Findings == [id : STRING, rule : SUBSET STRING, text : SUBSET STRING,
             locations : Seq(Locations), codeFlows : SUBSET Locations, level : STRING,
             suppressed : BOOLEAN, confidence : Int]

\* The scanner lists its findings one after the other; the number of a rule's
\* descriptors and of the runs does not matter.
ASSUME ReportAssumption ==
    /\ Reports \subseteq Seq([rules : SUBSET Rules, results : Seq(Findings)])
    /\ Patches \subseteq [rule : SUBSET STRING, text : SUBSET STRING, notText : SUBSET STRING,
                           location : SUBSET STRING, set : STRING, delete : BOOLEAN]
    /\ MaxCommands \in Nat /\ MaxFaults \in Nat

VARIABLES file,      \* the scanner's report, and what report-patch made of one
          page,      \* the last page of to-html
          outcome,   \* how the last command ended
          commands,  \* how many have ended
          faults

vars == <<file, page, outcome, commands, faults>>

Files == {"original", "patched"}
Absent == [content |-> "absent"]
Torn == [content |-> "torn"]
Whole(runs) == [content |-> "whole", runs |-> runs]
NoPage == [shown |-> FALSE]

Severities == {"critical", "high", "medium", "low", "info", "unknown"}

\* json.Unmarshal's error is dropped: what is not JSON has no runs.
ReadSarifReport(f) == IF f.content = "whole" THEN f.runs ELSE << >>

\* The report with every run changed.
EachRun(runs, Change(_)) == [k \in DOMAIN runs |-> Change(runs[k])]

\* The run with every result changed, and with some of its results only.
EachResult(run, Change(_)) ==
    [rules |-> run.rules, results |-> [i \in DOMAIN run.results |-> Change(run.results[i])]]

OnlyResults(run, Test(_)) ==
    [rules |-> run.rules, results |-> RestrictValues(run.results, Test)]

\* The results of some of the runs.
ResultsOf(runs, Which) == UNION { Range(runs[k].results) : k \in Which \cap DOMAIN runs }

\* The descriptor of a result's rule, if its run has one.
RulesOf(run, result) == { rule \in run.rules : rule.id = result.rule }

-----------------------------------------------------------------------------
(***************************************************************************)
(* report-patch.                                                           *)
(***************************************************************************)

\* Plausible bug: the selector of locations does not count.
IsResultSpecificByText(p) == p.text # {} \/ p.notText # {}

IsResultSpecific(p) == p.text # {} \/ p.notText # {} \/ p.location # {}

EvalConditionsForRule(rule, p) == p.rule \subseteq rule.id

\* Of several locations each must contain the value, of none none has to.
EvalConditionsForResult(result, p) ==
    /\ p.rule \subseteq result.rule
    /\ p.text \subseteq result.text
    /\ p.notText \cap result.text = {}
    /\ \A loc \in Range(result.locations) : p.location \subseteq loc.path

ToSarifLevel(severity) ==
    CASE severity = "high"   -> "error"
      [] severity = "medium" -> "warning"
      [] severity = "low"    -> "note"
      [] OTHER               -> "none"

ApplyRulePatch(rule, p) ==
    IF p.set # "" THEN [rule EXCEPT !.config = ToSarifLevel(p.set)] ELSE rule

PatchRules(run, p) ==
    IF IsResultSpecific(p) THEN run
    ELSE [rules |-> { IF EvalConditionsForRule(rule, p) THEN ApplyRulePatch(rule, p) ELSE rule :
                        rule \in run.rules },
          results |-> run.results]

PatchResultsForDelete(run, p) ==
    OnlyResults(run, LAMBDA result : ~EvalConditionsForResult(result, p))

ApplyResultPatch(result, p) ==
    IF p.set # "" THEN [result EXCEPT !.level = ToSarifLevel(p.set)] ELSE result

PatchResultsForSet(run, p) ==
    EachResult(run, LAMBDA result :
        IF EvalConditionsForResult(result, p) THEN ApplyResultPatch(result, p) ELSE result)

PatchedRun(run, p) ==
    IF p.delete THEN PatchResultsForDelete(PatchRules(run, p), p)
                ELSE PatchResultsForSet(PatchRules(run, p), p)

\* The level is written through a pointer that an optional field leaves nil.
PatchPanics(runs, p) ==
    /\ p.set # ""
    /\ \E k \in DOMAIN runs :
          \/ /\ ~IsResultSpecific(p)
             /\ \E rule \in runs[k].rules : EvalConditionsForRule(rule, p) /\ rule.config = Nil
          \/ /\ ~p.delete
             /\ \E result \in Range(runs[k].results) :
                   EvalConditionsForResult(result, p) /\ result.level = Nil

-----------------------------------------------------------------------------
(***************************************************************************)
(* What internal/sarif adds to a report that is read.                      *)
(***************************************************************************)

\* normalizeSeverityString; none when the string is not one of these.
NormalizeSeverity(raw) ==
    CASE raw = "critical"            -> {"critical"}
      [] raw \in {"high", "error"}     -> {"high"}
      [] raw \in {"medium", "warning"} -> {"medium"}
      [] raw \in {"low", "note"}       -> {"low"}
      [] raw \in {"info", "none"}      -> {"info"}
      [] OTHER                       -> {}

CvssToBucket(score) ==
    CASE score >= 9 -> "critical"
      [] score >= 7 -> "high"
      [] score >= 4 -> "medium"
      [] score > 0  -> "low"
      [] OTHER      -> "info"

\* What the rule itself says of its findings, whatever their level.
Scores(run, result) ==
    UNION { IF rule.cvss # Unset THEN {CvssToBucket(rule.cvss)} ELSE NormalizeSeverity(rule.problem)
              : rule \in RulesOf(run, result) }

OneOf(S) == CHOOSE s \in S : TRUE

\* resolveResultSeverity: the first source that says something.
ResolveSeverity(run, result) ==
    LET own == NormalizeSeverity(result.level)
        default == UNION { NormalizeSeverity(rule.config) : rule \in RulesOf(run, result) }
    IN CASE Scores(run, result) # {} -> OneOf(Scores(run, result))
         [] Scores(run, result) = {} /\ own # {} -> OneOf(own)
         [] Scores(run, result) = {} /\ own = {} /\ default # {} -> OneOf(default)
         [] OTHER -> "unknown"

\* resolveConfidence: the finding's own, a tag of the rule, its precision.
Confidence(run, result) ==
    LET said == { rule \in RulesOf(run, result) : rule.tag # Unset \/ rule.precision # Unset }
    IN IF result.confidence # Unset THEN {result.confidence}
       ELSE { IF rule.tag # Unset THEN rule.tag ELSE rule.precision : rule \in said }

RemoveSuppressedResults(runs) ==
    EachRun(runs, LAMBDA run : OnlyResults(run, LAMBDA result : ~result.suppressed))

\* From here on a result is a finding with the properties that the passes set.
EnrichLevel(runs) ==
    EachRun(runs, LAMBDA run : EachResult(run, LAMBDA result :
        [finding |-> result, severity |-> ResolveSeverity(run, result),
         hidden |-> FALSE, required |-> FALSE]))

EnrichSuppression(runs) ==
    EachRun(runs, LAMBDA run : EachResult(run, LAMBDA result :
        [result EXCEPT !.hidden = result.finding.suppressed]))

IsRequired(run, result, policy) ==
    /\ result.severity \in policy.blockers
    /\ result.severity \in DOMAIN policy.thresholds =>
          \A c \in Confidence(run, result.finding) : c >= policy.thresholds[result.severity]

\* Only the first run's active findings are classified.
EnrichRequired(runs, policy) ==
    [k \in DOMAIN runs |->
        IF k # 1 THEN runs[k]
        ELSE EachResult(runs[k], LAMBDA result :
                IF result.hidden THEN result
                ELSE [result EXCEPT !.required = IsRequired(runs[k], result, policy)])]

SeverityOrder(severity) ==
    CASE severity = "critical" -> 0 [] severity = "high" -> 1 [] severity = "medium" -> 2
      [] severity = "low" -> 3 [] severity = "info" -> 4 [] OTHER -> 5

\* The run with its results in the order of their ranks; where the order of equal
\* ranks is kept there is one.
SortedBy(run, Rank(_), stable) ==
    LET results == run.results
        orders == { perm \in Bijection(1..Cardinality(DOMAIN results), DOMAIN results) :
                      \A i, j \in DOMAIN perm : i < j =>
                         \/ Rank(results[perm[i]]) < Rank(results[perm[j]])
                         \/ /\ Rank(results[perm[i]]) = Rank(results[perm[j]])
                            /\ stable => perm[i] < perm[j] }
    IN { [rules |-> run.rules, results |-> [i \in DOMAIN perm |-> results[perm[i]]]] : perm \in orders }

SortedBySeverity(run) == SortedBy(run, LAMBDA r : SeverityOrder(r.severity), FALSE)

SortedByRequired(run) ==
    SortedBy(run, LAMBDA r : (IF r.required THEN 0 ELSE 6) + SeverityOrder(r.severity), TRUE)

\* The ways to order the results of every run.
Sortings(runs, classified) ==
    LET Sorted(run) == IF classified THEN SortedByRequired(run) ELSE SortedBySeverity(run)
    IN { new \in [DOMAIN runs -> UNION { Sorted(runs[k]) : k \in DOMAIN runs }] :
            \A k \in DOMAIN runs : new[k] \in Sorted(runs[k]) }

\* Where a report has its results, and how many of them are such.
Places(runs) == UNION { {k} \X DOMAIN runs[k].results : k \in DOMAIN runs }

Count(runs, Such(_)) ==
    Cardinality({ place \in Places(runs) : Such(runs[place[1]].results[place[2]]) })

\* Plausible bug: the suppressed are counted with their severity.
CollectSeverityInfoOfAll(runs) ==
    [s \in Severities |->
        Count(runs, LAMBDA r : r.severity = s)]

CollectSeverityInfo(runs) ==
    [s \in Severities |->
        Count(runs, LAMBDA r : ~r.hidden /\ r.severity = s)]

CollectSuppressionInfo(runs) ==
    [suppressed |-> Count(runs, LAMBDA r : r.hidden),
     active     |-> Count(runs, LAMBDA r : TRUE) - Count(runs, LAMBDA r : r.hidden)]

CollectRequiredInfo(runs) ==
    [required    |-> Count(runs, LAMBDA r : ~r.hidden /\ r.required),
     recommended |-> Count(runs, LAMBDA r : ~r.hidden /\ ~r.required)]

-----------------------------------------------------------------------------
(***************************************************************************)
(* to-html.                                                                *)
(***************************************************************************)

\* --required, or the environment without it.
ParseRequiredPolicy(view) ==
    IF DOMAIN view.flag # {}
    THEN [blockers |-> DOMAIN view.flag,
          thresholds |-> [s \in { t \in DOMAIN view.flag : view.flag[t] # Unset } |-> view.flag[s]]]
    ELSE view.env

Read(f, view) ==
    IF view.noSuppressions THEN RemoveSuppressedResults(ReadSarifReport(f)) ELSE ReadSarifReport(f)

\* The passes of RunE that change what is modelled, in their order.
Enriched(runs, policy) ==
    LET known == EnrichSuppression(EnrichLevel(runs))
    IN IF policy.blockers # {} THEN EnrichRequired(known, policy) ELSE known

\* What EnrichResultsCodeFlowProperty goes through: the locations of a finding
\* without code flows become its flow.
Traced(result) ==
    IF result.codeFlows = {} THEN Range(result.locations) ELSE result.codeFlows

\* EnrichResultsLocationURIProperty writes into the properties of the file of the
\* first location, which only a location of a flow was given.
Unprepared(result) ==
    /\ result.codeFlows # {} /\ result.locations # << >>
    /\ Head(result.locations).path # {} /\ ~Head(result.locations).properties

\* A pass dereferences what the report need not have: the first run, a rule of
\* each of its findings, path and region of what it traces; and what only the
\* code flows of the first run are given.
ViewPanics(runs) ==
    \/ runs = << >>
    \/ \E result \in ResultsOf(runs, {1}) :
          \/ result.rule = {}
          \/ \E loc \in Traced(result) : loc.path = {} \/ ~loc.region
          \/ Unprepared(result)
    \/ \E result \in ResultsOf(runs, DOMAIN runs \ {1}) : result.codeFlows # {}

Page(runs, view, from) ==
    [shown |-> TRUE, runs |-> runs, view |-> view, from |-> from,
     severity |-> CollectSeverityInfo(runs),
     suppression |-> CollectSuppressionInfo(runs),
     required |-> IF ParseRequiredPolicy(view).blockers # {} THEN CollectRequiredInfo(runs)
                  ELSE [required |-> 0, recommended |-> 0]]

-----------------------------------------------------------------------------
Ends(how) ==
    /\ commands < MaxCommands
    /\ commands' = commands + 1
    /\ outcome' = how

\* The report cannot be opened.
NothingToRead(name) ==
    /\ file[name].content = "absent"
    /\ Ends("error")
    /\ UNCHANGED <<file, page, faults>>

ReportPatchPanics(name) ==
    /\ file[name].content # "absent"
    /\ \E p \in Patches : PatchPanics(ReadSarifReport(file[name]), p)
    /\ Ends("panic")
    /\ UNCHANGED <<file, page, faults>>

ToHtmlPanics(name) ==
    /\ file[name].content # "absent"
    /\ \E view \in Views : ViewPanics(Read(file[name], view))
    /\ Ends("panic")
    /\ UNCHANGED <<file, page, faults>>

ReportPatch(name, p) ==
    LET runs == ReadSarifReport(file[name])
    IN /\ file[name].content # "absent"
       /\ ~PatchPanics(runs, p)
       /\ file' = [file EXCEPT !["patched"] = Whole(EachRun(runs, LAMBDA run : PatchedRun(run, p)))]
       /\ Ends("ok")
       /\ UNCHANGED <<page, faults>>

\* The error of os.WriteFile is dropped, before or amid the writing.
ReportPatchUnwritten(name, p) ==
    /\ faults < MaxFaults
    /\ faults' = faults + 1
    /\ file[name].content # "absent"
    /\ ~PatchPanics(ReadSarifReport(file[name]), p)
    /\ file' \in { file, [file EXCEPT !["patched"] = Torn] }
    /\ Ends("ok")
    /\ UNCHANGED page

\* The template takes the region of the first location of every finding; where
\* there is none the error comes when the output is half written.
Placed(runs) ==
    \A result \in ResultsOf(runs, DOMAIN runs) :
        result.locations # << >> /\ Head(result.locations).region

ToHtmlFails(name) ==
    /\ file[name].content # "absent"
    /\ \E view \in Views : LET runs == Read(file[name], view)
                         IN ~ViewPanics(runs) /\ ~Placed(runs)
    /\ Ends("error")
    /\ page' = NoPage
    /\ UNCHANGED <<file, faults>>

ToHtml(name, view) ==
    LET runs == Read(file[name], view)
        policy == ParseRequiredPolicy(view)
    IN /\ file[name].content # "absent"
       /\ ~ViewPanics(runs) /\ Placed(runs)
       /\ \E sorted \in Sortings(Enriched(runs, policy), policy.blockers # {}) :
             page' = Page(sorted, view, file[name])
       /\ Ends("ok")
       /\ UNCHANGED <<file, faults>>

Init ==
    /\ \E runs \in Reports : file = [f \in Files |-> IF f = "original" THEN Whole(runs) ELSE Absent]
    /\ page = NoPage
    /\ outcome = "none"
    /\ commands = 0
    /\ faults = 0

Next ==
    \E name \in Files :
       \/ NothingToRead(name) \/ ReportPatchPanics(name) \/ ToHtmlPanics(name)
       \/ ToHtmlFails(name)
       \/ \E p \in Patches : ReportPatch(name, p) \/ ReportPatchUnwritten(name, p)
       \/ \E view \in Views : ToHtml(name, view)

Spec == Init /\ [][Next]_vars

-----------------------------------------------------------------------------
(***************************************************************************)
(* Correctness.                                                            *)
(***************************************************************************)

\* What the counters of some severities add up to.
SumOver(counts, some) ==
    LET Of(s) == IF s \in some THEN counts[s] ELSE 0
    IN Of("critical") + Of("high") + Of("medium") + Of("low") + Of("info") + Of("unknown")

\* The findings of the page are those of a run, each once, in whatever order.
SameFindings(shown, results) ==
    \E place \in Bijection(DOMAIN shown, DOMAIN results) :
        \A i \in DOMAIN shown : shown[i].finding = results[place[i]]

\* How many findings of a report are not suppressed, and what of a run is listed.
Active(runs) == Count(runs, LAMBDA r : ~r.suppressed)

Listed(run, view) ==
    IF view.noSuppressions THEN RestrictValues(run.results, LAMBDA r : ~r.suppressed)
                           ELSE run.results

\* What a reader of the page is told: every finding of the report that was read
\* is there once, in its run, except what --no-supressions leaves out; the
\* counters of the severities, of what is active and of what is required or
\* recommended, taken by three functions of internal/sarif from properties that
\* other passes set, count the same findings; and only findings of a severity
\* that blocks are required.
PageTellsAll ==
    page.shown =>
        LET runs == ReadSarifReport(page.from)
            policy == ParseRequiredPolicy(page.view)
            total == Active(runs)
        IN /\ DOMAIN page.runs = DOMAIN runs
           /\ \A k \in DOMAIN runs : SameFindings(page.runs[k].results, Listed(runs[k], page.view))
           /\ SumOver(page.severity, Severities) = total
           /\ page.suppression.active = total
           /\ policy.blockers # {} =>
                 page.required.required + page.required.recommended = total
           /\ page.required.required <= SumOver(page.severity, policy.blockers)

\* What a severity given to report-patch is for a reader.
Meant(severity) == IF severity \in {"high", "medium", "low"} THEN severity ELSE "info"

\* What report-patch promises of a run's findings: those that no selector
\* selects stay as they are and are shown with the severity they had; of the
\* selected, --delete leaves none, and --set-severity without it has them shown
\* with the severity given, unless their rule carries a score or a severity of
\* its own, which is what readers go by.
OnlySelected(before, after, p) ==
    LET selected(result) == EvalConditionsForResult(result, p)
        stays(result) == p.delete => ~selected(result)
        changed(result) == selected(result) /\ p.set # "" /\ Scores(before, result) = {}
    IN /\ DOMAIN after.results = { i \in DOMAIN before.results : stays(before.results[i]) }
       /\ \A i \in DOMAIN after.results :
             LET was == before.results[i]
                 now == after.results[i]
             IN /\ now = [was EXCEPT !.level = now.level]
                /\ ~selected(was) => now = was
                /\ ResolveSeverity(after, now) =
                      IF changed(was) THEN Meant(p.set) ELSE ResolveSeverity(before, was)

\* A report-patch that writes its output changes what was selected and nothing
\* else, in every run of the report, and a chain of them keeps to that.
PatchHitsOnlySelected ==
    [][\A name \in Files, p \in Patches :
          LET before == ReadSarifReport(file[name])
              after == ReadSarifReport(file'["patched"])
          IN ReportPatch(name, p) =>
                /\ DOMAIN after = DOMAIN before
                /\ \A k \in DOMAIN before : OnlySelected(before[k], after[k], p)]_vars

=============================================================================
