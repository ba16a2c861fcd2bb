---------------------------- MODULE ReportProofs ----------------------------
(***************************************************************************)
(* Proofs about Report, for every report, patch and view.                  *)
(***************************************************************************)
EXTENDS Report, FiniteSetTheorems, SequenceTheorems, TLAPS

-----------------------------------------------------------------------------
(***************************************************************************)
(* What a report holds, as it was written or after any number of patches.  *)
(***************************************************************************)

FindingOK(r) ==
    r = [id |-> r.id, rule |-> r.rule, text |-> r.text, locations |-> r.locations,
         codeFlows |-> r.codeFlows, level |-> r.level, suppressed |-> r.suppressed,
         confidence |-> r.confidence]

RuleOK(r) ==
    r = [id |-> r.id, cvss |-> r.cvss, problem |-> r.problem, config |-> r.config,
         tag |-> r.tag, precision |-> r.precision]

Listing(results) ==
    /\ results = [i \in DOMAIN results |-> results[i]]
    /\ \A i \in DOMAIN results : FindingOK(results[i])
    /\ DOMAIN results \subseteq Nat
    /\ IsFiniteSet(DOMAIN results)

RunOK(run) ==
    /\ run = [rules |-> run.rules, results |-> run.results]
    /\ \A rule \in run.rules : RuleOK(rule)
    /\ Listing(run.results)

RunsOK(runs) ==
    /\ runs = [k \in DOMAIN runs |-> runs[k]]
    /\ IsFiniteSet(DOMAIN runs)
    /\ \A k \in DOMAIN runs : RunOK(runs[k])

FilesOK ==
    /\ file = [f \in Files |-> file[f]]
    /\ \A f \in Files : file[f].content = "whole" => RunsOK(file[f].runs)

LEMMA SeqRange ==
    ASSUME NEW T, NEW s \in Seq(T)
    PROVE  /\ DOMAIN s \subseteq Nat /\ IsFiniteSet(DOMAIN s)
           /\ s \in [DOMAIN s -> T]
<1>1. Len(s) \in Nat /\ DOMAIN s = 1 .. Len(s) /\ s \in [1 .. Len(s) -> T]
  BY LenProperties
<1>2. IsFiniteSet(1 .. Len(s)) /\ 1 .. Len(s) \subseteq Nat
  BY <1>1, FS_Interval
<1>. QED
  BY <1>1, <1>2

LEMMA ReportsOK ==
    ASSUME NEW runs \in Reports
    PROVE  RunsOK(runs)
<1>. DEFINE Written == [rules : SUBSET Rules, results : Seq(Findings)]
<1>1. /\ DOMAIN runs \subseteq Nat /\ IsFiniteSet(DOMAIN runs)
      /\ runs \in [DOMAIN runs -> Written]
  BY ReportAssumption, SeqRange
<1>2. ASSUME NEW k \in DOMAIN runs PROVE RunOK(runs[k])
  <2>1. runs[k] \in Written
    BY <1>1
  <2>2. runs[k].results \in Seq(Findings)
    BY <2>1
  <2>3. \A i \in DOMAIN runs[k].results : runs[k].results[i] \in Findings
    BY <2>2, SeqRange
  <2>4. \A r \in Findings : FindingOK(r)
    BY DEF Findings, FindingOK
  <2>5. Listing(runs[k].results)
    BY <2>2, <2>3, <2>4, SeqRange DEF Listing
  <2>6. \A rule \in Rules : RuleOK(rule)
    BY DEF Rules, RuleOK
  <2>. QED
    BY <2>1, <2>5, <2>6 DEF RunOK
<1>. QED
  BY <1>1, <1>2 DEF RunsOK

LEMMA NoRunsOK == RunsOK(<< >>)
  BY FS_EmptySet DEF RunsOK

LEMMA ReadOK ==
    ASSUME FilesOK, NEW f \in Files
    PROVE  RunsOK(ReadSarifReport(file[f]))
  BY NoRunsOK DEF FilesOK, ReadSarifReport

-----------------------------------------------------------------------------
(***************************************************************************)
(* report-patch.                                                           *)
(***************************************************************************)

LEMMA PatchFacts ==
    ASSUME NEW p \in Patches
    PROVE  p.set \in STRING /\ p.delete \in BOOLEAN
  BY ReportAssumption

LEMMA SetLevel ==
    ASSUME NEW severity \in STRING
    PROVE  NormalizeSeverity(ToSarifLevel(severity)) = {Meant(severity)}
<1>1. CASE severity = "high"
  BY <1>1 DEF ToSarifLevel, NormalizeSeverity, Meant
<1>2. CASE severity = "medium"
  BY <1>2 DEF ToSarifLevel, NormalizeSeverity, Meant
<1>3. CASE severity = "low"
  BY <1>3 DEF ToSarifLevel, NormalizeSeverity, Meant
<1>4. CASE severity \notin {"high", "medium", "low"}
  BY <1>4 DEF ToSarifLevel, NormalizeSeverity, Meant
<1>. QED
  BY <1>1, <1>2, <1>3, <1>4

LEMMA PatchedFinding ==
    ASSUME NEW result, FindingOK(result), NEW p \in Patches
    PROVE  /\ FindingOK(ApplyResultPatch(result, p))
           /\ p.set = "" => ApplyResultPatch(result, p) = result
           /\ p.set # "" => ApplyResultPatch(result, p).level = ToSarifLevel(p.set)
           /\ ApplyResultPatch(result, p).rule = result.rule
           /\ ApplyResultPatch(result, p) =
                 [result EXCEPT !.level = ApplyResultPatch(result, p).level]
  BY DEF ApplyResultPatch, FindingOK

LEMMA PatchedRule ==
    ASSUME NEW rule, RuleOK(rule), NEW p \in Patches
    PROVE  /\ RuleOK(ApplyRulePatch(rule, p))
           /\ p.set = "" => ApplyRulePatch(rule, p) = rule
           /\ ApplyRulePatch(rule, p).id = rule.id
           /\ ApplyRulePatch(rule, p).cvss = rule.cvss
           /\ ApplyRulePatch(rule, p).problem = rule.problem
  BY DEF ApplyRulePatch, RuleOK

\* What the rules and the results of a patched run are.
LEMMA RulesOfPatched ==
    ASSUME NEW run, NEW p
    PROVE  PatchedRun(run, p).rules =
              IF IsResultSpecific(p) THEN run.rules
              ELSE { IF EvalConditionsForRule(rule, p) THEN ApplyRulePatch(rule, p) ELSE rule :
                       rule \in run.rules }
  BY DEF PatchedRun, PatchRules, PatchResultsForDelete, PatchResultsForSet, OnlyResults, EachResult

LEMMA ResultsOfPatched ==
    ASSUME NEW run, NEW p
    PROVE  PatchedRun(run, p).results =
              IF p.delete
              THEN [i \in { j \in DOMAIN run.results : ~EvalConditionsForResult(run.results[j], p) } |->
                       run.results[i]]
              ELSE [i \in DOMAIN run.results |->
                       IF EvalConditionsForResult(run.results[i], p)
                       THEN ApplyResultPatch(run.results[i], p) ELSE run.results[i]]
<1>1. PatchRules(run, p).results = run.results
  BY DEF PatchRules
<1>2. CASE p.delete
  BY <1>1, <1>2 DEF PatchedRun, PatchResultsForDelete, OnlyResults, RestrictValues, Restrict
<1>3. CASE ~p.delete
  BY <1>1, <1>3 DEF PatchedRun, PatchResultsForSet, EachResult
<1>. QED
  BY <1>2, <1>3

LEMMA PatchedShape ==
    ASSUME NEW run, NEW p
    PROVE  /\ PatchedRun(run, p) = [rules |-> PatchedRun(run, p).rules,
                                    results |-> PatchedRun(run, p).results]
           /\ PatchedRun(run, p).results =
                 [i \in DOMAIN PatchedRun(run, p).results |-> PatchedRun(run, p).results[i]]
           /\ DOMAIN PatchedRun(run, p).results =
                 { i \in DOMAIN run.results :
                      p.delete => ~EvalConditionsForResult(run.results[i], p) }
<1>1. PatchedRun(run, p) = [rules |-> PatchedRun(run, p).rules, results |-> PatchedRun(run, p).results]
  BY DEF PatchedRun, PatchResultsForDelete, PatchResultsForSet, OnlyResults, EachResult
<1>2. CASE p.delete
  <2>1. PatchedRun(run, p).results =
          [i \in { j \in DOMAIN run.results : ~EvalConditionsForResult(run.results[j], p) } |->
              run.results[i]]
    BY <1>2, ResultsOfPatched
  <2>. QED
    BY <1>1, <1>2, <2>1
<1>3. CASE ~p.delete
  <2>1. PatchedRun(run, p).results =
          [i \in DOMAIN run.results |->
              IF EvalConditionsForResult(run.results[i], p)
              THEN ApplyResultPatch(run.results[i], p) ELSE run.results[i]]
    BY <1>3, ResultsOfPatched
  <2>. QED
    BY <1>1, <1>3, <2>1
<1>. QED
  BY <1>2, <1>3

\* A result of a patched run was one before.
LEMMA PatchedResult ==
    ASSUME NEW run, NEW p, NEW i \in DOMAIN PatchedRun(run, p).results
    PROVE  /\ i \in DOMAIN run.results
           /\ p.delete => ~EvalConditionsForResult(run.results[i], p)
           /\ PatchedRun(run, p).results[i] =
                 IF EvalConditionsForResult(run.results[i], p)
                 THEN ApplyResultPatch(run.results[i], p) ELSE run.results[i]
<1>1. CASE p.delete
  <2>1. PatchedRun(run, p).results =
          [j \in { h \in DOMAIN run.results : ~EvalConditionsForResult(run.results[h], p) } |->
              run.results[j]]
    BY <1>1, ResultsOfPatched
  <2>. QED
    BY <1>1, <2>1
<1>2. CASE ~p.delete
  <2>1. PatchedRun(run, p).results =
          [j \in DOMAIN run.results |->
              IF EvalConditionsForResult(run.results[j], p)
              THEN ApplyResultPatch(run.results[j], p) ELSE run.results[j]]
    BY <1>2, ResultsOfPatched
  <2>. QED
    BY <1>2, <2>1
<1>. QED
  BY <1>1, <1>2

LEMMA PatchedPlace ==
    ASSUME NEW run, NEW p
    PROVE  \A i \in DOMAIN PatchedRun(run, p).results : i \in DOMAIN run.results
  BY PatchedShape

LEMMA PatchedOK ==
    ASSUME NEW run, RunOK(run), NEW p \in Patches
    PROVE  RunOK(PatchedRun(run, p))
<1>. DEFINE now == PatchedRun(run, p)
<1>1. \A rule \in now.rules : RuleOK(rule)
  <2>1. \A rule \in run.rules : RuleOK(rule) /\ RuleOK(ApplyRulePatch(rule, p))
    BY PatchedRule DEF RunOK
  <2>2. CASE IsResultSpecific(p)
    BY <2>1, <2>2, RulesOfPatched
  <2>3. CASE ~IsResultSpecific(p)
    <3>1. now.rules = { IF EvalConditionsForRule(rule, p) THEN ApplyRulePatch(rule, p) ELSE rule :
                          rule \in run.rules }
      BY <2>3, RulesOfPatched
    <3>. QED
      BY <2>1, <3>1
  <2>. QED
    BY <2>2, <2>3
<1>2. \A i \in DOMAIN now.results : i \in DOMAIN run.results
  BY PatchedPlace
<1>. HIDE DEF now
<1>3. IsFiniteSet(DOMAIN now.results) /\ DOMAIN now.results \subseteq Nat
  BY <1>2, FS_Subset DEF RunOK, Listing
<1>4. ASSUME NEW i \in DOMAIN now.results PROVE FindingOK(now.results[i])
  <2>1. FindingOK(run.results[i])
    BY <1>2 DEF RunOK, Listing
  <2>2. now.results[i] \in {ApplyResultPatch(run.results[i], p), run.results[i]}
    BY PatchedResult DEF now
  <2>. QED
    BY <2>1, <2>2, PatchedFinding
<1>5. /\ now = [rules |-> now.rules, results |-> now.results]
      /\ now.results = [i \in DOMAIN now.results |-> now.results[i]]
  BY PatchedShape DEF now
<1>6. RunOK(now)
  BY <1>1, <1>3, <1>4, <1>5 DEF RunOK, Listing
<1>. QED
  BY <1>6 DEF now

\* The rule of a finding that is not selected, or to which nothing is to be set, is
\* not changed.
LEMMA RulesKept ==
    ASSUME NEW run, RunOK(run), NEW p \in Patches, NEW result,
           p.set = "" \/ ~EvalConditionsForResult(result, p)
    PROVE  RulesOf(PatchedRun(run, p), result) = RulesOf(run, result)
<1>1. CASE IsResultSpecific(p)
  BY <1>1, RulesOfPatched DEF RulesOf
<1>2. CASE ~IsResultSpecific(p)
  <2>. DEFINE Now(rule) == IF EvalConditionsForRule(rule, p) THEN ApplyRulePatch(rule, p) ELSE rule
  <2>1. p.set = "" \/ ~(p.rule \subseteq result.rule)
    BY <1>2 DEF IsResultSpecific, EvalConditionsForResult
  <2>2. \A rule \in run.rules : /\ Now(rule).id = rule.id
                                /\ rule.id = result.rule => Now(rule) = rule
    BY <2>1, PatchedRule DEF RunOK, EvalConditionsForRule
  <2>3. PatchedRun(run, p).rules = { Now(rule) : rule \in run.rules }
    BY <1>2, RulesOfPatched
  <2>. QED
    BY <2>2, <2>3 DEF RulesOf
<1>. QED
  BY <1>1, <1>2

\* What a rule itself says of its findings is the same after a patch.
LEMMA ScoresKept ==
    ASSUME NEW run, RunOK(run), NEW p \in Patches, NEW result, NEW now, now.rule = result.rule
    PROVE  Scores(PatchedRun(run, p), now) = Scores(run, result)
<1>. DEFINE Says(rule) == IF rule.cvss # Unset THEN {CvssToBucket(rule.cvss)}
                          ELSE NormalizeSeverity(rule.problem)
            Now(rule) == IF ~IsResultSpecific(p) /\ EvalConditionsForRule(rule, p)
                         THEN ApplyRulePatch(rule, p) ELSE rule
            after == PatchedRun(run, p)
<1>1. after.rules = { Now(rule) : rule \in run.rules }
  <2>1. CASE IsResultSpecific(p)
    BY <2>1, RulesOfPatched
  <2>2. CASE ~IsResultSpecific(p)
    <3>1. after.rules = { IF EvalConditionsForRule(rule, p) THEN ApplyRulePatch(rule, p) ELSE rule :
                            rule \in run.rules }
      BY <2>2, RulesOfPatched
    <3>. QED
      BY <2>2, <3>1
  <2>. QED
    BY <2>1, <2>2
<1>2. \A rule \in run.rules : Now(rule).id = rule.id /\ Says(Now(rule)) = Says(rule)
  BY PatchedRule DEF RunOK
<1>. HIDE DEF Now, Says, after
<1>3. { Says(rule) : rule \in RulesOf(after, now) } = { Says(rule) : rule \in RulesOf(run, result) }
  BY <1>1, <1>2 DEF RulesOf
<1>4. Scores(after, now) = UNION { Says(rule) : rule \in RulesOf(after, now) }
  BY DEF Scores, Says
<1>5. Scores(run, result) = UNION { Says(rule) : rule \in RulesOf(run, result) }
  BY DEF Scores, Says
<1>. QED
  BY <1>3, <1>4, <1>5 DEF after

\* The severity of a finding comes from what its rule says, its level and the
\* default of its rule, in this order.
LEMMA Resolved ==
    ASSUME NEW run, NEW result
    PROVE  LET default == UNION { NormalizeSeverity(rule.config) : rule \in RulesOf(run, result) }
           IN ResolveSeverity(run, result) =
                 IF Scores(run, result) # {} THEN OneOf(Scores(run, result))
                 ELSE IF NormalizeSeverity(result.level) # {} THEN OneOf(NormalizeSeverity(result.level))
                 ELSE IF default # {} THEN OneOf(default) ELSE "unknown"
  BY DEF ResolveSeverity

LEMMA ByScore ==
    ASSUME NEW run, NEW result, Scores(run, result) # {}
    PROVE  ResolveSeverity(run, result) = OneOf(Scores(run, result))
  BY Resolved

LEMMA ByLevel ==
    ASSUME NEW run, NEW result, NEW s,
           Scores(run, result) = {}, NormalizeSeverity(result.level) = {s}
    PROVE  ResolveSeverity(run, result) = s
<1>1. ResolveSeverity(run, result) = OneOf({s})
  BY Resolved
<1>2. OneOf({s}) = s
  BY DEF OneOf
<1>. QED
  BY <1>1, <1>2

LEMMA SameSeverity ==
    ASSUME NEW run, NEW other, NEW result,
           Scores(run, result) = Scores(other, result), RulesOf(run, result) = RulesOf(other, result)
    PROVE  ResolveSeverity(run, result) = ResolveSeverity(other, result)
  BY DEF ResolveSeverity

LEMMA SameFinding ==
    ASSUME NEW result, FindingOK(result)
    PROVE  result = [result EXCEPT !.level = result.level]
  BY DEF FindingOK

LEMMA PatchedAsPromised ==
    ASSUME NEW run, RunOK(run), NEW p \in Patches
    PROVE  OnlySelected(run, PatchedRun(run, p), p)
<1>. DEFINE after == PatchedRun(run, p)
<1>1. ASSUME NEW i \in DOMAIN after.results
      PROVE  LET was == run.results[i]
                 now == after.results[i]
             IN /\ now = [was EXCEPT !.level = now.level]
                /\ ~EvalConditionsForResult(was, p) => now = was
                /\ ResolveSeverity(after, now) =
                      IF EvalConditionsForResult(was, p) /\ p.set # "" /\ Scores(run, was) = {}
                      THEN Meant(p.set) ELSE ResolveSeverity(run, was)
  <2>. DEFINE was == run.results[i]
              now == after.results[i]
              chosen == EvalConditionsForResult(was, p)
  <2>1. FindingOK(was)
    BY PatchedResult DEF RunOK, Listing
  <2>2. now = IF chosen THEN ApplyResultPatch(was, p) ELSE was
    BY PatchedResult
  <2>3. now.rule = was.rule /\ now = [was EXCEPT !.level = now.level]
    <3>. HIDE DEF was, now
    <3>1. CASE chosen
      <4>1. now = ApplyResultPatch(was, p)
        BY <2>2, <3>1
      <4>2. /\ ApplyResultPatch(was, p).rule = was.rule
            /\ ApplyResultPatch(was, p) = [was EXCEPT !.level = ApplyResultPatch(was, p).level]
        BY <2>1, PatchedFinding
      <4>. QED
        BY <4>1, <4>2
    <3>2. CASE ~chosen
      BY <2>1, <2>2, <3>2, SameFinding
    <3>. QED
      BY <3>1, <3>2
  <2>4. Scores(after, now) = Scores(run, was)
    BY <2>3, ScoresKept
  <2>. HIDE DEF was, now, after
  <2>5. CASE ~chosen \/ p.set = ""
    <3>1. now = was
      BY <2>1, <2>2, <2>5, PatchedFinding
    <3>2. RulesOf(after, now) = RulesOf(run, was)
      BY <2>5, <3>1, RulesKept DEF after
    <3>3. ResolveSeverity(after, now) = ResolveSeverity(run, was)
      BY <2>4, <3>1, <3>2, SameSeverity
    <3>. QED
      BY <2>3, <2>5, <3>1, <3>3 DEF was, now, after
  <2>6. CASE chosen /\ p.set # "" /\ Scores(run, was) # {}
    <3>1. ResolveSeverity(after, now) = ResolveSeverity(run, was)
      BY <2>4, <2>6, ByScore
    <3>. QED
      BY <2>3, <2>6, <3>1 DEF was, now, after
  <2>7. CASE chosen /\ p.set # "" /\ Scores(run, was) = {}
    <3>1. NormalizeSeverity(now.level) = {Meant(p.set)}
      BY <2>1, <2>2, <2>7, PatchedFinding, PatchFacts, SetLevel
    <3>2. ResolveSeverity(after, now) = Meant(p.set)
      BY <2>4, <2>7, <3>1, ByLevel
    <3>. QED
      BY <2>3, <2>7, <3>2 DEF was, now, after
  <2>. QED
    BY <2>5, <2>6, <2>7
<1>. QED
  BY <1>1, PatchedShape DEF OnlySelected

-----------------------------------------------------------------------------
(***************************************************************************)
(* The files, whatever was written into them.                              *)
(***************************************************************************)

LEMMA PatchedReport ==
    ASSUME NEW runs, RunsOK(runs), NEW p \in Patches
    PROVE  RunsOK(EachRun(runs, LAMBDA run : PatchedRun(run, p)))
<1>. DEFINE now == [k \in DOMAIN runs |-> PatchedRun(runs[k], p)]
<1>1. \A k \in DOMAIN runs : RunOK(now[k])
  BY PatchedOK DEF RunsOK
<1>2. RunsOK(now)
  BY <1>1 DEF RunsOK
<1>. QED
  BY <1>2 DEF EachRun

LEMMA InitFiles == Init => FilesOK
<1>. SUFFICES ASSUME Init PROVE FilesOK
  OBVIOUS
<1>1. PICK runs \in Reports : file = [f \in Files |-> IF f = "original" THEN Whole(runs) ELSE Absent]
  BY DEF Init
<1>. QED
  BY <1>1, ReportsOK DEF FilesOK, Whole, Absent

\* report-patch writes one of the files: what it made, or a part of it.
LEMMA WrittenFiles ==
    ASSUME FilesOK, NEW written, written.content = "whole" => RunsOK(written.runs),
           file' = [file EXCEPT !["patched"] = written]
    PROVE  FilesOK'
  BY DEF FilesOK

LEMMA FilesStep ==
    ASSUME FilesOK, [Next]_vars
    PROVE  FilesOK'
<1>1. CASE UNCHANGED file
  BY <1>1 DEF FilesOK, RunsOK, RunOK, Listing
<1>2. ASSUME NEW name \in Files, NEW p \in Patches, ReportPatch(name, p)
      PROVE  FilesOK'
  <2>. DEFINE now == EachRun(ReadSarifReport(file[name]), LAMBDA run : PatchedRun(run, p))
  <2>1. RunsOK(now)
    BY ReadOK, PatchedReport
  <2>2. file' = [file EXCEPT !["patched"] = Whole(now)]
    BY <1>2 DEF ReportPatch
  <2>. HIDE DEF now
  <2>3. Whole(now).content = "whole" => RunsOK(Whole(now).runs)
    BY <2>1 DEF Whole
  <2>. QED
    BY <2>2, <2>3, WrittenFiles
<1>3. ASSUME NEW name \in Files, NEW p \in Patches, ReportPatchUnwritten(name, p)
      PROVE  FilesOK'
  <2>1. CASE file' = file
    BY <1>1, <2>1
  <2>2. CASE file' = [file EXCEPT !["patched"] = Torn]
    BY <2>2, WrittenFiles DEF Torn
  <2>. QED
    BY <1>3, <2>1, <2>2 DEF ReportPatchUnwritten
<1>4. ASSUME NEW name \in Files,
             \/ NothingToRead(name) \/ ReportPatchPanics(name) \/ ToHtmlPanics(name)
             \/ ToHtmlFails(name) \/ \E view \in Views : ToHtml(name, view)
      PROVE  FilesOK'
  <2>1. UNCHANGED file
    BY <1>4 DEF NothingToRead, ReportPatchPanics, ToHtmlPanics, ToHtmlFails, ToHtml
  <2>. QED
    BY <1>1, <2>1
<1>. QED
  BY <1>1, <1>2, <1>3, <1>4 DEF Next, vars

LEMMA FilesAlwaysOK == Spec => []FilesOK
  BY InitFiles, FilesStep, PTL DEF Spec

LEMMA PatchStep ==
    ASSUME FilesOK, NEW name \in Files, NEW p \in Patches, ReportPatch(name, p)
    PROVE  LET before == ReadSarifReport(file[name])
               after == ReadSarifReport(file'["patched"])
           IN /\ DOMAIN after = DOMAIN before
              /\ \A k \in DOMAIN before : OnlySelected(before[k], after[k], p)
<1>. DEFINE before == ReadSarifReport(file[name])
            after == EachRun(before, LAMBDA run : PatchedRun(run, p))
<1>1. RunsOK(before)
  BY ReadOK
<1>2. file' = [file EXCEPT !["patched"] = Whole(after)]
  BY DEF ReportPatch
<1>. HIDE DEF after
<1>3. file'["patched"] = Whole(after)
  BY <1>2 DEF FilesOK, Files
<1>4. ReadSarifReport(file'["patched"]) = after
  BY <1>3 DEF ReadSarifReport, Whole
<1>5. DOMAIN after = DOMAIN before /\ \A k \in DOMAIN before : after[k] = PatchedRun(before[k], p)
  BY DEF after, EachRun
<1>6. \A k \in DOMAIN before : OnlySelected(before[k], after[k], p)
  BY <1>1, <1>5, PatchedAsPromised DEF RunsOK
<1>. QED
  BY <1>4, <1>5, <1>6

\* Whatever report and patch, and however often it was patched before, a finding
\* that no selector selects is as it was and shown as it was, and the others are
\* gone or have the severity that was given.
THEOREM PatchAsPromised == Spec => PatchHitsOnlySelected
<1>1. ASSUME FilesOK, [Next]_vars
      PROVE  [\A name \in Files, p \in Patches :
                 LET before == ReadSarifReport(file[name])
                     after == ReadSarifReport(file'["patched"])
                 IN ReportPatch(name, p) =>
                       /\ DOMAIN after = DOMAIN before
                       /\ \A k \in DOMAIN before : OnlySelected(before[k], after[k], p)]_vars
  BY <1>1, PatchStep
<1>. QED
  BY <1>1, FilesAlwaysOK, PTL DEF Spec, PatchHitsOnlySelected

-----------------------------------------------------------------------------
(***************************************************************************)
(* Counting.                                                               *)
(***************************************************************************)

LEMMA Parts ==
    ASSUME NEW P, IsFiniteSet(P), NEW Q, Q \subseteq P
    PROVE  /\ IsFiniteSet(Q) /\ IsFiniteSet(P \ Q)
           /\ Cardinality(P) \in Nat /\ Cardinality(Q) \in Nat /\ Cardinality(P \ Q) \in Nat
           /\ Cardinality(P) = Cardinality(Q) + Cardinality(P \ Q)
<1>1. IsFiniteSet(Q) /\ IsFiniteSet(P \ Q)
  BY FS_Subset, FS_Difference
<1>2. P \cap Q = Q
  OBVIOUS
<1>3. Cardinality(P \ Q) = Cardinality(P) - Cardinality(Q)
  BY <1>2, FS_Difference
<1>. QED
  BY <1>1, <1>3, FS_CardinalityType

With(P, sev, s) == { q \in P : sev[q] = s }

\* Six counters, one of each severity, count everything that has one of them.
LEMMA SumOfAll ==
    ASSUME NEW P, IsFiniteSet(P), NEW sev, \A q \in P : sev[q] \in Severities,
           NEW counts, \A s \in Severities : counts[s] = Cardinality(With(P, sev, s))
    PROVE  SumOver(counts, Severities) = Cardinality(P)
<1>. DEFINE Of(s) == { q \in P : sev[q] = s }
            P1 == P \ Of("critical")
            P2 == P1 \ Of("high")
            P3 == P2 \ Of("medium")
            P4 == P3 \ Of("low")
            P5 == P4 \ Of("info")
            P6 == P5 \ Of("unknown")
<1>1. /\ Of("critical") \subseteq P /\ Of("high") \subseteq P1 /\ Of("medium") \subseteq P2
      /\ Of("low") \subseteq P3 /\ Of("info") \subseteq P4 /\ Of("unknown") \subseteq P5
  OBVIOUS
<1>2. P6 = {}
  BY DEF Severities
<1>. HIDE DEF Of
<1>3. IsFiniteSet(P1) /\ IsFiniteSet(P2) /\ IsFiniteSet(P3) /\ IsFiniteSet(P4) /\ IsFiniteSet(P5)
  BY FS_Difference
<1>. HIDE DEF P1, P2, P3, P4, P5, P6
<1>4. Cardinality(P) = Cardinality(Of("critical")) + Cardinality(P1)
      /\ Cardinality(Of("critical")) \in Nat
  BY <1>1, Parts DEF P1
<1>5. Cardinality(P1) = Cardinality(Of("high")) + Cardinality(P2) /\ Cardinality(Of("high")) \in Nat
  BY <1>1, <1>3, Parts DEF P2
<1>6. Cardinality(P2) = Cardinality(Of("medium")) + Cardinality(P3) /\ Cardinality(Of("medium")) \in Nat
  BY <1>1, <1>3, Parts DEF P3
<1>7. Cardinality(P3) = Cardinality(Of("low")) + Cardinality(P4) /\ Cardinality(Of("low")) \in Nat
  BY <1>1, <1>3, Parts DEF P4
<1>8. Cardinality(P4) = Cardinality(Of("info")) + Cardinality(P5) /\ Cardinality(Of("info")) \in Nat
  BY <1>1, <1>3, Parts DEF P5
<1>9. Cardinality(P5) = Cardinality(Of("unknown")) /\ Cardinality(Of("unknown")) \in Nat
  BY <1>1, <1>2, <1>3, Parts, FS_EmptySet DEF P6
<1>10. \A s \in Severities : counts[s] = Cardinality(Of(s))
  BY DEF Of, With
<1>11. Cardinality(P) = counts["critical"] + counts["high"] + counts["medium"] + counts["low"]
                         + counts["info"] + counts["unknown"]
  BY <1>4, <1>5, <1>6, <1>7, <1>8, <1>9, <1>10 DEF Severities
<1>. QED
  BY <1>11 DEF SumOver, Severities

\* What has one of some severities is no more than their counters count.
LEMMA SumOfSome ==
    ASSUME NEW P, IsFiniteSet(P), NEW sev, \A q \in P : sev[q] \in Severities,
           NEW counts, \A s \in Severities : counts[s] = Cardinality(With(P, sev, s)),
           NEW some, NEW R, R \subseteq P, \A q \in R : sev[q] \in some
    PROVE  Cardinality(R) <= SumOver(counts, some)
<1>. DEFINE All(s) == { q \in P : sev[q] = s }
            Of(s) == { q \in R : sev[q] = s }
            those == [s \in Severities |-> Cardinality(Of(s))]
            Most(s) == IF s \in some THEN counts[s] ELSE 0
<1>1. IsFiniteSet(R)
  BY FS_Subset
<1>2. SumOver(those, Severities) = Cardinality(R)
  <2>1. \A s \in Severities : those[s] = Cardinality(With(R, sev, s))
    BY DEF With
  <2>. HIDE DEF those
  <2>. QED
    BY <1>1, <2>1, SumOfAll
<1>3. ASSUME NEW s \in Severities
      PROVE  those[s] \in Nat /\ Most(s) \in Nat /\ those[s] <= Most(s)
  <2>1. IsFiniteSet(All(s)) /\ IsFiniteSet(Of(s)) /\ Of(s) \subseteq All(s)
    BY <1>1, FS_Subset
  <2>2. Cardinality(Of(s)) <= Cardinality(All(s))
    BY <2>1, FS_Subset
  <2>3. Cardinality(Of(s)) \in Nat /\ Cardinality(All(s)) \in Nat
    BY <2>1, FS_CardinalityType
  <2>4. s \notin some => Cardinality(Of(s)) = 0
    BY FS_EmptySet
  <2>5. those[s] = Cardinality(Of(s)) /\ counts[s] = Cardinality(All(s))
    BY DEF With
  <2>. HIDE DEF Of, All, those
  <2>. QED
    BY <2>2, <2>3, <2>4, <2>5
<1>4. SumOver(those, Severities) = those["critical"] + those["high"] + those["medium"] + those["low"]
                                    + those["info"] + those["unknown"]
  BY DEF SumOver, Severities
<1>5. SumOver(counts, some) = Most("critical") + Most("high") + Most("medium") + Most("low")
                               + Most("info") + Most("unknown")
  BY DEF SumOver
<1>. HIDE DEF those, Most
<1>6. /\ "critical" \in Severities /\ "high" \in Severities /\ "medium" \in Severities
      /\ "low" \in Severities /\ "info" \in Severities /\ "unknown" \in Severities
  BY DEF Severities
<1>. QED
  BY <1>2, <1>3, <1>4, <1>5, <1>6

LEMMA PlacesFinite ==
    ASSUME NEW runs, IsFiniteSet(DOMAIN runs),
           \A k \in DOMAIN runs : IsFiniteSet(DOMAIN runs[k].results)
    PROVE  IsFiniteSet(Places(runs))
<1>. DEFINE In(k) == {k} \X DOMAIN runs[k].results
            f == [k \in DOMAIN runs |-> In(k)]
            All == { In(k) : k \in DOMAIN runs }
<1>1. \A k \in DOMAIN runs : IsFiniteSet(In(k))
  BY FS_Singleton, FS_Product
<1>. HIDE DEF In
<1>2. f \in Surjection(DOMAIN runs, All)
  BY DEF Surjection
<1>3. IsFiniteSet(All)
  BY <1>2, FS_Surjection
<1>4. \A T \in All : IsFiniteSet(T)
  BY <1>1
<1>5. IsFiniteSet(UNION All)
  BY <1>3, <1>4, FS_UNION
<1>. QED
  BY <1>5 DEF Places, In

LEMMA PlaceOf ==
    ASSUME NEW runs
    PROVE  /\ \A q \in Places(runs) : /\ q = <<q[1], q[2]>> /\ q[1] \in DOMAIN runs
                                      /\ q[2] \in DOMAIN runs[q[1]].results
           /\ \A k \in DOMAIN runs : \A i \in DOMAIN runs[k].results : <<k, i>> \in Places(runs)
  BY DEF Places

\* Places that correspond, run by run, are as many.
LEMMA AsMany ==
    ASSUME NEW a, NEW b, DOMAIN a = DOMAIN b, NEW order,
           \A k \in DOMAIN a : order[k] \in Bijection(DOMAIN a[k].results, DOMAIN b[k].results),
           NEW X, X \subseteq Places(a), NEW Y, Y \subseteq Places(b), IsFiniteSet(Y),
           \A k \in DOMAIN a : \A i \in DOMAIN a[k].results :
              <<k, i>> \in X <=> <<k, order[k][i]>> \in Y
    PROVE  IsFiniteSet(X) /\ Cardinality(X) = Cardinality(Y)
<1>. DEFINE f == [q \in X |-> <<q[1], order[q[1]][q[2]]>>]
<1>1. \A k \in DOMAIN a :
         /\ \A i \in DOMAIN a[k].results : order[k][i] \in DOMAIN b[k].results
         /\ \A i, j \in DOMAIN a[k].results : order[k][i] = order[k][j] => i = j
         /\ \A j \in DOMAIN b[k].results : \E i \in DOMAIN a[k].results : order[k][i] = j
  BY DEF Bijection, Injection, Surjection, IsInjective
<1>2. \A q \in X : q = <<q[1], q[2]>> /\ q[1] \in DOMAIN a /\ q[2] \in DOMAIN a[q[1]].results
  BY PlaceOf
<1>3. f \in [X -> Y]
  BY <1>2
<1>4. ASSUME NEW q \in X, NEW r \in X, f[q] = f[r] PROVE q = r
  <2>1. q[1] = r[1] /\ order[q[1]][q[2]] = order[q[1]][r[2]]
    BY <1>4
  <2>2. q[2] = r[2]
    BY <1>1, <1>2, <2>1
  <2>. QED
    BY <1>2, <2>1, <2>2
<1>5. ASSUME NEW y \in Y PROVE \E q \in X : f[q] = y
  <2>1. y = <<y[1], y[2]>> /\ y[1] \in DOMAIN b /\ y[2] \in DOMAIN b[y[1]].results
    BY PlaceOf
  <2>2. PICK i \in DOMAIN a[y[1]].results : order[y[1]][i] = y[2]
    BY <1>1, <2>1
  <2>3. <<y[1], i>> \in X
    BY <2>1, <2>2
  <2>4. f[<<y[1], i>>] = y
    BY <2>1, <2>2, <2>3
  <2>. QED
    BY <2>3, <2>4
<1>. HIDE DEF f
<1>6. f \in Injection(X, Y) /\ f \in Surjection(X, Y)
  BY <1>3, <1>4, <1>5 DEF Injection, Surjection, IsInjective
<1>7. IsFiniteSet(X)
  BY <1>6, FS_Injection
<1>. QED
  BY <1>6, <1>7, FS_Injection

-----------------------------------------------------------------------------
(***************************************************************************)
(* to-html: what a page is made of.                                        *)
(***************************************************************************)

LEMMA ViewedOK ==
    ASSUME NEW runs, RunsOK(runs)
    PROVE  RunsOK(RemoveSuppressedResults(runs))
<1>. DEFINE now == RemoveSuppressedResults(runs)
<1>1. /\ now = [k \in DOMAIN now |-> now[k]] /\ DOMAIN now = DOMAIN runs
      /\ \A k \in DOMAIN runs :
            now[k] = [rules |-> runs[k].rules,
                      results |-> [i \in { j \in DOMAIN runs[k].results : ~runs[k].results[j].suppressed } |->
                                      runs[k].results[i]]]
  BY DEF RemoveSuppressedResults, EachRun, OnlyResults, RestrictValues, Restrict
<1>2. ASSUME NEW k \in DOMAIN runs PROVE RunOK(now[k])
  <2>. DEFINE D == { j \in DOMAIN runs[k].results : ~runs[k].results[j].suppressed }
  <2>1. RunOK(runs[k]) /\ Listing(runs[k].results)
    BY DEF RunsOK, RunOK
  <2>2. IsFiniteSet(D) /\ D \subseteq Nat
    BY <2>1, FS_Subset DEF Listing
  <2>3. now[k] = [rules |-> runs[k].rules, results |-> [i \in D |-> runs[k].results[i]]]
    BY <1>1
  <2>4. \A i \in D : FindingOK(runs[k].results[i])
    BY <2>1 DEF Listing
  <2>. HIDE DEF D, now
  <2>5. now[k].rules = runs[k].rules /\ now[k].results = [i \in D |-> runs[k].results[i]]
    BY <2>3
  <2>6. Listing(now[k].results)
    BY <2>2, <2>4, <2>5 DEF Listing
  <2>7. now[k] = [rules |-> now[k].rules, results |-> now[k].results]
    BY <2>3, <2>5
  <2>. QED
    BY <2>1, <2>5, <2>6, <2>7 DEF RunOK
<1>. QED
  BY <1>1, <1>2 DEF RunsOK

LEMMA SomeSeverity ==
    ASSUME NEW run, NEW result
    PROVE  ResolveSeverity(run, result) \in Severities
<1>1. \A raw : NormalizeSeverity(raw) \subseteq Severities
  BY DEF NormalizeSeverity, Severities
<1>2. \A score : CvssToBucket(score) \in Severities
  BY DEF CvssToBucket, Severities
<1>3. Scores(run, result) \subseteq Severities
  BY <1>1, <1>2 DEF Scores
<1>. DEFINE default == UNION { NormalizeSeverity(rule.config) : rule \in RulesOf(run, result) }
<1>4. default \subseteq Severities
  BY <1>1
<1>. HIDE DEF default
<1>5. \A S : S \subseteq Severities /\ S # {} => OneOf(S) \in Severities
  BY DEF OneOf
<1>6. ResolveSeverity(run, result) =
         IF Scores(run, result) # {} THEN OneOf(Scores(run, result))
         ELSE IF NormalizeSeverity(result.level) # {} THEN OneOf(NormalizeSeverity(result.level))
         ELSE IF default # {} THEN OneOf(default) ELSE "unknown"
  BY Resolved DEF default
<1>7. "unknown" \in Severities
  BY DEF Severities
<1>. QED
  BY <1>1, <1>3, <1>4, <1>5, <1>6, <1>7

\* What the passes make of a finding of a run.
Made(r, finding, policy) ==
    /\ r.finding = finding
    /\ r.severity \in Severities
    /\ r.hidden = finding.suppressed
    /\ r.required => ~r.hidden /\ r.severity \in policy.blockers

MadeOf(new, runs, policy) ==
    /\ DOMAIN new = DOMAIN runs
    /\ \A k \in DOMAIN runs :
          /\ DOMAIN new[k].results = DOMAIN runs[k].results
          /\ \A i \in DOMAIN runs[k].results :
                Made(new[k].results[i], runs[k].results[i], policy)

\* A finding once its severity and suppression are known.
KnownAs(run, finding) ==
    [finding |-> finding, severity |-> ResolveSeverity(run, finding),
     hidden |-> finding.suppressed, required |-> FALSE]

LEMMA WithHidden ==
    ASSUME NEW f, NEW s, NEW was, NEW h, NEW q
    PROVE  [[finding |-> f, severity |-> s, hidden |-> was, required |-> q] EXCEPT !.hidden = h]
              = [finding |-> f, severity |-> s, hidden |-> h, required |-> q]
  OBVIOUS

LEMMA Known ==
    ASSUME NEW runs
    PROVE  /\ DOMAIN EnrichSuppression(EnrichLevel(runs)) = DOMAIN runs
           /\ \A k \in DOMAIN runs :
                 /\ DOMAIN EnrichSuppression(EnrichLevel(runs))[k].results = DOMAIN runs[k].results
                 /\ \A i \in DOMAIN runs[k].results :
                       EnrichSuppression(EnrichLevel(runs))[k].results[i] =
                          KnownAs(runs[k], runs[k].results[i])
<1>. DEFINE levelled == EnrichLevel(runs)
            known == EnrichSuppression(levelled)
            Levelled(run, finding) == [finding |-> finding, severity |-> ResolveSeverity(run, finding),
                                       hidden |-> FALSE, required |-> FALSE]
            Hidden(r) == [r EXCEPT !.hidden = r.finding.suppressed]
<1>1. /\ DOMAIN levelled = DOMAIN runs
      /\ \A k \in DOMAIN runs :
            /\ DOMAIN levelled[k].results = DOMAIN runs[k].results
            /\ \A i \in DOMAIN runs[k].results :
                  levelled[k].results[i] = Levelled(runs[k], runs[k].results[i])
  BY DEF EnrichLevel, EachRun, EachResult
<1>. HIDE DEF levelled
<1>2. /\ DOMAIN known = DOMAIN levelled
      /\ \A k \in DOMAIN levelled :
            /\ DOMAIN known[k].results = DOMAIN levelled[k].results
            /\ \A i \in DOMAIN levelled[k].results :
                  known[k].results[i] = Hidden(levelled[k].results[i])
  BY DEF EnrichSuppression, EachRun, EachResult
<1>3. ASSUME NEW run, NEW finding PROVE Hidden(Levelled(run, finding)) = KnownAs(run, finding)
  <2>. DEFINE r == Levelled(run, finding)
  <2>1. r.finding.suppressed = finding.suppressed
    OBVIOUS
  <2>2. [r EXCEPT !.hidden = finding.suppressed] = KnownAs(run, finding)
    <3>1. PICK no : no = FALSE
      OBVIOUS
    <3>. DEFINE severity == ResolveSeverity(run, finding)
    <3>2. r = [finding |-> finding, severity |-> severity, hidden |-> no, required |-> no]
      BY <3>1
    <3>3. KnownAs(run, finding) =
            [finding |-> finding, severity |-> severity, hidden |-> finding.suppressed, required |-> no]
      BY <3>1 DEF KnownAs
    <3>. HIDE DEF r, severity
    <3>. QED
      BY <3>2, <3>3, WithHidden
  <2>. HIDE DEF r
  <2>3. [r EXCEPT !.hidden = r.finding.suppressed] = KnownAs(run, finding)
    BY <2>1, <2>2, Zenon
  <2>. QED
    BY <2>3 DEF r
<1>. HIDE DEF known, Levelled, Hidden
<1>4. ASSUME NEW k \in DOMAIN runs
      PROVE  /\ DOMAIN known[k].results = DOMAIN runs[k].results
             /\ \A i \in DOMAIN runs[k].results :
                   known[k].results[i] = KnownAs(runs[k], runs[k].results[i])
  BY <1>1, <1>2, <1>3
<1>5. DOMAIN known = DOMAIN runs
  BY <1>1, <1>2
<1>. QED
  BY <1>4, <1>5 DEF known, levelled

LEMMA EnrichedMade ==
    ASSUME NEW runs, NEW policy
    PROVE  MadeOf(Enriched(runs, policy), runs, policy)
<1>. DEFINE known == EnrichSuppression(EnrichLevel(runs))
            classified == EnrichRequired(known, policy)
<1>1. /\ DOMAIN known = DOMAIN runs
      /\ \A k \in DOMAIN runs :
            /\ DOMAIN known[k].results = DOMAIN runs[k].results
            /\ \A i \in DOMAIN runs[k].results :
                  known[k].results[i] = KnownAs(runs[k], runs[k].results[i])
  BY Known
<1>. HIDE DEF known
<1>2. MadeOf(known, runs, policy)
  <2>1. \A run, finding : Made(KnownAs(run, finding), finding, policy)
    BY SomeSeverity DEF Made, KnownAs
  <2>. QED
    BY <1>1, <2>1 DEF MadeOf
<1>3. /\ DOMAIN classified = DOMAIN known
      /\ \A k \in DOMAIN known :
            /\ DOMAIN classified[k].results = DOMAIN known[k].results
            /\ \A i \in DOMAIN known[k].results :
                  \/ classified[k].results[i] = known[k].results[i]
                  \/ /\ ~known[k].results[i].hidden
                     /\ classified[k].results[i] =
                           [known[k].results[i] EXCEPT !.required =
                               IsRequired(known[k], known[k].results[i], policy)]
  BY DEF EnrichRequired, EachResult
<1>. HIDE DEF classified
<1>4. ASSUME NEW k \in DOMAIN runs, NEW i \in DOMAIN runs[k].results
      PROVE  Made(classified[k].results[i], runs[k].results[i], policy)
  <2>. DEFINE r == known[k].results[i]
              required == IsRequired(known[k], r, policy)
  <2>1. Made(r, runs[k].results[i], policy)
    BY <1>2 DEF MadeOf
  <2>2. required => r.severity \in policy.blockers
    BY DEF IsRequired
  <2>3. r = [finding |-> r.finding, severity |-> r.severity, hidden |-> r.hidden, required |-> r.required]
    <3>1. r = KnownAs(runs[k], runs[k].results[i])
      BY <1>1
    <3>. HIDE DEF r
    <3>. QED
      BY <3>1 DEF KnownAs
  <2>4. \/ classified[k].results[i] = r
        \/ ~r.hidden /\ classified[k].results[i] = [r EXCEPT !.required = required]
    BY <1>1, <1>3
  <2>. HIDE DEF r, required
  <2>. QED
    BY <2>1, <2>2, <2>3, <2>4 DEF Made
<1>5. MadeOf(classified, runs, policy)
  BY <1>1, <1>3, <1>4 DEF MadeOf
<1>. QED
  BY <1>2, <1>5 DEF Enriched, known, classified

\* Sorting changes nothing but the order.
LEMMA SortedRun ==
    ASSUME NEW run, NEW classified, IsFiniteSet(DOMAIN run.results),
           NEW new \in IF classified THEN SortedByRequired(run) ELSE SortedBySeverity(run)
    PROVE  \E perm \in Bijection(DOMAIN new.results, DOMAIN run.results) :
              \A i \in DOMAIN new.results : new.results[i] = run.results[perm[i]]
<1>1. \E perm \in Bijection(1..Cardinality(DOMAIN run.results), DOMAIN run.results) :
         new = [rules |-> run.rules, results |-> [i \in DOMAIN perm |-> run.results[perm[i]]]]
  BY DEF SortedByRequired, SortedBySeverity, SortedBy
<1>2. PICK perm \in Bijection(1..Cardinality(DOMAIN run.results), DOMAIN run.results) :
         new = [rules |-> run.rules, results |-> [i \in DOMAIN perm |-> run.results[perm[i]]]]
  BY <1>1
<1>3. DOMAIN perm = 1..Cardinality(DOMAIN run.results)
  BY DEF Bijection, Injection
<1>. QED
  BY <1>2, <1>3

LEMMA Sorted ==
    ASSUME NEW runs, NEW classified, NEW new \in Sortings(runs, classified),
           \A k \in DOMAIN runs : IsFiniteSet(DOMAIN runs[k].results)
    PROVE  /\ DOMAIN new = DOMAIN runs
           /\ \A k \in DOMAIN runs :
                 \E perm \in Bijection(DOMAIN new[k].results, DOMAIN runs[k].results) :
                    \A i \in DOMAIN new[k].results : new[k].results[i] = runs[k].results[perm[i]]
<1>1. DOMAIN new = DOMAIN runs
  BY DEF Sortings
<1>2. \A k \in DOMAIN runs :
         new[k] \in IF classified THEN SortedByRequired(runs[k]) ELSE SortedBySeverity(runs[k])
  BY DEF Sortings
<1>. QED
  BY <1>1, <1>2, SortedRun

-----------------------------------------------------------------------------
(***************************************************************************)
(* What the page tells.                                                    *)
(***************************************************************************)

\* The places of the findings that are not suppressed, in the report and on a page.
ActiveIn(runs) == { q \in Places(runs) : ~runs[q[1]].results[q[2]].suppressed }
ActiveOn(shown) == { q \in Places(shown) : ~shown[q[1]].results[q[2]].hidden }

\* A page's results are those that were made of the report, in some order.
OrderOf(order, shown, runs) ==
    /\ DOMAIN shown = DOMAIN runs
    /\ \A k \in DOMAIN runs : order[k] \in Bijection(DOMAIN shown[k].results, DOMAIN runs[k].results)

ShownFrom(order, shown, runs, policy) ==
    /\ OrderOf(order, shown, runs)
    /\ \A k \in DOMAIN runs : \A i \in DOMAIN shown[k].results :
          Made(shown[k].results[i], runs[k].results[order[k][i]], policy)

LEMMA OrderFacts ==
    ASSUME NEW order, NEW shown, NEW runs, OrderOf(order, shown, runs), NEW k \in DOMAIN runs
    PROVE  /\ \A i \in DOMAIN shown[k].results : order[k][i] \in DOMAIN runs[k].results
           /\ IsFiniteSet(DOMAIN runs[k].results) => IsFiniteSet(DOMAIN shown[k].results)
<1>1. /\ order[k] \in [DOMAIN shown[k].results -> DOMAIN runs[k].results]
      /\ order[k] \in Injection(DOMAIN shown[k].results, DOMAIN runs[k].results)
  BY DEF OrderOf, Bijection, Injection
<1>. QED
  BY <1>1, FS_Injection

LEMMA ShownByToHtml ==
    ASSUME NEW runs, RunsOK(runs), NEW policy, NEW classified,
           NEW shown \in Sortings(Enriched(runs, policy), classified)
    PROVE  \E order : ShownFrom(order, shown, runs, policy)
<1>. DEFINE made == Enriched(runs, policy)
            Sorts(k, perm) == /\ perm \in Bijection(DOMAIN shown[k].results, DOMAIN made[k].results)
                              /\ \A i \in DOMAIN shown[k].results :
                                    shown[k].results[i] = made[k].results[perm[i]]
            order == [k \in DOMAIN runs |-> CHOOSE perm : Sorts(k, perm)]
<1>1. MadeOf(made, runs, policy)
  BY EnrichedMade
<1>2. \A k \in DOMAIN made : IsFiniteSet(DOMAIN made[k].results)
  BY <1>1 DEF MadeOf, RunsOK, RunOK, Listing
<1>3. DOMAIN shown = DOMAIN made /\ \A k \in DOMAIN made : \E perm : Sorts(k, perm)
  BY <1>2, Sorted
<1>. HIDE DEF made, Sorts
<1>4. \A k \in DOMAIN runs : Sorts(k, order[k])
  BY <1>1, <1>3 DEF MadeOf
<1>. HIDE DEF order
<1>5. OrderOf(order, shown, runs)
  BY <1>1, <1>3, <1>4 DEF Sorts, MadeOf, OrderOf
<1>6. ASSUME NEW k \in DOMAIN runs, NEW i \in DOMAIN shown[k].results
      PROVE  Made(shown[k].results[i], runs[k].results[order[k][i]], policy)
  <2>1. order[k][i] \in DOMAIN runs[k].results
    BY <1>5, OrderFacts
  <2>2. shown[k].results[i] = made[k].results[order[k][i]]
    BY <1>4 DEF Sorts
  <2>. QED
    BY <1>1, <2>1, <2>2 DEF MadeOf
<1>. QED
  BY <1>5, <1>6 DEF ShownFrom

\* As many findings are active on the page as in the report.
LEMMA ActiveAsMany ==
    ASSUME NEW runs, RunsOK(runs), NEW shown, NEW order, NEW policy,
           ShownFrom(order, shown, runs, policy)
    PROVE  /\ IsFiniteSet(Places(shown)) /\ IsFiniteSet(ActiveOn(shown))
           /\ Cardinality(ActiveOn(shown)) = Cardinality(ActiveIn(runs))
<1>1. /\ IsFiniteSet(DOMAIN runs)
      /\ \A k \in DOMAIN runs : IsFiniteSet(DOMAIN runs[k].results)
  BY DEF RunsOK, RunOK, Listing
<1>2. OrderOf(order, shown, runs) /\ DOMAIN shown = DOMAIN runs
  BY DEF ShownFrom, OrderOf
<1>3. IsFiniteSet(ActiveIn(runs))
  BY <1>1, PlacesFinite, FS_Subset DEF ActiveIn
<1>4. IsFiniteSet(Places(shown))
  BY <1>1, <1>2, OrderFacts, PlacesFinite
<1>5. ASSUME NEW k \in DOMAIN shown, NEW i \in DOMAIN shown[k].results
      PROVE  <<k, i>> \in ActiveOn(shown) <=> <<k, order[k][i]>> \in ActiveIn(runs)
  <2>1. order[k][i] \in DOMAIN runs[k].results
    BY <1>2, OrderFacts
  <2>2. <<k, i>> \in Places(shown) /\ <<k, order[k][i]>> \in Places(runs)
    BY <1>2, <2>1, PlaceOf
  <2>3. shown[k].results[i].hidden = runs[k].results[order[k][i]].suppressed
    BY <1>2 DEF ShownFrom, Made
  <2>. QED
    BY <2>2, <2>3 DEF ActiveOn, ActiveIn
<1>6. ActiveOn(shown) \subseteq Places(shown) /\ ActiveIn(runs) \subseteq Places(runs)
  BY DEF ActiveOn, ActiveIn
<1>7. \A k \in DOMAIN shown :
         order[k] \in Bijection(DOMAIN shown[k].results, DOMAIN runs[k].results)
  BY <1>2 DEF OrderOf
<1>8. IsFiniteSet(ActiveOn(shown)) /\ Cardinality(ActiveOn(shown)) = Cardinality(ActiveIn(runs))
  <2>. DEFINE X == ActiveOn(shown)
              Y == ActiveIn(runs)
  <2>1. \A k \in DOMAIN shown : \A i \in DOMAIN shown[k].results :
           <<k, i>> \in X <=> <<k, order[k][i]>> \in Y
    BY <1>5
  <2>. HIDE DEF X, Y
  <2>2. X \subseteq Places(shown) /\ Y \subseteq Places(runs) /\ IsFiniteSet(Y)
    BY <1>3, <1>6 DEF X, Y
  <2>3. IsFiniteSet(X) /\ Cardinality(X) = Cardinality(Y)
    BY <1>2, <1>7, <2>1, <2>2, AsMany
  <2>. QED
    BY <2>3 DEF X, Y
<1>. QED
  BY <1>4, <1>8

\* What is left out by --no-supressions was not active.
LEMMA ActiveViewed ==
    ASSUME NEW runs
    PROVE  ActiveIn(RemoveSuppressedResults(runs)) = ActiveIn(runs)
<1>. DEFINE now == RemoveSuppressedResults(runs)
<1>1. /\ DOMAIN now = DOMAIN runs
      /\ \A k \in DOMAIN runs :
            /\ DOMAIN now[k].results =
                  { i \in DOMAIN runs[k].results : ~runs[k].results[i].suppressed }
            /\ \A i \in DOMAIN now[k].results : now[k].results[i] = runs[k].results[i]
  BY DEF RemoveSuppressedResults, EachRun, OnlyResults, RestrictValues, Restrict
<1>. HIDE DEF now
<1>2. ActiveIn(now) \subseteq ActiveIn(runs)
  <2>1. ASSUME NEW q \in ActiveIn(now) PROVE q \in ActiveIn(runs)
    <3>1. /\ q = <<q[1], q[2]>> /\ q[1] \in DOMAIN now /\ q[2] \in DOMAIN now[q[1]].results
      BY PlaceOf DEF ActiveIn
    <3>2. /\ q[1] \in DOMAIN runs /\ q[2] \in DOMAIN runs[q[1]].results
          /\ ~runs[q[1]].results[q[2]].suppressed
      BY <1>1, <3>1
    <3>3. q \in Places(runs)
      BY <3>1, <3>2, PlaceOf
    <3>. QED
      BY <3>2, <3>3 DEF ActiveIn
  <2>. QED
    BY <2>1
<1>3. ActiveIn(runs) \subseteq ActiveIn(now)
  <2>1. ASSUME NEW q \in ActiveIn(runs) PROVE q \in ActiveIn(now)
    <3>1. /\ q = <<q[1], q[2]>> /\ q[1] \in DOMAIN runs /\ q[2] \in DOMAIN runs[q[1]].results
          /\ ~runs[q[1]].results[q[2]].suppressed
      BY PlaceOf DEF ActiveIn
    <3>2. /\ q[1] \in DOMAIN now /\ q[2] \in DOMAIN now[q[1]].results
          /\ now[q[1]].results[q[2]] = runs[q[1]].results[q[2]]
      BY <1>1, <3>1
    <3>3. q \in Places(now)
      BY <3>1, <3>2, PlaceOf
    <3>. QED
      BY <3>1, <3>2, <3>3 DEF ActiveIn
  <2>. QED
    BY <2>1
<1>. QED
  BY <1>2, <1>3 DEF now

\* The counters of a page whose active findings are these.
LEMMA Counters ==
    ASSUME NEW shown, IsFiniteSet(Places(shown)), NEW blockers,
           \A q \in Places(shown) :
              LET r == shown[q[1]].results[q[2]]
              IN r.severity \in Severities /\ (r.required => ~r.hidden /\ r.severity \in blockers)
    PROVE  LET total == Cardinality(ActiveOn(shown))
           IN /\ SumOver(CollectSeverityInfo(shown), Severities) = total
              /\ CollectSuppressionInfo(shown).active = total
              /\ CollectRequiredInfo(shown).required + CollectRequiredInfo(shown).recommended = total
              /\ CollectRequiredInfo(shown).required <= SumOver(CollectSeverityInfo(shown), blockers)
<1>. DEFINE P == Places(shown)
            At(q) == shown[q[1]].results[q[2]]
            active == ActiveOn(shown)
            required == { q \in P : ~At(q).hidden /\ At(q).required }
            sev == [q \in P |-> At(q).severity]
            counts == CollectSeverityInfo(shown)
<1>1. active \subseteq P /\ active = { q \in P : ~At(q).hidden } /\ IsFiniteSet(active)
  BY FS_Subset DEF ActiveOn
<1>2. \A q \in active : sev[q] \in Severities
  BY <1>1
<1>3. \A s \in Severities : counts[s] = Cardinality(With(active, sev, s))
  <2>. TAKE s \in Severities
  <2>1. counts[s] = Cardinality({ q \in P : ~At(q).hidden /\ At(q).severity = s })
    BY DEF CollectSeverityInfo, Count
  <2>2. { q \in P : ~At(q).hidden /\ At(q).severity = s } = With(active, sev, s)
    BY <1>1 DEF With
  <2>. QED
    BY <2>1, <2>2
<1>4. SumOver(counts, Severities) = Cardinality(active)
  <2>1. IsFiniteSet(active)
    BY <1>1
  <2>. HIDE DEF active, sev, counts
  <2>. QED
    BY <1>2, <1>3, <2>1, SumOfAll
<1>5. CollectSuppressionInfo(shown).active = Cardinality(active)
  <2>. DEFINE hidden == { q \in P : At(q).hidden }
              all == { q \in P : TRUE }
  <2>1. CollectSuppressionInfo(shown).active = Cardinality(all) - Cardinality(hidden)
    BY DEF CollectSuppressionInfo, Count
  <2>2. all = P /\ hidden \subseteq P /\ active = P \ hidden
    BY <1>1
  <2>. HIDE DEF hidden, all, P, active
  <2>3. Cardinality(P) = Cardinality(hidden) + Cardinality(P \ hidden)
        /\ Cardinality(hidden) \in Nat /\ Cardinality(P \ hidden) \in Nat
    BY <2>2, Parts DEF P
  <2>. QED
    BY <2>1, <2>2, <2>3
<1>6. required \subseteq active
  BY <1>1
<1>7. CollectRequiredInfo(shown).required = Cardinality(required)
  BY DEF CollectRequiredInfo, Count
<1>8. CollectRequiredInfo(shown).recommended = Cardinality(active \ required)
  <2>1. CollectRequiredInfo(shown).recommended =
          Cardinality({ q \in P : ~At(q).hidden /\ ~At(q).required })
    BY DEF CollectRequiredInfo, Count
  <2>2. { q \in P : ~At(q).hidden /\ ~At(q).required } = active \ required
    BY <1>1
  <2>. QED
    BY <2>1, <2>2
<1>9. \A q \in required : sev[q] \in blockers
  OBVIOUS
<1>. HIDE DEF required, active, sev, counts
<1>10. Cardinality(required) + Cardinality(active \ required) = Cardinality(active)
  BY <1>1, <1>6, Parts
<1>11. Cardinality(required) <= SumOver(counts, blockers)
  BY <1>1, <1>2, <1>3, <1>6, <1>9, SumOfSome
<1>. QED
  BY <1>4, <1>5, <1>7, <1>8, <1>10, <1>11 DEF active, counts

LEMMA AllListed ==
    ASSUME NEW runs, RunsOK(runs), NEW shown, NEW order, NEW policy,
           ShownFrom(order, shown, runs, policy), NEW k \in DOMAIN runs
    PROVE  SameFindings(shown[k].results, runs[k].results)
<1>1. order[k] \in Bijection(DOMAIN shown[k].results, DOMAIN runs[k].results)
  BY DEF ShownFrom, OrderOf
<1>2. \A i \in DOMAIN shown[k].results : shown[k].results[i].finding = runs[k].results[order[k][i]]
  BY DEF ShownFrom, Made
<1>. QED
  BY <1>1, <1>2 DEF SameFindings

LEMMA ToHtmlStep ==
    ASSUME FilesOK, NEW name \in Files, NEW view \in Views, ToHtml(name, view)
    PROVE  PageTellsAll'
<1>. DEFINE report == ReadSarifReport(file[name])
            runs == Read(file[name], view)
            policy == ParseRequiredPolicy(view)
            classified == policy.blockers # {}
<1>1. PICK shown \in Sortings(Enriched(runs, policy), classified) :
         page' = Page(shown, view, file[name])
  BY DEF ToHtml
<1>2. RunsOK(report) /\ RunsOK(runs)
  BY ReadOK, ViewedOK DEF Read
<1>3. ActiveIn(runs) = ActiveIn(report)
  BY ActiveViewed DEF Read
<1>4. PICK order : ShownFrom(order, shown, runs, policy)
  BY <1>2, ShownByToHtml
<1>5. /\ page'.runs = shown /\ page'.view = view /\ page'.from = file[name]
      /\ page'.severity = CollectSeverityInfo(shown)
      /\ page'.suppression = CollectSuppressionInfo(shown)
      /\ page'.required = IF classified THEN CollectRequiredInfo(shown)
                          ELSE [required |-> 0, recommended |-> 0]
  BY <1>1 DEF Page
<1>. DEFINE total == Active(report)
<1>6. DOMAIN shown = DOMAIN report /\ \A k \in DOMAIN report : runs[k].results = Listed(report[k], view)
  <2>1. DOMAIN runs = DOMAIN report /\ \A k \in DOMAIN report : runs[k].results = Listed(report[k], view)
    BY DEF Read, RemoveSuppressedResults, EachRun, OnlyResults, Listed
  <2>. QED
    BY <1>4, <2>1 DEF ShownFrom, OrderOf
<1>7. \A k \in DOMAIN report : SameFindings(shown[k].results, Listed(report[k], view))
  <2>1. DOMAIN shown = DOMAIN runs
    BY <1>4 DEF ShownFrom, OrderOf
  <2>. QED
    BY <1>2, <1>4, <1>6, <2>1, AllListed
<1>8. total = Cardinality(ActiveIn(report))
  BY DEF Active, Count, ActiveIn
<1>9. IsFiniteSet(Places(shown)) /\ Cardinality(ActiveOn(shown)) = total
  BY <1>2, <1>3, <1>4, <1>8, ActiveAsMany
<1>10. \A q \in Places(shown) :
          LET r == shown[q[1]].results[q[2]]
          IN r.severity \in Severities /\ (r.required => ~r.hidden /\ r.severity \in policy.blockers)
  <2>. TAKE q \in Places(shown)
  <2>1. q[1] \in DOMAIN shown /\ q[2] \in DOMAIN shown[q[1]].results /\ DOMAIN shown = DOMAIN runs
    BY <1>4, PlaceOf DEF ShownFrom, OrderOf
  <2>. QED
    BY <1>4, <2>1 DEF ShownFrom, Made
<1>. HIDE DEF report, runs, policy, classified, total
<1>11. /\ SumOver(CollectSeverityInfo(shown), Severities) = total
       /\ CollectSuppressionInfo(shown).active = total
       /\ CollectRequiredInfo(shown).required + CollectRequiredInfo(shown).recommended = total
       /\ CollectRequiredInfo(shown).required <= SumOver(CollectSeverityInfo(shown), policy.blockers)
  BY <1>9, <1>10, Counters
<1>12. page'.required.required <= SumOver(CollectSeverityInfo(shown), policy.blockers)
  <2>1. CASE classified
    BY <1>5, <1>11, <2>1
  <2>2. CASE ~classified
    <3>1. SumOver(CollectSeverityInfo(shown), policy.blockers) = 0
      BY <2>2 DEF classified, SumOver
    <3>. QED
      BY <1>5, <2>2, <3>1
  <2>. QED
    BY <2>1, <2>2
<1>13. classified => page'.required.required + page'.required.recommended = total
  BY <1>5, <1>11
<1>. QED
  BY <1>5, <1>6, <1>7, <1>11, <1>12, <1>13
     DEF PageTellsAll, report, policy, classified, total

LEMMA PageStep ==
    ASSUME FilesOK, PageTellsAll, [Next]_vars
    PROVE  PageTellsAll'
<1>1. CASE UNCHANGED page
  BY <1>1 DEF PageTellsAll
<1>2. ASSUME NEW name \in Files, ToHtmlFails(name) PROVE PageTellsAll'
  BY <1>2 DEF ToHtmlFails, NoPage, PageTellsAll
<1>3. ASSUME NEW name \in Files, NEW view \in Views, ToHtml(name, view) PROVE PageTellsAll'
  BY <1>3, ToHtmlStep
<1>4. ASSUME NEW name \in Files,
             \/ NothingToRead(name) \/ ReportPatchPanics(name) \/ ToHtmlPanics(name)
             \/ \E p \in Patches : ReportPatch(name, p) \/ ReportPatchUnwritten(name, p)
      PROVE  PageTellsAll'
  <2>1. UNCHANGED page
    BY <1>4 DEF NothingToRead, ReportPatchPanics, ToHtmlPanics, ReportPatch, ReportPatchUnwritten
  <2>. QED
    BY <1>1, <2>1
<1>. QED
  BY <1>1, <1>2, <1>3, <1>4 DEF Next, vars

\* Whatever report and view, patched before or not: a page holds every finding once
\* and its counters agree with each other and with the report.
THEOREM PagesTellAll == Spec => []PageTellsAll
<1>1. Init => PageTellsAll
  BY DEF Init, NoPage, PageTellsAll
<1>. QED
  BY <1>1, PageStep, FilesAlwaysOK, PTL DEF Spec

=============================================================================
