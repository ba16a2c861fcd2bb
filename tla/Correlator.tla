----------------------------- MODULE Correlator -----------------------------
(***************************************************************************)
(* Four-stage correlation of scanner findings with known issues:           *)
(* pkg/issuecorrelation/correlator.go.                                     *)
(*                                                                         *)
(* Both inputs are functions from an index (position in the report, issue  *)
(* number) to a metadata record                                            *)
(*    [scanner, rule, file, start, end, hash]                              *)
(* in which "" is the empty Go string.  IssueID and Severity are not read  *)
(* by the correlation and are left out.  A result is a set of pairs        *)
(* <<known index, new index>>, which is what knownToNew and newToKnown     *)
(* hold between them.                                                      *)
(***************************************************************************)
EXTENDS Naturals

Stages == 1 .. 4

\* Scanner and rule present and equal, same file: required by every stage.
SameRuleInFile(a, b) ==
    /\ a.scanner # "" /\ a.rule # ""
    /\ a.scanner = b.scanner
    /\ a.rule = b.rule
    /\ a.file = b.file

SameRange(a, b) == a.start = b.start /\ a.end = b.end

\* matchStage.  Stage 2 compares the hashes even when both are empty.
MatchStage(a, b, stage) ==
    /\ SameRuleInFile(a, b)
    /\ \/ stage = 1 /\ SameRange(a, b) /\ a.hash = b.hash
       \/ stage = 2 /\ a.hash = b.hash
       \/ stage = 3 /\ SameRange(a, b)
       \/ stage = 4 /\ a.start = b.start

KnownOf(pairs) == { p[1] : p \in pairs }
NewOf(pairs)   == { p[2] : p \in pairs }

\* Plausible bug: an issue takes the first finding it matches and no other.
AddStageFirstOnly(known, new, pairs, stage) ==
    LET freeNew == DOMAIN new \ NewOf(pairs)
        Fits(k, n) == MatchStage(known[k], new[n], stage)
    IN pairs \cup { p \in (DOMAIN known \ KnownOf(pairs)) \X freeNew :
                       /\ Fits(p[1], p[2])
                       /\ \A n \in freeNew : Fits(p[1], n) => p[2] <= n }

\* One round of the loop over stages: an index matched by an earlier stage is
\* skipped, within the stage every match counts (many to many).
AddStage(known, new, pairs, stage) ==
    LET freeKnown == DOMAIN known \ KnownOf(pairs)
        freeNew   == DOMAIN new \ NewOf(pairs)
    IN pairs \cup { p \in freeKnown \X freeNew :
                       MatchStage(known[p[1]], new[p[2]], stage) }

\* Plausible bug: the loop starts with the least precise stage.
AfterCoarsestStage(known, new) == AddStage(known, new, {}, 4)

\* The pairs collected once the first one, two or three stages have run.
AfterStage1(known, new) == AddStage(known, new, {}, 1)
AfterStage2(known, new) == AddStage(known, new, AfterStage1(known, new), 2)
AfterStage3(known, new) == AddStage(known, new, AfterStage2(known, new), 3)

\* Plausible bug: the loop ends before its last stage.
ProcessWithoutFallback(known, new) == AfterStage3(known, new)

Process(known, new) == AddStage(known, new, AfterStage3(known, new), 4)

UnmatchedNew(known, new)   == DOMAIN new \ NewOf(Process(known, new))
UnmatchedKnown(known, new) == DOMAIN known \ KnownOf(Process(known, new))

-----------------------------------------------------------------------------
(***************************************************************************)
(* What a correlation promises, independently of how it is computed.       *)
(***************************************************************************)

Matching(a, b) == \E s \in Stages : MatchStage(a, b, s)

\* Two items match at `stage` and at no earlier one.
FirstMatch(a, b, stage) ==
    /\ MatchStage(a, b, stage)
    /\ \A s \in 1 .. stage - 1 : ~MatchStage(a, b, s)

(***************************************************************************)
(* No churn.  A finding and an issue that match at some stage are never    *)
(* both left over by Process, so one run never closes an issue and opens   *)
(* its replacement.                                                        *)
(***************************************************************************)
NoChurn(known, new) ==
    \A k \in UnmatchedKnown(known, new), n \in UnmatchedNew(known, new) :
        ~Matching(known[k], new[n])

(***************************************************************************)
(* Stage priority.  A matching pair is refused only because one side was   *)
(* taken by a pair whose match is strictly more precise.                   *)
(***************************************************************************)
EarlierStageWins(known, new) ==
    LET pairs == Process(known, new)
    IN \A k \in DOMAIN known, n \in DOMAIN new, s \in Stages :
           MatchStage(known[k], new[n], s) /\ <<k, n>> \notin pairs
           => \E p \in pairs, t \in 1 .. s - 1 :
                 /\ p[1] = k \/ p[2] = n
                 /\ FirstMatch(known[p[1]], new[p[2]], t)

(***************************************************************************)
(* One precision per item.  All the partners Process gives an issue (or a  *)
(* finding) match it at one and the same stage, and every pair matches.    *)
(***************************************************************************)
OneStagePerItem(known, new) ==
    LET pairs == Process(known, new)
    IN \A p, q \in pairs :
           p[1] = q[1] \/ p[2] = q[2] =>
           \E s \in Stages : /\ FirstMatch(known[p[1]], new[p[2]], s)
                             /\ FirstMatch(known[q[1]], new[q[2]], s)

\* The known issues once the left-over findings were opened with their own
\* metadata and the left-over issues closed.
NextKnown(known, new) ==
    LET kept   == (DOMAIN known \ UnmatchedKnown(known, new)) \X {"kept"}
        opened == UnmatchedNew(known, new) \X {"opened"}
    IN [i \in kept \cup opened |->
           IF i[2] = "kept" THEN known[i[1]] ELSE new[i[1]]]

\* Every finding names its scanner and its rule.
AllNamed(new) == \A n \in DOMAIN new : new[n].scanner # "" /\ new[n].rule # ""

(***************************************************************************)
(* Idempotence.  Correlating the same findings again, against the issues   *)
(* the first synchronisation left open, leaves nothing over on either side *)
(* although which pairs compete has changed in between.                    *)
(***************************************************************************)
RescanIsIdle(known, new) ==
    LET again == NextKnown(known, new)
    IN AllNamed(new) => /\ UnmatchedNew(again, new) = {}
                        /\ UnmatchedKnown(again, new) = {}
=============================================================================
