---------------------------- MODULE MCCorrelator ----------------------------
(***************************************************************************)
(* Bounded inputs for the correlation: up to MaxKnown known issues and     *)
(* MaxNew findings of one rule in one file, synchronised twice.            *)
(***************************************************************************)
EXTENDS Correlator

CONSTANTS Scanners, Starts, Ends, Hashes, MaxKnown, MaxNew

VARIABLES known, new, round

SmallMetadata == [scanner : Scanners, rule : {"rule"}, file : {"a.py"},
                  start : Starts, end : Ends, hash : Hashes]

UpTo(n) == UNION { [1 .. k -> SmallMetadata] : k \in 0 .. n }

TwiceInit ==
    /\ known \in UpTo(MaxKnown)
    /\ new \in UpTo(MaxNew)
    /\ round = 0

Sync ==
    /\ round < 2
    /\ known' = NextKnown(known, new)
    /\ round' = round + 1
    /\ UNCHANGED new

TwiceSpec == TwiceInit /\ [][Sync]_<<known, new, round>>

\* NoChurn for every input: what matches at some stage is never left over on
\* both sides.
NoChurnInv == NoChurn(known, new)

\* EarlierStageWins for every input: only a more precise pair displaces one.
EarlierStageWinsInv == EarlierStageWins(known, new)

\* OneStagePerItem for every input: an item never mixes precisions.
OneStagePerItemInv == OneStagePerItem(known, new)

\* RescanIsIdle for every input: the second synchronisation does nothing.
RescanIsIdleInv == RescanIsIdle(known, new)
=============================================================================
