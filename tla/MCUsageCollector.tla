-------------------------- MODULE MCUsageCollector --------------------------
(* Bounds and symmetry for model checking UsageCollector.                  *)
EXTENDS UsageLedger, TLC

Faultless == [m \in Mishaps |-> 0]

(* Failovers that leave two collectors at work, restarts of either side,  *)
(* answers that are lost and writes that fail in part or in whole.         *)
FaultLimits == [Faultless EXCEPT !["expire"] = 1, !["write"] = 1, !["cancel"] = 1,
                                 !["crash"] = 1, !["reply"] = 1, !["restart"] = 1]

(* Failovers and nodes that answer late or not at all.                     *)
OutageLimits == [Faultless EXCEPT !["expire"] = 1, !["query"] = 1, !["cancel"] = 1,
                                  !["crash"] = 1]

WriteLimits  == [Faultless EXCEPT !["write"] = 1]
CancelLimits == [Faultless EXCEPT !["cancel"] = 1]

Symmetry == Permutations(Bytes) \cup Permutations(Replicas) \cup Permutations(Times)
              \cup Permutations(Nodes) \cup Permutations(Outs)
=============================================================================
