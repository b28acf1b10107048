-------------------------- MODULE MCFindingRecords --------------------------
(* FindingRecords for TLC.  Servers, contents and payloads are model       *)
(* values no operation tells apart, so their permutations are symmetries   *)
(* of the safety runs.                                                     *)
EXTENDS FindingRecords, TLC

Symmetry == Permutations(Servers) \cup Permutations(Findings)
              \cup Permutations(Payloads) \cup Permutations(Contents)
=============================================================================
