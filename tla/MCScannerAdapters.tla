------------------------- MODULE MCScannerAdapters --------------------------
(* A small instance of ScannerAdapters for TLC: a heavy mandatory document and
   one light enough for each cap to be the one that decides the score, as in
   the shipped checklist of six. *)
EXTENDS ScannerAdapters, TLC

CONSTANTS d1, d2, MOP, HLD, f1, f2

Weights(light) == [k \in Keys |-> IF k = MOP THEN 60 ELSE light]
TwoChecklists == {Weights(10), Weights(5)}

Anything == Permutations(Docs) \union Permutations(Files)
=============================================================================
