-------------------------- MODULE MCValidationRuns --------------------------
(* Instances of ValidationRuns for TLC: tools and their scanners. *)
EXTENDS ValidationRuns, TLC

CONSTANTS r1, r2, h1, h2, rpa, ee, none, eridoc, bitbucket

\* A tool has both scanners, or is configured with none.
BothScanners   == [t \in Tools |-> {eridoc, bitbucket}]
MixedScanners  == [t \in Tools |-> IF t = none THEN {} ELSE {eridoc, bitbucket}]

Requests == Permutations({h1, h2})
=============================================================================
