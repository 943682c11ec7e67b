---------------------------- MODULE MCFileCache -----------------------------
(* FileCache on a small instance: two runs with the same two inputs, in      *)
(* opposite order, and servers that may answer with the other input or with  *)
(* something else.                                                           *)
EXTENDS FileCache

CONSTANTS p1, p2, s1, s2, junk

CrossedRuns == [p \in {p1, p2} |-> IF p = p1 THEN <<s1, s2>> ELSE <<s2, s1>>]

AnyAnswer == [s \in {s1, s2} |-> {s1, s2, junk}]
=============================================================================
