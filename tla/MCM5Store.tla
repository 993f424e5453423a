----------------------------- MODULE MCM5Store -----------------------------
(***************************************************************************)
(* A small M5 store for TLC: two metric parts and two metric keys, so that *)
(* parts can overlap, leave a gap or miss a key, and one key in every      *)
(* other dataset.                                                          *)
(***************************************************************************)
EXTENDS M5Store

CONSTANTS k1, k2

MCKeys       == {k1, k2}
MCPartFiles  == {"part-00000", "part-00001"}
MCPartNumber == [f \in MCPartFiles |-> IF f = "part-00000" THEN 0 ELSE 1]
MCExpected   == [d \in Datasets |-> IF d = "metric-results" THEN MCKeys ELSE {k1}]
=============================================================================
