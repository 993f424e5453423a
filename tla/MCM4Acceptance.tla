---------------------------- MODULE MCM4Acceptance ----------------------------
(***************************************************************************)
(* Two shards with three records each and quotas of two and one. The        *)
(* versions of a file make between none and all of its records eligible, so *)
(* that shards are short of their quota, the target is met or missed, and   *)
(* the fallback is possible or not.                                         *)
(***************************************************************************)
EXTENDS M4Acceptance

MCOrdinals == 0 .. 2
MCRecords  == (1 .. 2) \X MCOrdinals
MCContents == {"none", "one", "two", "all"}
MCEligibleIn ==
  [c \in MCContents |-> CASE c = "none" -> {} [] c = "one" -> {1}
                          [] c = "two" -> {0, 2} [] c = "all" -> {0, 1, 2}]

MCRank       == [e \in MCRecords |-> ((e[2] + 1) % 3) + 3 * e[1]]
MCSecondRank == [e \in MCRecords |-> 2 * ((2 * e[2] + e[1]) % 3) + e[1]]
MCIDMRank    == [e \in MCRecords |-> 2 * e[2] + 2 - e[1]]
MCQualifying == {<<1, 0>>, <<1, 2>>, <<2, 1>>, <<2, 2>>}
MCQuota      == <<2, 1>>
=============================================================================
