---------------------------- MODULE MCM6Campaign ----------------------------
(***************************************************************************)
(* An eligibility run, a pilot and an official run over five members in    *)
(* two shards. With content x there are more qualified scenes than the cap;  *)
(* with y there are too few of them, or too few eligible ones, or the same   *)
(* ones for both versions of the code.                                       *)
(***************************************************************************)
EXTENDS M6Campaign

MCRuns == {"e", "p", "o"}
MCMode == [r \in MCRuns |-> CASE r = "p" -> "compute_pilot" [] r = "o" -> "official"
                              [] OTHER -> "eligibility_only"]

MCNamed == [r \in MCRuns |-> [eligibility |-> "e", pilot |-> "p"]]

MCMembers == 0 .. 4
MCShards  == <<"00000", "00001">>
MCShardOf == [m \in MCMembers |-> IF m \in {0, 3} THEN 2 ELSE 1]
MCRank    == [m \in MCMembers |-> <<3, 5, 1, 5, 2>>[m + 1]]

Fact(v, q, f) == [verdict |-> v, qualified |-> q, feasible |-> f]

MCFacts ==
  [c \in {"c1", "c2"} |-> [x \in {"x", "y"} |-> [m \in MCMembers |->
     CASE m \in {2, 4} /\ x = "y" -> Fact("eligible", FALSE, m = 2)
       [] m = 2 /\ x = "x" /\ c = "c2" -> Fact("no_target", FALSE, FALSE)
       [] m = 4 /\ x = "x" /\ c = "c2" -> Fact("eligible", TRUE, FALSE)
       [] m \in {0, 3} /\ x = "y" /\ c = "c1" -> Fact("eligible", FALSE, TRUE)
       [] m \in {0, 3} /\ x = "y" /\ c = "c2" -> Fact("no_room", FALSE, FALSE)
       [] OTHER -> Fact("eligible", TRUE, TRUE)]]]
=============================================================================
