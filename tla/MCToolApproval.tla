---------------------------- MODULE MCToolApproval ----------------------------
(* Two agents that execute the same run and drop each other's requests, one *)
(* with three calls and one with two.                                       *)
EXTENDS ToolApproval

TwoAgents == [c \in {"c1", "c2", "c3", "d1", "d2"} |->
                IF c \in {"d1", "d2"} THEN "a2" ELSE "a1"]

SharedRun == [a \in {"a1", "a2"} |-> "r1"]

(* c3 and d1 reuse the id of c1 when that is over, and d2 that of c2.       *)
ReusedIds == [c \in {"c1", "c2", "c3", "d1", "d2"} |->
                IF c \in {"c1", "c3", "d1"} THEN "i1" ELSE "i2"]

(* c1 asks, c2 is rejected by its timeout and d1 approved by it; c3 needs   *)
(* no approval and d2 is disabled.                                          *)
MixedModes ==
  [c \in {"c1", "c2", "c3", "d1", "d2"} |->
     CASE c = "c1" -> "ask" [] c = "c2" -> "reject" [] c = "c3" -> "allow"
       [] c = "d1" -> "approve" [] c = "d2" -> "disabled"]
=============================================================================
