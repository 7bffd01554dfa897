---------------------------- MODULE MCSrvClient -----------------------------
(* Two domains whose answers tell them apart, among them an empty answer,  *)
(* a root target of the lowest priority, a tie broken by weight and a tie  *)
(* broken by place.                                                        *)
EXTENDS SrvClient

Srv(host, priority, weight) ==
  [host |-> host, port |-> 993, priority |-> priority, weight |-> weight, root |-> host = "."]

Heavy == Srv("heavy", 1, 9)
Light == Srv("light", 1, 5)
Spare == Srv("spare", 2, 9)
Twin == Srv("twin", 1, 9)
None == Srv(".", 0, 0)

MCRecord == {Heavy, Light, Spare, Twin, None}

(* A name too long with the longest of the three prefixes.                 *)
MCMalformed == {[domain |-> "long.x", lookup |-> 3]}

MCAnswers ==
  [d \in Domain |->
     IF d = "a.x" THEN << <<Spare, Light, Heavy>>, <<None>>, <<Twin, Heavy>> >>
     ELSE << <<None, Light>>, <<Heavy, Twin, Light>>, <<>> >>]
=============================================================================
