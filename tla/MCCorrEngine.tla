---------------------------- MODULE MCCorrEngine ----------------------------
(* A small instance of CorrEngine for TLC. *)
EXTENDS CorrEngine, TLC
CONSTANTS a1, a2, a3, r1, r1New, r2

MCTime == [a \in Alarms |-> IF a = a1 THEN 1 ELSE IF a = a2 THEN 2 ELSE 3]
MCRuleId == r1 :> 1 @@ r1New :> 1 @@ r2 :> 2
\* all of them, one that changes r1, one that drops it
MCRulesFiles == {<<r1, r2>>, <<r1New, r2>>, <<r2>>}
=============================================================================
