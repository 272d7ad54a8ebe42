------------------------------ MODULE MCComparison ------------------------------
(* An instance of Comparison for TLC: two images that share their base       *)
(* layer, compared whole, at their first layer, and the other way round.     *)
EXTENDS Comparison, TLC

CONSTANTS v1, v2, base, new, r1, r2

MCStack == v1 :> <<base>> @@ v2 :> <<base, new>>
Select(i, j, m, n) == [left |-> i, right |-> j, leftLayers |-> m, rightLayers |-> n]
MCKeys == {Select(v1, v2, 1, 2), Select(v1, v2, 1, 0)}
===============================================================================
