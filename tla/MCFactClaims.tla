---------------------------- MODULE MCFactClaims ----------------------------
(* Instances for TLC: facts of one slot that contradict each other now, and  *)
(* one that will only begin; texts of one or two facts.                      *)
EXTENDS FactClaims

CONSTANTS tea, milk, rye, later, drink, v1, v2, v3

fact(value, from) == [slot |-> drink, value |-> value, from |-> from, to |-> Open]

MCFactOf == [f \in Facts |->
    CASE f = tea -> fact(v1, 0) [] f = milk -> fact(v2, 0)
      [] f = rye -> fact(v3, 0) [] f = later -> fact(v2, 2)]

PairTexts == {{tea}, {milk, later}, {tea, milk}}
SingleTexts == {{tea}, {milk}, {rye}}
OverlapTexts == {{tea}, {tea, milk}, {tea, rye}}
=============================================================================
