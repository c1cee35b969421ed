------------------------- MODULE MCCandidateIntake -------------------------
(* Two processes and two ids; two events of the same content that can be   *)
(* promoted, one that cannot.                                              *)
EXTENDS CandidateIntake, TLC

CONSTANTS first, again, chat, word

MCContent == [e \in Events |->
    [kind |-> IF e = chat THEN "message" ELSE "tool", text |-> word]]
MCSymmetry == Permutations(Actors) \cup Permutations(Ids)
=============================================================================
