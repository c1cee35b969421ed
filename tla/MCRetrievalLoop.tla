-------------------------- MODULE MCRetrievalLoop --------------------------
(* One session with one cache key, three checkpoint ids and a host that may     *)
(* report a digest that no bundle has.                                       *)
EXTENDS RetrievalLoop, TLC

CONSTANTS id1, id2, id3, host, query, d1, d2

MCIds == {id1, id2, id3}
MCSessions == {host}
MCRequests == {query}
MCSessionOf == [r \in MCRequests |-> host]
MCDigests == {d1, d2}
Symmetry == Permutations(MCIds)
=============================================================================
