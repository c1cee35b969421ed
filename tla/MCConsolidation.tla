-------------------------- MODULE MCConsolidation --------------------------
(* Two rows of one topic that the duplicate detector matches, two claims of     *)
(* which the second is newer and may be extracted later, three approval items. *)
EXTENDS Consolidation

MCSettings == {[detectors |-> Detectors, alike |-> {}, autoExecute |-> TRUE],
               [detectors |-> Detectors \ {"conflict_aggregation"}, alike |-> {{1, 2}},
                autoExecute |-> FALSE]}
MCFirstText == [m \in Memories |-> {m}]
MCStarts == {[source |-> [c \in Claims |-> c], conflict |-> Memories],
             [source |-> [c \in Claims |-> IF c = 1 THEN 1 ELSE None], conflict |-> {}]}
MCSimilar == {{1, 2}}
MCTopicOf == [m \in Memories |-> "topic"]
MCValidFrom == [c \in Claims |-> c]
=============================================================================
