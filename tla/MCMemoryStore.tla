--------------------------- MODULE MCMemoryStore ---------------------------
(* Two callers, three rows and texts of four atoms: two words, a        *)
(* negation and a secret.                                                    *)
EXTENDS MemoryStore, TLC

CONSTANTS id1, id2, id3, c1, c2, task, note, plan, draft, word, other, not, password

store(bucket, title, titled, content, explicit) ==
    [op |-> "store", bucket |-> bucket, title |-> title, titled |-> titled,
     content |-> content, explicit |-> explicit, skip |-> FALSE, raw |-> FALSE]

MCIds == {id1, id2, id3}
MCCallers == {c1, c2}
MCBuckets == {task, note}
MCTaskBuckets == {task}
MCTitles == {plan, draft}
MCAtoms == {word, other, not, password}
MCSecrets == {password}
MCNegated == {not}

MCRequests ==
    { store(note, draft, FALSE, {word, other, password}, TRUE),
      store(note, draft, FALSE, {word, not}, FALSE),
      store(task, draft, FALSE, {word}, FALSE),
      store(task, plan, TRUE, {not}, FALSE),
      [store(task, plan, FALSE, {word, password}, FALSE) EXCEPT !.skip = TRUE, !.raw = TRUE],
      [op |-> "update", content |-> {not, password}, raw |-> FALSE],
      [op |-> "retitle", title |-> plan],
      [op |-> "delete"] }

\* Notes that share a word, and their deletion.
MCEvidenceRequests ==
    { store(note, draft, FALSE, {word, other}, FALSE),
      store(note, draft, FALSE, {word, not}, FALSE),
      [op |-> "delete"] }

Symmetry == Permutations(MCIds) \cup Permutations(MCCallers)
=============================================================================
