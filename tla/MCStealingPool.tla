--------------------------- MODULE MCStealingPool ---------------------------
(* StealingPool for TLC: plain tasks are interchangeable. *)
EXTENDS StealingPool, TLC

CONSTANT MaxEvents      \* bound: calls of submit() and stops by the watcher

Symmetry == Permutations(Plain)

Begun == {t \in Plain : spc[t] # "start"} \cup {t \in Foreign : spc[t] # "check"}
Stopped == {w \in Workers : m_watcher /\ stopReq[w]}
FewEvents == Cardinality(Begun) + Cardinality(Stopped) <= MaxEvents

=============================================================================
