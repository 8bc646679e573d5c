----------------------------- MODULE MCFifoPool -----------------------------
(* FifoPool for TLC: plain tasks are interchangeable (workers are not: they   *)
(* are joined in order).                                                      *)
EXTENDS FifoPool, TLC

CONSTANT MaxEvents      \* bound: calls of submit() and stops by the watcher

Symmetry == Permutations(Plain)

Begun == {t \in Plain : spc[t] # "start"} \cup {t \in Foreign : spc[t] # "check"}
Stopped == {w \in Workers : m_watcher /\ stopReq[w]}
FewEvents == Cardinality(Begun) + Cardinality(Stopped) <= MaxEvents

=============================================================================
