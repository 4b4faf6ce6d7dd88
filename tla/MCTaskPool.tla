----------------------------- MODULE MCTaskPool -----------------------------
(* Small instances of TaskPool.  The pool is one task per client and key,   *)
(* the size that PoolBound promises to be enough.                           *)
EXTENDS TaskPool, TLC

CONSTANTS c1, c2, k1, t1, t2

OneClient == {c1}
TwoClients == {c1, c2}
OneKey == {k1}
OneTask == {t1}
TwoTasks == {t1, t2}

Symmetry == Permutations(TwoClients) \cup Permutations(TwoTasks)
=============================================================================
