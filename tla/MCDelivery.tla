---------------------------- MODULE MCDelivery ----------------------------
(***************************************************************************)
(* Model values and symmetry for TLC.  The tasks, and the workers, are     *)
(* interchangeable: no definition orders them or names one of them.        *)
(***************************************************************************)
EXTENDS Delivery, TLC

CONSTANTS t1, t2, w1, w2

OneTask == {t1}
TwoTasks == {t1, t2}
OneWorker == {w1}
TwoWorkers == {w1, w2}

Interchangeable == Permutations(Tasks) \cup Permutations(Workers)
=============================================================================
