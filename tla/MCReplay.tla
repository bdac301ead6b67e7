------------------------------ MODULE MCReplay ------------------------------
(***************************************************************************)
(* Instances of Replay for TLC: tasks with one attempt of their own, whose *)
(* further attempts are those the requests grant.                          *)
(***************************************************************************)
EXTENDS Replay, TLC

CONSTANTS t1, t2, a1, a2, o1, o2

OneTask == {t1}
TwoTasks == {t1, t2}
OneApiCall == {a1}
TwoApiCalls == {a1, a2}
OneOpCall == {o1}
TwoOpCalls == {o1, o2}
=============================================================================
