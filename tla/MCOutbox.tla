------------------------------ MODULE MCOutbox ------------------------------
(***************************************************************************)
(* Instances of Outbox for TLC: rows of tasks that can be routed, and a    *)
(* run's row that cannot; relays that differ only in their worker_id.      *)
(*                                                                         *)
(* Two of the three rows have a life in each start: a task's and the       *)
(* run's, which relays claim in one batch, or those of two tasks, which    *)
(* share the statistics; there one signal is already in RabbitMQ.          *)
(***************************************************************************)
EXTENDS Outbox, TLC

CONSTANTS r1, r2, run, p1, p2

TwoTasks == {r1, r2}
OneRun == {run}
TwoPublishers == {p1, p2}
TwoStarts == {(r1 :> "stored" @@ r2 :> "ended" @@ run :> "stored"),
              (r1 :> "stored" @@ r2 :> "sent" @@ run :> "ended")}
=============================================================================
