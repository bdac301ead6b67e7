------------------------------ MODULE MCFanout ------------------------------
(***************************************************************************)
(* Instances of Fanout for TLC.  Both executors have one WORKER_ID: they   *)
(* are goroutines of one replica, or replicas with the default value.      *)
(***************************************************************************)
EXTENDS Fanout, TLC

CONSTANTS e1, e2, p1, p2, c1, c2, c3, c4

OneExecutor == {e1}
TwoExecutors == {e1, e2}
OneProcessor == {p1}
TwoProcessors == {p1, p2}

SharedId == [e \in {e1, e2} |-> "funout-1"]

\* Only the first user has channels, two: with one user to a page, the second
\* page is dropped.
OneUsersChannels == {c1, c2}
OneUsers == [c \in OneUsersChannels |-> 1]
OneChannel == {c1}
OneUser == [c \in OneChannel |-> 1]
\* The third user has two channels, the others have one.
ThreeUsersChannels == {c1, c2, c3, c4}
ThreeUsers == (c1 :> 3) @@ (c2 :> 3) @@ (c3 :> 1) @@ (c4 :> 2)

\* With one WORKER_ID the executors, and always the processors and the
\* channels of one user, are interchangeable.
Interchangeable ==
  Permutations(Executors) \cup Permutations(Processors)
    \cup Permutations({c1, c2})
=============================================================================
