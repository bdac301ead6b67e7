---------------------------- MODULE AtLeastOnce ----------------------------
(***************************************************************************)
(* What the outbox promises about every stored signal: it may be sent any  *)
(* number of times, also after it was forgotten, and it is forgotten only  *)
(* once it was sent or somebody was told that it will not be.              *)
(***************************************************************************)
CONSTANT Signals

VARIABLES
  stored,   \* signals the outbox still answers for
  sent,     \* signals the broker has accepted
  reported  \* signals whose task an operator sees in the DLQ

\* Some signals were sent and forgotten before.
Init == stored \subseteq Signals /\ sent = Signals \ stored /\ reported = {}

Send(s) ==
  /\ sent' = sent \cup {s}
  /\ UNCHANGED <<stored, reported>>

\* Tasks are also reported for reasons of their own.
Report(s) ==
  /\ reported' = reported \cup {s}
  /\ UNCHANGED <<stored, sent>>

GiveUp(s) ==
  /\ s \in stored
  /\ stored' = stored \ {s}
  /\ reported' = reported \cup {s}
  /\ UNCHANGED sent

Forget(S) ==
  /\ S \subseteq sent \cup reported
  /\ stored' = stored \ S
  /\ UNCHANGED <<sent, reported>>

Next ==
  \/ \E s \in Signals : Send(s) \/ Report(s) \/ GiveUp(s)
  \/ \E S \in SUBSET Signals : Forget(S)

Spec == Init /\ [][Next]_<<stored, sent, reported>>
=============================================================================
