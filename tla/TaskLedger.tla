----------------------------- MODULE TaskLedger -----------------------------
(***************************************************************************)
(* What the delivery subsystem promises about every task, whatever         *)
(* happens to its workers, its messages and its recovery: a task is leased *)
(* to one attempt at a time; attempts are numbered without gaps; a task is *)
(* settled once, by the attempt that holds the lease; and it is settled as *)
(* succeeded only if that very attempt reached the provider.               *)
(*                                                                         *)
(* What it does not promise shows in Deliver: any attempt that was ever    *)
(* granted, an abandoned one too, may reach the provider at any time.      *)
(* Delivery is at least once.                                              *)
(***************************************************************************)
EXTENDS Naturals

CONSTANT Tasks

VARIABLES
  phase,     \* waiting for an attempt, leased to one, or how it was settled
  epoch,     \* the number of attempts granted so far
  delivered  \* the attempts that reached the provider

vars == <<phase, epoch, delivered>>

Verdict == {"succeeded", "dead_lettered", "cancelled"}

Init ==
  /\ phase = [t \in Tasks |-> "waiting"]
  /\ epoch = [t \in Tasks |-> 0]
  /\ delivered = [t \in Tasks |-> {}]

Grant(t) ==
  /\ phase[t] = "waiting"
  /\ phase' = [phase EXCEPT ![t] = "leased"]
  /\ epoch' = [epoch EXCEPT ![t] = @ + 1]
  /\ UNCHANGED delivered

Deliver(t, n) ==
  /\ delivered' = [delivered EXCEPT ![t] = @ \cup {n}]
  /\ UNCHANGED <<phase, epoch>>

\* The attempt ended without a verdict: another one will be granted.
Release(t) ==
  /\ phase[t] = "leased"
  /\ phase' = [phase EXCEPT ![t] = "waiting"]
  /\ UNCHANGED <<epoch, delivered>>

Settle(t, verdict) ==
  /\ phase[t] = "leased"
  /\ verdict = "succeeded" => epoch[t] \in delivered[t]
  /\ phase' = [phase EXCEPT ![t] = verdict]
  /\ UNCHANGED <<epoch, delivered>>

Next ==
  \E t \in Tasks :
    \/ Grant(t)
    \/ \E n \in 1..epoch[t] : Deliver(t, n)
    \/ Release(t)
    \/ \E verdict \in Verdict : Settle(t, verdict)

Spec == Init /\ [][Next]_vars
=============================================================================
