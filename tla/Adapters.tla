------------------------------ MODULE Adapters ------------------------------
(***************************************************************************)
(* What the frontend makes of the API's answers: pure functions from the   *)
(* API's vocabulary to the one on the screen.  The list is converted in    *)
(* src/frontend/src/api/adapters.js; the answers of details and polls by   *)
(* App.jsx's own copies of two of its functions.  The copies are operators *)
(* of their own here too: nothing keeps them alike but care.               *)
(*                                                                         *)
(* A JavaScript object is a record.  A missing property and zero are the   *)
(* same to the expressions x || 0 and x || y, which is all the code asks.  *)
(***************************************************************************)
EXTENDS Naturals

\* x || 0 for the property f of the object s.
Get(s, f) == IF f \in DOMAIN s THEN s[f] ELSE 0

\* x || y for numbers.
Or(x, y) == IF x # 0 THEN x ELSE y

Statuses == {"running", "completed", "partially_failed", "failed",
             "cancelling", "cancelled"}
ShownStatuses == {"sending", "completed", "needs_attention", "cancelling",
                  "cancelled"}

\* adapters.js

AdaptCampaignStatus(s) ==
  CASE s = "running" -> "sending"
    [] s \in {"partially_failed", "failed"} -> "needs_attention"
    [] OTHER -> s

AdaptStats(s) ==
  [total      |-> Or(Get(s, "totalTasks"), Get(s, "total")),
   delivered  |-> Or(Get(s, "succeeded"), Get(s, "delivered")),
   inProgress |-> Get(s, "queued") + Get(s, "sending") + Get(s, "inProgress"),
   waiting    |-> Or(Get(s, "retryScheduled"), Get(s, "waiting")),
   failed     |-> Get(s, "failed") + Get(s, "deadLettered")
                    + Get(s, "cancelled")]

AdaptCampaign(status, stats) ==
  [status |-> AdaptCampaignStatus(status), stats |-> AdaptStats(stats)]

\* App.jsx

MapCampaignStatus(s) ==
  CASE s = "running" -> "sending"
    [] s \in {"partially_failed", "failed"} -> "needs_attention"
    [] OTHER -> s

\* A plausible bug: this copy forgets the dead-lettered tasks.
Faulty_NormalizeCampaignStats_NoDeadLettered(s) ==
  [total      |-> Or(Get(s, "totalTasks"), Get(s, "total")),
   delivered  |-> Or(Get(s, "succeeded"), Get(s, "delivered")),
   inProgress |-> Get(s, "queued") + Get(s, "sending") + Get(s, "inProgress"),
   waiting    |-> Or(Get(s, "retryScheduled"), Get(s, "waiting")),
   failed     |-> Get(s, "failed") + Get(s, "cancelled")]

NormalizeCampaignStats(s) ==
  [total      |-> Or(Get(s, "totalTasks"), Get(s, "total")),
   delivered  |-> Or(Get(s, "succeeded"), Get(s, "delivered")),
   inProgress |-> Get(s, "queued") + Get(s, "sending") + Get(s, "inProgress"),
   waiting    |-> Or(Get(s, "retryScheduled"), Get(s, "waiting")),
   failed     |-> Get(s, "failed") + Get(s, "deadLettered")
                    + Get(s, "cancelled")]

\* The parts of the bar that CampaignDetailScreen draws.
Bar(stats) == stats.delivered + stats.inProgress + stats.waiting + stats.failed
=============================================================================
