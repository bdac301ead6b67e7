---------------------------- MODULE MCFrontend ----------------------------
(* The instance of Frontend that frontend.cfg checks. *)
EXTENDS Frontend, TLC

MCCampaigns == {1, 2}

\* Every counter occurs in one of these.
Open3 == [NoTasks EXCEPT !["totalTasks"] = 3, !["queued"] = 1,
                         !["sending"] = 1, !["retryScheduled"] = 1]
Ended3 == [NoTasks EXCEPT !["totalTasks"] = 3, !["succeeded"] = 1,
                          !["failed"] = 1, !["deadLettered"] = 1]
Stopped3 == [NoTasks EXCEPT !["totalTasks"] = 3, !["succeeded"] = 1,
                            !["cancelled"] = 2]
Running == [status |-> "running", stats |-> Open3]
Ended == [status |-> "partially_failed", stats |-> Ended3]
Cancelled == [status |-> "cancelled", stats |-> Stopped3]
MCSnapshots == {Created, Cancelling(Created), Running, Cancelling(Running),
                Ended, Cancelled}
MCInitial == {<<Ended, Nothing>>, <<Ended, Running>>}
MCSlots == {1, 2}
MCForms == {"all", "ids", "nobody"}
MCNoRecipients == {"nobody"}
=============================================================================
