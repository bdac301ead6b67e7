---------------------------- MODULE CreateScreen ----------------------------
(***************************************************************************)
(* CampaignCreateScreen of the frontend (src/frontend/src/App.jsx): the    *)
(* form and the estimate of its recipients, which an effect asks the API   *)
(* for 250 ms after the last edit.  Each run of the effect has a timer, a  *)
(* request, and a flag "cancelled" of its own, which its cleanup sets.     *)
(* The clean-up runs before the next effect and when the screen goes away. *)
(*                                                                         *)
(* A form is what the effect depends on: audience, ids and channels.  The  *)
(* numbers of an estimate are abstracted to the form they were asked for.  *)
(***************************************************************************)
CONSTANTS
  Forms,        \* what the manager may have entered
  EmptyForms,   \* those with no channel, or "selected" with no id
  FirstForm,    \* the initial state of the form
  NoForm        \* users: null, tasks: null

ASSUME CreateScreenAssumption ==
  EmptyForms \subseteq Forms /\ FirstForm \in Forms /\ NoForm \notin Forms

VARIABLES
  mounted,      \* the screen is shown
  form,
  timer,        \* the 250 ms of the current effect are running
  estimate,     \* the state of the same name; of: the form it counted
  asked         \* estimateRecipients requests without an answer

createVars == <<mounted, form, timer, estimate, asked>>

Estimates == [of : Forms \cup {NoForm}, loading : BOOLEAN, error : BOOLEAN]
Asked == [of : Forms, cancelled : BOOLEAN]

CreateTypeOK ==
  /\ mounted \in BOOLEAN
  /\ form \in Forms
  /\ timer \in BOOLEAN
  /\ estimate \in Estimates
  /\ asked \subseteq Asked

Initially(m) ==
  /\ mounted = m
  /\ form = FirstForm
  /\ timer = m
  /\ estimate = [of |-> NoForm, loading |-> FALSE, error |-> FALSE]
  /\ asked = {}

\* A plausible bug: the cleanup stops the timer only.
Faulty_CleanUp_TimerOnly(requests) == requests

-----------------------------------------------------------------------------
\* The cleanup of the effect: cancelled = true.
CleanUp(requests) == {[of |-> a.of, cancelled |-> TRUE] : a \in requests}

Failed(e) == [of |-> e.of, loading |-> FALSE, error |-> TRUE]

Mount ==
  /\ mounted' = TRUE
  /\ timer' = TRUE
  /\ UNCHANGED <<form, estimate, asked>>

\* The cleanup; and the state of the component is gone.
Unmount ==
  /\ mounted' = FALSE
  /\ form' = FirstForm
  /\ timer' = FALSE
  /\ estimate' = [of |-> NoForm, loading |-> FALSE, error |-> FALSE]
  /\ asked' = CleanUp(asked)

Edit(f) ==
  /\ mounted
  /\ f # form
  /\ form' = f
  /\ timer' = TRUE
  /\ asked' = CleanUp(asked)
  /\ UNCHANGED <<mounted, estimate>>

AskEstimate ==
  /\ timer
  /\ timer' = FALSE
  /\ \/ /\ form \in EmptyForms
        /\ estimate' = [of |-> form, loading |-> FALSE, error |-> FALSE]
        /\ UNCHANGED asked
     \/ /\ form \notin EmptyForms
        /\ estimate' = [of |-> estimate.of, loading |-> TRUE, error |-> FALSE]
        /\ asked' = asked \cup {[of |-> form, cancelled |-> FALSE]}
  /\ UNCHANGED <<mounted, form>>

Estimated(a, ok) ==
  /\ a \in asked
  /\ asked' = asked \ {a}
  /\ estimate' = IF a.cancelled THEN estimate
                 ELSE IF ok THEN [of |-> a.of, loading |-> FALSE,
                                  error |-> FALSE]
                 ELSE Failed(estimate)
  /\ UNCHANGED <<mounted, form, timer>>

-----------------------------------------------------------------------------
AskedIsShown ==
  \A a \in asked : ~a.cancelled =>
    mounted /\ a.of = form /\ ~timer /\ estimate.loading
LoadingHasEnd ==
  mounted /\ estimate.loading =>
    timer \/ \E a \in asked : ~a.cancelled
ShownIsCurrent ==
  mounted /\ ~timer /\ ~estimate.loading /\ ~estimate.error =>
    estimate.of = form

(***************************************************************************)
(* An estimate shown as final (no timer running, not loading, no error)    *)
(* was counted for the form on the screen, whatever was edited in between  *)
(* and in whatever order the API answered; a request whose answer is still *)
(* welcome is that form's; and while the screen says "loading" an answer   *)
(* or the next timer is to come (the flag "cancelled" of the effect and    *)
(* its cleanup, App.jsx:439-478).                                          *)
(***************************************************************************)
EstimateIsCurrent == AskedIsShown /\ LoadingHasEnd /\ ShownIsCurrent
=============================================================================
