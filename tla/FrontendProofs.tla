--------------------------- MODULE FrontendProofs ---------------------------
(***************************************************************************)
(* Proofs about the manager's console, for every number of operations in   *)
(* flight, campaigns, sessions, forms, clicks and failures.                *)
(*                                                                         *)
(* Two parts of its state are proved about: the busy flag and the estimate *)
(* of the create screen.  Neither depends on what an operation awaits, so  *)
(* op is not typed here.                                                   *)
(***************************************************************************)
EXTENDS Frontend, TLAPS

-----------------------------------------------------------------------------
(* The estimate of the create screen *)

\* The screen is mounted only where it is shown, and only while it is mounted
\* does the effect have a timer.
ScreenInv ==
  /\ form \in Forms /\ asked \subseteq Asked /\ estimate \in Estimates
  /\ mounted \in BOOLEAN /\ timer \in BOOLEAN
  /\ sessions \in Nat
  /\ mounted => creating /\ token # 0
  /\ timer => mounted

\* The component is gone, by its cleanup or with the page.
Gone ==
  /\ mounted' = FALSE /\ timer' = FALSE
  /\ form' = FirstForm
  /\ estimate' = [of |-> NoForm, loading |-> FALSE, error |-> FALSE]
  /\ asked' = CleanUp(asked) \/ asked' = {}

\* What a step may do to the screen.
ScreenKept ==
  UNCHANGED <<createVars, creating>> /\ (token' = token \/ token' # 0)
ScreenShown == Mount /\ ~mounted /\ creating' /\ token' # 0
ScreenUsed ==
  /\ \/ \E f \in Forms : Edit(f)
     \/ AskEstimate
     \/ \E a \in asked : \E ok \in BOOLEAN : Estimated(a, ok)
  /\ UNCHANGED <<creating, token>>

LEMMA ScreenSteps ==
  ASSUME ScreenInv, [Next]_vars
  PROVE  /\ ScreenKept \/ ScreenShown \/ ScreenUsed \/ Gone
         /\ sessions' \in Nat
<1> USE DEF sessionVars, apiVars
<1> DEFINE P == ScreenKept \/ ScreenShown \/ ScreenUsed \/ Gone
           N == sessions' \in Nat
<1>a. sessions \in Nat
  BY DEF ScreenInv
<1>1. ASSUME \/ Login \/ Refresh \/ Create \/ Import \/ Cancel \/ Toggle
             \/ Replay \/ (\E c \in Campaigns : Open(c))
      PROVE  P /\ N
  <2>1. UNCHANGED <<createVars, creating, token, sessions>>
    BY <1>1 DEF Login, Refresh, Create, Import, Cancel, Toggle, Replay, Press,
                Open
  <2>2. QED
    BY <1>a, <2>1 DEF ScreenKept
<1>2. ASSUME Logout \/ LeaveCreate \/ Reload
      PROVE  P /\ N
  BY <1>a, <1>2 DEF Logout, SessionEnds, LeaveCreate, Reload, Unmount, Gone
<1>3. CASE GoToCreate
  BY <1>a, <1>3 DEF GoToCreate, ScreenShown, ScreenInv
<1>4. CASE EditForm
  <2>1. (\E f \in Forms : Edit(f)) /\ UNCHANGED <<creating, token, sessions>>
    BY <1>4 DEF EditForm
  <2>2. QED
    BY <1>a, <2>1 DEF ScreenUsed
<1>5. CASE FireRefresh \/ FireDetails
  <2>1. UNCHANGED <<createVars, creating, token, sessions>>
    BY <1>5 DEF FireRefresh, FireDetails
  <2>2. QED
    BY <1>a, <2>1 DEF ScreenKept
<1>6. CASE FireEstimate
  <2>1. AskEstimate /\ UNCHANGED <<creating, token, sessions>>
    BY <1>6 DEF FireEstimate
  <2>2. QED
    BY <1>a, <2>1 DEF ScreenUsed
<1>7. CASE Estimate
  <2>1. /\ \E a \in asked : \E ok \in BOOLEAN : Estimated(a, ok)
        /\ UNCHANGED <<creating, token, sessions>>
    BY <1>7 DEF Estimate
  <2>2. QED
    BY <1>a, <2>1 DEF ScreenUsed
<1>8. ASSUME NEW o, NEW r, NEW t, Rejected(o, r, t)
      PROVE  P /\ N
  <2>1. UNCHANGED <<creating, sessions>>
    BY <1>8 DEF Rejected
  <2>2. SessionEnds \/ UNCHANGED <<token, createVars>>
    BY <1>8 DEF Rejected
  <2>3. CASE SessionEnds
    BY <1>a, <2>1, <2>3 DEF SessionEnds, Unmount, Gone
  <2>4. CASE UNCHANGED <<token, createVars>>
    BY <1>a, <2>1, <2>4 DEF ScreenKept
  <2>5. QED
    BY <2>2, <2>3, <2>4
<1>9. ASSUME NEW o \in Slots, MainRejected(o) \/ PostRejected(o) \/ ChannelsRejected(o)
      PROVE  P /\ N
  BY <1>8, <1>9 DEF MainRejected, PostRejected, ChannelsRejected
<1>10. ASSUME NEW o \in Slots, LoginAnswered(o)
       PROVE  P /\ N
  <2>1. /\ sessions' = sessions + 1 /\ token' = sessions'
        /\ creating' = creating
        /\ IF token = 0 /\ creating THEN Mount ELSE UNCHANGED createVars
    BY <1>10 DEF LoginAnswered
  <2>2. token' # 0 /\ N
    BY <1>a, <2>1
  <2>3. CASE token = 0 /\ creating
    BY <2>1, <2>2, <2>3 DEF ScreenShown, ScreenInv
  <2>4. CASE ~(token = 0 /\ creating)
    BY <2>1, <2>2, <2>4 DEF ScreenKept
  <2>5. QED
    BY <2>3, <2>4
<1>11. ASSUME NEW o \in Slots, StatsAnswered(o)
       PROVE  P /\ N
  <2>1. /\ Unmount \/ UNCHANGED <<createVars, creating>>
        /\ UNCHANGED <<token, sessions>>
    BY <1>11 DEF StatsAnswered
  <2>2. CASE Unmount
    BY <1>a, <2>1, <2>2 DEF Unmount, Gone
  <2>3. CASE UNCHANGED <<createVars, creating>>
    BY <1>a, <2>1, <2>3 DEF ScreenKept
  <2>4. QED
    BY <2>1, <2>2, <2>3
<1>12. ASSUME NEW o \in Slots,
              \/ ServeRead(o) \/ Lose(o) \/ HealthAnswered(o)
              \/ PostAnswered(o) \/ ListAnswered(o) \/ DetailsAnswered(o)
              \/ PollAnswered(o) \/ ChannelsAnswered(o) \/ PollClock(o)
       PROVE  P /\ N
  <2>1. UNCHANGED <<createVars, creating, token, sessions>>
    BY <1>12 DEF ServeRead, Lose, HealthAnswered, PostAnswered, ListAnswered,
                 DetailsAnswered, PollAnswered, ChannelsAnswered, PollClock
  <2>2. QED
    BY <1>a, <2>1 DEF ScreenKept
<1>13. CASE UNCHANGED vars
  BY <1>a, <1>13 DEF vars, ScreenKept
<1>14. QED
  BY <1>1, <1>2, <1>3, <1>4, <1>5, <1>6, <1>7, <1>9, <1>10, <1>11, <1>12,
     <1>13 DEF Next, Manager, MainLine, ChannelsLine

LEMMA CleanUpType == ASSUME asked \subseteq Asked PROVE CleanUp(asked) \subseteq Asked
<1> SUFFICES ASSUME NEW a \in asked
             PROVE  [of |-> a.of, cancelled |-> TRUE] \in Asked
  BY DEF CleanUp
<1>1. a \in Asked
  OBVIOUS
<1>2. a.of \in Forms
  BY <1>1 DEF Asked
<1>3. QED
  BY <1>2 DEF Asked

LEMMA EstimateType ==
  ASSUME NEW f \in Forms \cup {NoForm}, NEW l \in BOOLEAN, NEW e \in BOOLEAN
  PROVE  [of |-> f, loading |-> l, error |-> e] \in Estimates
  BY DEF Estimates

LEMMA NextScreen == ScreenInv /\ [Next]_vars => ScreenInv'
<1> SUFFICES ASSUME ScreenInv, [Next]_vars PROVE ScreenInv'
  OBVIOUS
<1>a. FirstForm \in Forms
  BY CreateScreenAssumption
<1>b. sessions' \in Nat
  BY ScreenSteps
<1>1. CASE ScreenKept
  BY <1>b, <1>1 DEF ScreenKept, ScreenInv, createVars
<1>2. CASE ScreenShown
  BY <1>b, <1>2 DEF ScreenShown, Mount, ScreenInv
<1>3. CASE Gone
  <2>1. asked' \subseteq Asked
    BY <1>3, CleanUpType DEF Gone, ScreenInv
  <2>2. estimate' \in Estimates
    BY <1>3, EstimateType DEF Gone
  <2>3. QED
    BY <1>a, <1>b, <1>3, <2>1, <2>2 DEF Gone, ScreenInv
<1>4. ASSUME UNCHANGED <<creating, token>>, NEW f \in Forms, Edit(f)
      PROVE  ScreenInv'
  <2>1. asked' \subseteq Asked
    BY <1>4, CleanUpType DEF Edit, ScreenInv
  <2>2. QED
    BY <1>b, <1>4, <2>1 DEF Edit, ScreenInv
<1>5. CASE AskEstimate /\ UNCHANGED <<creating, token>>
  <2>1. form \in Forms /\ estimate.of \in Forms \cup {NoForm}
    BY DEF ScreenInv, Estimates
  <2>2. [of |-> form, cancelled |-> FALSE] \in Asked
    BY <2>1 DEF Asked
  <2>3. asked' \subseteq Asked
    BY <1>5, <2>2 DEF AskEstimate, ScreenInv
  <2>4. /\ [of |-> form, loading |-> FALSE, error |-> FALSE] \in Estimates
        /\ [of |-> estimate.of, loading |-> TRUE, error |-> FALSE] \in Estimates
    BY <2>1, EstimateType
  <2>5. estimate' \in Estimates
    BY <1>5, <2>4 DEF AskEstimate
  <2>6. QED
    BY <1>b, <1>5, <2>3, <2>5 DEF AskEstimate, ScreenInv
<1>6. ASSUME UNCHANGED <<creating, token>>, NEW a \in asked,
             NEW ok \in BOOLEAN, Estimated(a, ok)
      PROVE  ScreenInv'
  BY <1>b, <1>6 DEF Estimated, Failed, ScreenInv, Asked, Estimates
<1>7. QED
  BY <1>1, <1>2, <1>3, <1>4, <1>5, <1>6, ScreenSteps DEF ScreenUsed

LEMMA NextEstimate ==
  ScreenInv /\ EstimateIsCurrent /\ [Next]_vars => EstimateIsCurrent'
<1> SUFFICES ASSUME ScreenInv, EstimateIsCurrent, [Next]_vars
             PROVE  EstimateIsCurrent'
  OBVIOUS
<1> USE DEF EstimateIsCurrent, AskedIsShown, LoadingHasEnd, ShownIsCurrent
<1>1. CASE ScreenKept
  BY <1>1 DEF ScreenKept, createVars
<1>2. CASE ScreenShown
  BY <1>2 DEF ScreenShown, Mount
<1>3. CASE Gone
  BY <1>3 DEF Gone, CleanUp
<1>4. ASSUME NEW f \in Forms, Edit(f)
      PROVE  EstimateIsCurrent'
  BY <1>4 DEF Edit, CleanUp
<1>5. CASE AskEstimate
  <2>1. mounted /\ timer /\ timer' = FALSE /\ mounted' = TRUE /\ form' = form
    BY <1>5 DEF AskEstimate, ScreenInv
  <2>2. \A a \in asked : a.cancelled
    BY <2>1
  <2>3. CASE form \in EmptyForms
    BY <1>5, <2>1, <2>2, <2>3 DEF AskEstimate
  <2>4. CASE form \notin EmptyForms
    <3> DEFINE new == [of |-> form, cancelled |-> FALSE]
    <3>1. /\ asked' = asked \cup {new}
          /\ estimate' = [of |-> estimate.of, loading |-> TRUE, error |-> FALSE]
      BY <1>5, <2>4 DEF AskEstimate
    <3>2. new.of = form /\ new.cancelled = FALSE /\ estimate'.loading = TRUE
      BY <3>1
    <3>3. \A a \in asked' : ~a.cancelled => a = new
      BY <2>2, <3>1
    <3>4. new \in asked'
      BY <3>1
    <3>5. QED
      BY <2>1, <3>2, <3>3, <3>4
  <2>5. QED
    BY <2>3, <2>4
<1>6. ASSUME NEW a \in asked, NEW ok \in BOOLEAN, Estimated(a, ok)
      PROVE  EstimateIsCurrent'
  <2>1. /\ asked' = asked \ {a}
        /\ UNCHANGED <<mounted, form, timer>>
    BY <1>6 DEF Estimated
  <2>2. CASE a.cancelled
    <3>1. estimate' = estimate
      BY <1>6, <2>2 DEF Estimated
    <3>2. QED
      BY <2>1, <2>2, <3>1
  <2>3. CASE ~a.cancelled
    <3>1. mounted /\ a.of = form /\ ~timer
      BY <2>3
    <3>2. \A b \in asked : ~b.cancelled => b = a
      <4>1. \A b \in asked : b \in Asked
        BY DEF ScreenInv
      <4>2. \A b \in asked : ~b.cancelled => b.of = a.of /\ b.cancelled = a.cancelled
        BY <2>3, <3>1, <4>1 DEF Asked
      <4>3. QED
        BY <4>1, <4>2 DEF Asked
    <3>3. \A b \in asked' : b.cancelled
      BY <2>1, <3>2
    <3>4. estimate'.loading = FALSE /\ (estimate'.error \/ estimate'.of = form)
      BY <1>6, <2>3, <3>1 DEF Estimated, Failed
    <3>5. QED
      BY <2>1, <3>3, <3>4
  <2>4. QED
    BY <2>2, <2>3
<1>7. QED
  BY <1>1, <1>2, <1>3, <1>4, <1>5, <1>6, ScreenSteps DEF ScreenUsed

\* An estimate that is shown is that of the form, in whatever order edits,
\* timers and answers come, and across logout, reload and the next visit.
THEOREM EstimatesAreCurrent == Spec => []EstimateIsCurrent
<1>1. ASSUME Init PROVE ScreenInv /\ EstimateIsCurrent
  <2>1. /\ mounted = FALSE /\ timer = FALSE /\ form = FirstForm /\ asked = {}
        /\ estimate = [of |-> NoForm, loading |-> FALSE, error |-> FALSE]
        /\ sessions = 1
    BY <1>1 DEF Init, Initially
  <2>2. estimate \in Estimates
    BY <2>1, EstimateType
  <2>3. ScreenInv
    BY <2>1, <2>2, CreateScreenAssumption DEF ScreenInv
  <2>4. QED
    BY <2>1, <2>3
       DEF EstimateIsCurrent, AskedIsShown, LoadingHasEnd, ShownIsCurrent
<1>2. QED
  BY <1>1, NextScreen, NextEstimate, PTL DEF Spec

-----------------------------------------------------------------------------
(* The busy flag *)

\* Without a clash at most one operation is running, and it is in a slot.
BusyInv ==
  /\ kind \in [Slots -> Kinds \cup {"free"}]
  /\ busy \in BOOLEAN
  /\ running \subseteq InFlight
  /\ "busy" \notin clashes => \A o, p \in running : o = p
  /\ BusyTells

\* An operation starts when nothing is busy, or its start is a clash.
Begins(k, at, camp) ==
  \E sel, taken : /\ taken = Unguarded \/ (~busy /\ taken = Guarded)
                  /\ Begin(k, at, camp, sel, taken)

\* The operations that start, and the actions that start them.

LEMMA BeginActions ==
  ASSUME \/ Login \/ Refresh \/ Create \/ Import \/ Cancel \/ Toggle \/ Replay
         \/ FireRefresh \/ FireDetails
  PROVE  \/ token = 0 /\ ~busy /\ Begins("login", "login", 0)
         \/ Begins("refresh", "health", 0)
         \/ Begins("create", "post", 0)
         \/ Begins("post", "post", 0)
         \/ SelectedCampaign # 0 /\ Begins("cancel", "post", SelectedCampaign)
         \/ Begins("toggle", "post", 0)
         \/ detailsTimer # 0 /\ Begins("details", "details", detailsTimer)
<1>1. CASE Login
  BY <1>1 DEF Login, Begins
<1>2. CASE Refresh
  BY <1>2 DEF Refresh, Press, Begins
<1>3. CASE Create
  BY <1>3 DEF Create, Press, Begins
<1>4. CASE Import
  BY <1>4 DEF Import, Press, Begins
<1>5. CASE Cancel
  BY <1>5 DEF Cancel, Press, Begins
<1>6. CASE Toggle
  BY <1>6 DEF Toggle, Press, Begins
<1>7. CASE Replay
  BY <1>7 DEF Replay, Press, Begins
<1>8. CASE FireRefresh
  BY <1>8 DEF FireRefresh, Begins
<1>9. CASE FireDetails
  BY <1>9 DEF FireDetails, Begins
<1>10. QED
  BY <1>1, <1>2, <1>3, <1>4, <1>5, <1>6, <1>7, <1>8, <1>9

LEMMA BeginBusy ==
  ASSUME BusyInv, NEW k \in Kinds, NEW at, NEW camp, Begins(k, at, camp)
  PROVE  BusyInv' /\ ("busy" \notin clashes' => running = {})
<1> USE DEF BusyInv, BusyTells
<1>a. PICK sel, taken : /\ ~busy \/ "busy" \in taken
                        /\ Begin(k, at, camp, sel, taken)
  BY DEF Begins, Unguarded
<1>1. PICK o \in Slots \ InFlight :
        /\ kind' = [kind EXCEPT ![o] = k]
        /\ running' = running \cup {o}
        /\ busy' = TRUE
        /\ clashes' = {w \in Resources :
             IF Held(w) THEN w \in clashes \cup Writes[k] \cup taken
             ELSE w \in (clashes \ (Writes[k] \cup {"busy"}))
                          \cup Stray(k, camp)}
  BY <1>a DEF Begin
<1>2. Kinds \cap {"free"} = {}
  BY DEF Kinds
<1>3. kind' \in [Slots -> Kinds \cup {"free"}]
  BY <1>1
<1>4. running' \subseteq InFlight'
  BY <1>1, <1>2 DEF InFlight
<1>5. Held("busy") <=> running # {}
  BY DEF Held
<1>6. "busy" \notin clashes' => running = {}
  <2>1. "busy" \in Resources
    BY DEF Resources
  <2>2. ASSUME running # {} PROVE "busy" \in clashes'
    <3>1. "busy" \in clashes \cup taken
      BY <1>a, <2>2
    <3>2. QED
      BY <1>1, <1>5, <2>1, <2>2, <3>1
  <2>3. QED
    BY <2>2
<1>7. "busy" \notin clashes' => \A p, q \in running' : p = q
  BY <1>1, <1>6
<1>8. QED
  BY <1>1, <1>3, <1>4, <1>6, <1>7

\* An operation goes on, or its finally runs.
LEMMA GoesOnBusy ==
  ASSUME BusyInv, NEW o \in Slots, NEW r, NEW done \in BOOLEAN,
         GoesOn(o, r), Finally(o, done), Over(r) => done, clashes' = clashes
  PROVE  BusyInv'
<1> USE DEF BusyInv, BusyTells
<1>1. /\ kind' = [kind EXCEPT ![o] = IF Over(r) THEN "free" ELSE @]
      /\ running' = IF done THEN running \ {o} ELSE running
      /\ busy' = IF done /\ o \in running THEN FALSE ELSE busy
  BY DEF GoesOn, Finally
<1>2. kind' \in [Slots -> Kinds \cup {"free"}]
  BY <1>1
<1>3. running' \subseteq InFlight'
  <2>1. ASSUME NEW p \in running' PROVE p \in InFlight'
    <3>1. p \in running /\ p \in Slots /\ kind[p] # "free"
      BY <1>1, <2>1 DEF InFlight
    <3>2. p = o => ~Over(r)
      BY <1>1, <2>1
    <3>3. kind'[p] = kind[p]
      BY <1>1, <3>1, <3>2
    <3>4. QED
      BY <3>1, <3>3 DEF InFlight
  <2>2. QED
    BY <2>1
<1>4. CASE done /\ o \in running
  <2>1. busy' = FALSE /\ running' = running \ {o}
    BY <1>1, <1>4
  <2>2. "busy" \notin clashes => running' = {}
    BY <1>4, <2>1
  <2>3. QED
    BY <1>2, <1>3, <2>1, <2>2
<1>5. CASE ~(done /\ o \in running)
  <2>1. busy' = busy /\ running' = running
    BY <1>1, <1>5
  <2>2. QED
    BY <1>2, <1>3, <2>1
<1>6. QED
  BY <1>4, <1>5

LEMMA NextBusy == BusyInv /\ [Next]_vars => BusyInv'
<1> SUFFICES ASSUME BusyInv, [Next]_vars PROVE BusyInv'
  OBVIOUS
<1> USE DEF opVars
<1>1. ASSUME UNCHANGED <<busy, running, kind>>,
             "busy" \in clashes' <=> "busy" \in clashes
      PROVE  BusyInv'
  BY <1>1 DEF BusyInv, BusyTells, InFlight
<1>2. ASSUME \/ Login \/ Refresh \/ Create \/ Import \/ Cancel \/ Toggle
             \/ Replay \/ FireRefresh \/ FireDetails
      PROVE  BusyInv'
  <2>1. \E k \in Kinds : \E at, camp : Begins(k, at, camp)
    <3>1. {"login", "refresh", "create", "post", "cancel", "toggle", "details"}
            \subseteq Kinds
      BY DEF Kinds
    <3>2. QED
      BY <1>2, <3>1, BeginActions
  <2>2. QED
    BY <2>1, BeginBusy
<1>3. ASSUME \/ \E c \in Campaigns : Open(c)
             \/ Logout \/ GoToCreate \/ LeaveCreate \/ EditForm
             \/ FireEstimate \/ Estimate
             \/ \E o \in Slots : PollClock(o) \/ ServeRead(o) \/ Lose(o)
             \/ UNCHANGED vars
      PROVE  BusyInv'
  <2>1. /\ UNCHANGED <<busy, running, kind>>
        /\ clashes' \in {clashes, clashes \cup {"list"}}
    BY <1>3 DEF Open, Logout, GoToCreate, LeaveCreate, EditForm, FireEstimate,
                Estimate, PollClock, ServeRead, Lose, vars
  <2>2. QED
    BY <1>1, <2>1
<1>4. CASE Reload
  BY <1>4 DEF Reload, BusyInv, BusyTells, InFlight
<1>5. ASSUME NEW o \in Slots, NEW r, NEW t, Rejected(o, r, t) PROVE BusyInv'
  <2>1. GoesOn(o, r) /\ Finally(o, TRUE) /\ clashes' = clashes
    BY <1>5 DEF Rejected
  <2>2. QED
    BY <2>1, GoesOnBusy
<1>6. ASSUME NEW o \in Slots, NEW r, Advance(o, r), clashes' = clashes
      PROVE  BusyInv'
  <2>1. Over(r) \in BOOLEAN
    BY DEF Over
  <2>2. GoesOn(o, r) /\ Finally(o, Over(r))
    BY <1>6 DEF Advance
  <2>3. QED
    BY <1>6, <2>1, <2>2, GoesOnBusy
<1>7. ASSUME NEW o \in Slots,
             MainRejected(o) \/ PostRejected(o) \/ ChannelsRejected(o)
      PROVE  BusyInv'
  BY <1>5, <1>7 DEF MainRejected, PostRejected, ChannelsRejected
<1>8. ASSUME NEW o \in Slots,
             \/ LoginAnswered(o) \/ HealthAnswered(o) \/ PostAnswered(o)
             \/ ListAnswered(o) \/ StatsAnswered(o) \/ DetailsAnswered(o)
             \/ PollAnswered(o) \/ ChannelsAnswered(o)
      PROVE  BusyInv'
  <2>1. clashes' = clashes /\ \E r : Advance(o, r)
    BY <1>8 DEF LoginAnswered, HealthAnswered, PostAnswered, ListAnswered,
                StatsAnswered, DetailsAnswered, PollAnswered, ChannelsAnswered
  <2>2. QED
    BY <1>6, <2>1
<1>9. QED
  BY <1>2, <1>3, <1>4, <1>7, <1>8 DEF Next, Manager, MainLine, ChannelsLine

\* For any number of operations in flight, the buttons that look at busy are
\* disabled while one runs, until an operation that does not look starts
\* beside it.
THEOREM BusyIsTrue == Spec => []BusyTells
<1>1. Init => BusyInv
  BY DEF Init, BusyInv, BusyTells, InFlight
<1>2. BusyInv => BusyTells
  BY DEF BusyInv
<1>3. QED
  BY <1>1, <1>2, NextBusy, PTL DEF Spec
=============================================================================
