------------------------------ MODULE Frontend ------------------------------
(***************************************************************************)
(* The manager's console (src/frontend): one React component that keeps    *)
(* the session, the list of campaigns, the rows of one campaign and a      *)
(* single flag "busy", changed by asynchronous operations that overlap.    *)
(*                                                                         *)
(* An operation is a call of setBusyMessage.  Between two of its awaits    *)
(* other operations, clicks and timers run.  It reads the stored token     *)
(* when it sends a request, and React state from the render that started   *)
(* it (a closure).  Every action is one event of the browser's loop, or    *)
(* the API serving one request.                                            *)
(*                                                                         *)
(* The API is seen from here as what it may say of a campaign, a status    *)
(* and eight counters, and how that advances; the modules Delivery and     *)
(* Fanout have the detail.  Texts, health and layout are left out.         *)
(* CreateScreen is the screen of a new campaign.                           *)
(***************************************************************************)
EXTENDS Integers, FiniteSets, Adapters, CreateScreen

CONSTANTS
  Campaigns,    \* ids; a greater id was created later
  Snapshots,    \* bound: what the API may say of a campaign
  Initial,      \* what the API may have when the page is opened
  NoRecipients, \* forms for "selected" recipients without an id
  Slots,        \* bound: operations in flight
  MaxClicks,    \* bound: clicks, edits and reloads of the manager
  MaxFailures,  \* bound: answers that are errors or never come, and
                \* writes of localStorage that are refused
  MaxSessions   \* bound: logins, the first one before the page is opened

ASSUME FrontendAssumption ==
  /\ Campaigns \subseteq Nat \ {0} /\ IsFiniteSet(Campaigns)
  /\ NoRecipients \subseteq EmptyForms
  /\ Slots \subseteq Nat
  /\ MaxSessions \in Nat \ {0}
  /\ MaxClicks \in Nat
  /\ MaxFailures \in Nat

VARIABLES
  token,        \* React state: 0 or a session
  stored,       \* localStorage
  busy,
  running,      \* operations whose "finally" has not run
  kind,         \* which operation a slot holds
  op,           \* what each operation awaits, and its closure
  campaigns,    \* the list on the screen
  selected,     \* selectedCampaignId, or 0
  rowsOf,       \* the campaign of campaignRows and rawCampaignErrors, or 0
  creating,     \* screen = "campaign-new"
  refreshTimer, \* setTimeout of the effect on isAuthed: the selection in
                \* its closure, or -1
  detailsTimer, \* setTimeout of the effect on the selection, or 0
  server,       \* API: the campaigns
  sessions,     \* API: sessions opened so far
  valid,        \* API: sessions that have not expired
  clicks, failures,
  clashes       \* history: what on the screen is not to be relied on

screenVars == <<campaigns, selected, rowsOf>>
sessionVars == <<token, stored>>
timerVars == <<refreshTimer, detailsTimer>>
apiVars == <<server, sessions, valid>>
opVars == <<busy, running, kind, op>>
bounds == <<clicks, failures>>
vars == <<createVars, screenVars, sessionVars, timerVars, apiVars, opVars,
          creating, bounds, clashes>>

-----------------------------------------------------------------------------
(* The API's side *)

\* GET /campaigns/{id}/stats: a status and eight counters.
Counters == {"totalTasks", "queued", "sending", "succeeded", "failed",
             "retryScheduled", "deadLettered", "cancelled"}
NoTasks == [f \in Counters |-> 0]

\* The seven that count tasks.
Tasks(n) == n.queued + n.sending + n.succeeded + n.failed
              + n.retryScheduled + n.deadLettered + n.cancelled

\* No campaign, or no answer, which the screen takes for zeros.
Nothing == [status |-> "none", stats |-> NoTasks]
\* A campaign whose fan-out has not begun.
Created == [status |-> "running", stats |-> NoTasks]
Cancelling(s) == [s EXCEPT !.status = "cancelling"]

(***************************************************************************)
(* The counters of one answer add up, which is what Delivery's StatsInv    *)
(* says of them; those lost after a given up signal (Outbox) are left out. *)
(***************************************************************************)
ASSUME SnapshotsAssumption ==
  /\ Snapshots \subseteq [status : Statuses, stats : [Counters -> Nat]]
  /\ Created \in Snapshots
  /\ \A s \in Snapshots :
       /\ Tasks(s.stats) = s.stats.totalTasks
       /\ s.status = "running" => Cancelling(s) \in Snapshots

States == Snapshots \cup {Nothing}
ASSUME InitialAssumption == Initial \subseteq [Campaigns -> States]

NoData == [c \in Campaigns |-> Nothing]
Exists(c) == server[c] # Nothing

(* The screen's side. *)

NotListed == AdaptCampaign("none", Nothing.stats)
Listed == {c \in Campaigns : campaigns[c] # NotListed}

\* items[0]: the API lists the newest first.
Newest(S) == IF S = {} THEN 0 ELSE CHOOSE m \in S : \A n \in S : n <= m

\* campaigns.find(...) || campaigns[0]
SelectedCampaign == IF selected \in Listed THEN selected ELSE Newest(Listed)

(***************************************************************************)
(* op[o].at is the request of the operation's main line that is awaited    *)
(* ("idle": none); .chan says that loadChannels awaits one beside it.      *)
(* Both carry the token that was stored when they were sent.  .blank says  *)
(* that selectedCampaignId is "" in the closure, .late that the 12 s of    *)
(* waitCampaignCancelFinalized are over.                                   *)
(*                                                                         *)
(* What a read of stats or details returns may be old when it arrives:     *)
(* .read says that the API has answered, with .got.  Other requests are    *)
(* served when their answer arrives; .base is the list that was answered.  *)
(***************************************************************************)
Kinds == {"login", "refresh", "details", "create", "cancel", "toggle", "post"}
Awaits == {"idle", "health", "login", "post", "poll", "list", "stats",
           "details"}
Tokens == 0 .. MaxSessions
Operations ==
  [at : Awaits, tok : Tokens, chan : BOOLEAN, chanTok : Tokens,
   camp : Campaigns \cup {0}, blank : BOOLEAN, late : BOOLEAN,
   base : [Campaigns -> States],
   read : BOOLEAN, got : [Campaigns -> States]]

NoOp == [at |-> "idle", tok |-> 0, chan |-> FALSE, chanTok |-> 0,
         camp |-> 0, blank |-> FALSE, late |-> FALSE, base |-> NoData,
         read |-> FALSE, got |-> NoData]

InFlight == {o \in Slots : kind[o] # "free"}

\* The requests whose rejection is turned into null.
Caught == {"stats", "poll"}

\* What an operation may write.
Resources == {"busy", "list", "rows"}
Writes ==
  [login |-> {}, refresh |-> {"list"}, details |-> {"list", "rows"},
   create |-> {"list"}, cancel |-> {"list", "rows"}, toggle |-> {},
   post |-> {}]

Held(w) == \E o \in InFlight :
             IF w = "busy" THEN o \in running
             ELSE w \in Writes[kind[o]] /\ op[o].at # "idle"

TypeOK ==
  /\ CreateTypeOK
  /\ token \in Tokens /\ stored \in Tokens
  /\ busy \in BOOLEAN
  /\ running \subseteq Slots
  /\ kind \in [Slots -> Kinds \cup {"free"}]
  /\ op \in [Slots -> Operations]
  /\ \A c \in Campaigns : campaigns[c].status \in ShownStatuses \cup {"none"}
  /\ selected \in Campaigns \cup {0}
  /\ rowsOf \in Campaigns \cup {0}
  /\ creating \in BOOLEAN
  /\ refreshTimer \in Campaigns \cup {-1, 0}
  /\ detailsTimer \in Campaigns \cup {0}
  /\ server \in [Campaigns -> States]
  /\ sessions \in 1 .. MaxSessions
  /\ valid \subseteq 1 .. sessions
  /\ clicks \in 0 .. MaxClicks
  /\ failures \in 0 .. MaxFailures
  /\ clashes \subseteq Resources

\* The page is opened with the token of the first session still stored, or
\* with none.
Init ==
  /\ token \in {0, 1} /\ stored = token
  /\ Initially(FALSE)
  /\ busy = FALSE
  /\ running = {}
  /\ kind = [o \in Slots |-> "free"]
  /\ op = [o \in Slots |-> NoOp]
  /\ campaigns = [c \in Campaigns |-> NotListed]
  /\ selected = 0 /\ rowsOf = 0
  /\ creating = FALSE
  /\ refreshTimer = IF token = 0 THEN -1 ELSE 0
  /\ detailsTimer = 0
  /\ server \in Initial
  /\ sessions = 1 /\ valid = {1}
  /\ clicks = 0 /\ failures = 0
  /\ clashes = {}

-----------------------------------------------------------------------------
(* setBusyMessage *)

Click == clicks < MaxClicks /\ clicks' = clicks + 1
Fails == failures < MaxFailures /\ failures' = failures + 1

\* await request(...): the token is read when the request is sent.
Sent(r, at) == [r EXCEPT !.at = at, !.tok = stored, !.read = FALSE,
                         !.base = NoData, !.got = NoData]
SentChannels(r) == [r EXCEPT !.chan = TRUE, !.chanTok = stored]
Done(r) == [r EXCEPT !.at = "idle", !.tok = 0, !.read = FALSE,
                     !.base = NoData, !.got = NoData]
ChannelsDone(r) == [r EXCEPT !.chan = FALSE, !.chanTok = 0]

(***************************************************************************)
(* What two operations that overlap both write clashes, until one that     *)
(* writes it runs alone.  An operation started by a timer, or by a button  *)
(* that is not disabled while busy, may take "busy" away from another one. *)
(* A cancel request strays if the campaign chosen is not listed, so that   *)
(* another one is on the screen: it loads the rows of that one.            *)
(***************************************************************************)
Stray(k, camp) == IF k = "cancel" /\ camp # selected THEN {"rows"} ELSE {}
Guarded == {}
Unguarded == {"busy"}
Begin(k, at, camp, sel, taken) ==
  \E o \in Slots \ InFlight :
    /\ \A p \in Slots \ InFlight : o <= p
    /\ kind' = [kind EXCEPT ![o] = k]
    /\ op' = [op EXCEPT ![o] =
                Sent([NoOp EXCEPT !.camp = camp, !.blank = (sel = 0)], at)]
    /\ running' = running \cup {o}
    /\ busy' = TRUE
    /\ clashes' = {w \in Resources :
                     IF Held(w) THEN w \in clashes \cup Writes[k] \cup taken
                     ELSE w \in (clashes \ (Writes[k] \cup {"busy"}))
                                  \cup Stray(k, camp)}

\* Plausible bug: setBusy(false) is left out.
Faulty_Finally_StillBusy(o, done) ==
  /\ running' = IF done THEN running \ {o} ELSE running
  /\ busy' = busy

\* The finally of an operation; one that was rejected before has none left.
Finally(o, done) ==
  /\ running' = IF done THEN running \ {o} ELSE running
  /\ busy' = IF done /\ o \in running THEN FALSE ELSE busy

\* The operation goes on as r; it is over when it awaits nothing.
Over(r) == r.at = "idle" /\ ~r.chan
GoesOn(o, r) ==
  /\ op' = [op EXCEPT ![o] = IF Over(r) THEN NoOp ELSE r]
  /\ kind' = [kind EXCEPT ![o] = IF Over(r) THEN "free" ELSE @]
Advance(o, r) == GoesOn(o, r) /\ Finally(o, Over(r))

\* setStoredToken: the error of a storage that refuses is swallowed.
Store(s) == \/ stored' = s /\ UNCHANGED failures
            \/ UNCHANGED stored /\ Fails

\* The catch: a 401 ends the session.  A part of a Promise.all that is still
\* awaited when another is rejected goes on; its own rejection is nobody's.
SessionEnds ==
  /\ token' = 0 /\ Store(0)
  /\ refreshTimer' = -1 /\ detailsTimer' = 0
  /\ Unmount

\* 401: the session has expired, or the password is wrong.  Or an error, or
\* no answer; a request that was executed may fail so.
Rejected(o, r, t) ==
  /\ GoesOn(o, r)
  /\ Finally(o, TRUE)
  /\ \/ /\ valid' = valid \ {t}
        /\ IF o \in running THEN SessionEnds
           ELSE UNCHANGED <<sessionVars, timerVars, createVars, failures>>
     \/ /\ Fails
        /\ UNCHANGED <<valid, sessionVars, timerVars, createVars>>
  /\ UNCHANGED <<screenVars, sessions, creating, clicks, clashes>>

MainRejected(o) ==
  /\ op[o].at \in {"login", "list", "details"} /\ ~op[o].read
  /\ Rejected(o, Done(op[o]), IF op[o].at = "login" THEN 0 ELSE op[o].tok)
  /\ UNCHANGED server

ChannelsRejected(o) ==
  /\ op[o].chan
  /\ Rejected(o, ChannelsDone(op[o]), op[o].chanTok)
  /\ UNCHANGED server

-----------------------------------------------------------------------------
(* What the manager does. *)

\* Plausible bug: the button is not disabled while busy.
Faulty_Login_NotDisabled ==
  /\ token = 0
  /\ Click
  /\ Begin("login", "login", 0, selected, Guarded)
  /\ UNCHANGED <<screenVars, sessionVars, timerVars, createVars, apiVars,
                 creating, failures>>

Login ==
  /\ token = 0 /\ ~busy
  /\ Click
  /\ Begin("login", "login", 0, selected, Guarded)
  /\ UNCHANGED <<screenVars, sessionVars, timerVars, createVars, apiVars,
                 creating, failures>>

\* A button that calls setBusyMessage; it is shown to a manager logged in.
Press(k, at, camp, taken) ==
  /\ token # 0
  /\ Click
  /\ Begin(k, at, camp, selected, taken)
  /\ UNCHANGED <<screenVars, sessionVars, timerVars, createVars, apiVars,
                 creating, failures>>

\* Plausible bug: the button is not disabled while busy.
Faulty_Refresh_NotDisabled == Press("refresh", "health", 0, Guarded)
Refresh == ~busy /\ Press("refresh", "health", 0, Guarded)
Create == /\ mounted /\ ~busy
          /\ form \notin NoRecipients
          /\ Press("create", "post", 0, Guarded)
Import == ~creating /\ ~busy /\ Press("post", "post", 0, Guarded)
Cancel == /\ ~creating /\ SelectedCampaign # 0
          /\ Press("cancel", "post", SelectedCampaign, Unguarded)
Toggle == ~creating /\ Press("toggle", "post", 0, Unguarded)
Replay == ~creating /\ Press("post", "post", 0, Unguarded)

\* Plausible bug: the effect depends on isAuthed only.
Faulty_SelectionEffect_OnLogin(c) == detailsTimer' = detailsTimer

\* The effect on [isAuthed, selectedCampaignId], after it became c.
SelectionEffect(c) ==
  detailsTimer' = IF token # 0 /\ c # selected THEN c ELSE detailsTimer

Open(c) ==
  /\ token # 0 /\ ~creating /\ c \in Listed /\ c # selected
  /\ Click
  /\ selected' = c
  /\ SelectionEffect(c)
  /\ UNCHANGED <<campaigns, rowsOf, sessionVars, refreshTimer,
                 createVars, apiVars, opVars, creating, failures, clashes>>

\* No request, and nothing in flight is stopped.
Logout ==
  /\ token # 0
  /\ Click
  /\ SessionEnds
  /\ UNCHANGED <<screenVars, apiVars, opVars, creating, clashes>>

GoToCreate ==
  /\ token # 0 /\ ~creating
  /\ Click
  /\ creating' = TRUE
  /\ Mount
  /\ UNCHANGED <<screenVars, sessionVars, timerVars, apiVars, opVars,
                 failures, clashes>>

LeaveCreate ==
  /\ mounted
  /\ creating' = FALSE
  /\ Unmount
  /\ UNCHANGED <<screenVars, sessionVars, timerVars, apiVars, opVars, bounds,
                 clashes>>

EditForm ==
  /\ Click
  /\ \E f \in Forms : Edit(f)
  /\ UNCHANGED <<screenVars, sessionVars, timerVars, apiVars, opVars,
                 creating, failures, clashes>>

\* The page is loaded again: only localStorage is left.
Reload ==
  /\ Click
  /\ token' = stored /\ UNCHANGED stored
  /\ mounted' = FALSE /\ form' = FirstForm /\ timer' = FALSE /\ asked' = {}
  /\ estimate' = [of |-> NoForm, loading |-> FALSE, error |-> FALSE]
  /\ busy' = FALSE /\ running' = {}
  /\ kind' = [o \in Slots |-> "free"]
  /\ op' = [o \in Slots |-> NoOp]
  /\ campaigns' = [c \in Campaigns |-> NotListed]
  /\ selected' = 0 /\ rowsOf' = 0
  /\ creating' = FALSE
  /\ refreshTimer' = IF stored = 0 THEN -1 ELSE 0
  /\ detailsTimer' = 0
  /\ clashes' = {}
  /\ UNCHANGED <<apiVars, failures>>

-----------------------------------------------------------------------------
(* The timers of the effects. *)

FireRefresh ==
  /\ refreshTimer # -1
  /\ refreshTimer' = -1
  /\ Begin("refresh", "health", 0, refreshTimer, Unguarded)
  /\ UNCHANGED <<screenVars, sessionVars, detailsTimer, createVars, apiVars,
                 creating, bounds>>

FireDetails ==
  /\ detailsTimer # 0
  /\ detailsTimer' = 0
  /\ Begin("details", "details", detailsTimer, selected, Unguarded)
  /\ UNCHANGED <<screenVars, sessionVars, refreshTimer, createVars, apiVars,
                 creating, bounds>>

FireEstimate ==
  /\ AskEstimate
  /\ UNCHANGED <<screenVars, sessionVars, timerVars, apiVars, opVars,
                 creating, bounds, clashes>>

\* 12 s after the first request of waitCampaignCancelFinalized.
PollClock(o) ==
  /\ op[o].at = "poll" /\ ~op[o].late
  /\ op' = [op EXCEPT ![o].late = TRUE]
  /\ UNCHANGED <<screenVars, sessionVars, timerVars, createVars, apiVars,
                 busy, running, kind, creating, bounds, clashes>>

-----------------------------------------------------------------------------
(* The API.  What its workers did since it was asked last about a campaign, *)
(* and that a session has expired, is decided when a request finds out.     *)

\* finalize_campaign; a task that ends may be replayed, but what was
\* delivered, or created, stays.
Finalized(s) == CASE s = "running" -> Statuses \ {"cancelling"}
                  [] s = "cancelling" -> {"cancelling", "cancelled"}
                  [] OTHER -> {s}
Later(s) ==
  {t \in States :
     /\ t.status \in Finalized(s.status)
     /\ s.status = "running" /\ t.status = "cancelled"
          => t.stats.cancelled = t.stats.totalTasks
     /\ t.stats.succeeded >= s.stats.succeeded
     /\ t.stats.totalTasks >= s.stats.totalTasks}

Progress(C) ==
  \E f \in [C -> UNION {Later(server[c]) : c \in C}] :
    /\ \A c \in C : f[c] \in Later(server[c])
    /\ server' = [c \in Campaigns |-> IF c \in C THEN f[c] ELSE server[c]]

\* The campaigns that a read of stats or details asks about.
AsksFor(o) == IF op[o].at = "stats"
              THEN {c \in Campaigns : op[o].base[c] # Nothing}
              ELSE {op[o].camp}

\* The four requests of loadCampaignDetails are one; for an empty list of
\* campaigns no request of stats is sent.
ServeRead(o) ==
  /\ op[o].at \in {"details"} \cup Caught /\ ~op[o].read
  /\ AsksFor(o) # {} => op[o].tok \in valid
  /\ Progress(AsksFor(o))
  /\ op' = [op EXCEPT ![o] =
              [@ EXCEPT !.read = TRUE, !.tok = 0,
                        !.got = [c \in Campaigns |->
                          IF c \in AsksFor(o) THEN server'[c] ELSE Nothing]]]
  /\ UNCHANGED <<screenVars, sessionVars, timerVars, createVars, creating,
                 busy, running, kind, sessions, valid, bounds, clashes>>

\* A request that is caught is answered with null: all of them if the
\* session had expired, else one or more.  Stats that are lost are shown as
\* zeros (App.jsx:868), until the list is loaded again.
Lose(o) ==
  /\ op[o].at \in Caught /\ ~op[o].read
  /\ clashes' = IF op[o].at = "stats" THEN clashes \cup {"list"} ELSE clashes
  /\ \E lost \in SUBSET AsksFor(o) \ {{}} :
       /\ lost = AsksFor(o) \/ op[o].tok \in valid
       /\ \/ Fails /\ UNCHANGED valid
          \/ valid' = valid \ {op[o].tok} /\ UNCHANGED failures
       /\ op' = [op EXCEPT ![o] =
                   [@ EXCEPT !.read = TRUE, !.tok = 0,
                             !.got = [c \in Campaigns |->
                               IF c \in AsksFor(o) \ lost
                               THEN server[c] ELSE Nothing]]]
  /\ UNCHANGED <<screenVars, sessionVars, timerVars, createVars, creating,
                 busy, running, kind, server, sessions, clicks>>

-----------------------------------------------------------------------------
(* What an operation does with an answer. *)

LoginAnswered(o) ==
  /\ op[o].at = "login"
  /\ sessions < MaxSessions
  /\ sessions' = sessions + 1
  /\ valid' = valid \cup {sessions'}
  /\ Store(sessions') /\ token' = sessions'
  /\ IF token = 0
     THEN /\ refreshTimer' = selected /\ detailsTimer' = selected
          /\ IF creating THEN Mount ELSE UNCHANGED createVars
     ELSE UNCHANGED <<timerVars, createVars>>
  /\ Advance(o, NoOp)
  /\ UNCHANGED <<screenVars, server, creating, clicks, clashes>>

\* refreshAll: loadCampaigns and loadChannels side by side, whatever the
\* answers to loadHealth are.
HealthAnswered(o) ==
  /\ op[o].at = "health"
  /\ Advance(o, SentChannels(Sent(op[o], "list")))
  /\ UNCHANGED <<screenVars, sessionVars, timerVars, createVars, apiVars,
                 creating, bounds, clashes>>

\* POST of a campaign or of a cancel request.  A channel's state, replay and
\* import change nothing that is seen here.
Effect(o) ==
  CASE kind[o] = "create" ->
         server' = [c \in Campaigns |->
                      IF ~Exists(c) /\ \A d \in Campaigns : ~Exists(d) => c <= d
                      THEN Created ELSE server[c]]
    [] kind[o] = "cancel" ->
         \E s \in Later(server[op[o].camp]) :
           server' = [server EXCEPT ![op[o].camp] =
                        IF s.status = "running" THEN Cancelling(s) ELSE s]
    [] OTHER -> UNCHANGED server

PostAnswered(o) ==
  /\ op[o].at = "post" /\ op[o].tok \in valid
  /\ Effect(o)
  /\ Advance(o, CASE kind[o] = "create" -> Sent(op[o], "list")
                  [] kind[o] = "cancel" -> Sent(op[o], "poll")
                  [] kind[o] = "toggle" -> SentChannels(Done(op[o]))
                  [] OTHER -> NoOp)
  /\ UNCHANGED <<screenVars, sessionVars, timerVars, createVars, sessions,
                 valid, creating, bounds, clashes>>

PostRejected(o) ==
  /\ op[o].at = "post"
  /\ Rejected(o, NoOp, op[o].tok)
  /\ UNCHANGED server \/ (failures' # failures /\ Effect(o))

ListAnswered(o) ==
  /\ op[o].at = "list" /\ op[o].tok \in valid
  /\ Progress({c \in Campaigns : Exists(c)})
  /\ Advance(o, [Sent(op[o], "stats") EXCEPT !.base = server'])
  /\ UNCHANGED <<screenVars, sessionVars, timerVars, createVars, sessions,
                 valid, creating, bounds, clashes>>

\* The end of loadCampaigns, and what follows it in createCampaign and
\* cancelCampaign.
StatsAnswered(o) ==
  LET items == {c \in Campaigns : op[o].base[c] # Nothing}
      first == IF op[o].blank /\ items # {} THEN Newest(items) ELSE selected
  IN
  /\ op[o].at = "stats" /\ op[o].read
  /\ campaigns' = [c \in Campaigns |->
                     IF c \in items
                     THEN AdaptCampaign(op[o].base[c].status, op[o].got[c].stats)
                     ELSE NotListed]
  /\ selected' = first
  /\ SelectionEffect(first)
  /\ IF kind[o] = "create" /\ creating
     THEN creating' = FALSE /\ Unmount
     ELSE UNCHANGED <<creating, createVars>>
  /\ Advance(o, IF kind[o] = "cancel" THEN Sent(op[o], "details")
                ELSE Done(op[o]))
  /\ UNCHANGED <<rowsOf, sessionVars, refreshTimer, apiVars, bounds, clashes>>

\* The answer of loadChannels; what it says is not on a screen modelled.
ChannelsAnswered(o) ==
  /\ op[o].chan /\ op[o].chanTok \in valid
  /\ Advance(o, ChannelsDone(op[o]))
  /\ UNCHANGED <<screenVars, sessionVars, timerVars, createVars, apiVars,
                 creating, bounds, clashes>>

\* setCampaigns(prev => prev.map(...)): the answer s about campaign c.
Updated(c, s) ==
  [campaigns EXCEPT ![c] =
     IF c \in Listed
     THEN [status |-> MapCampaignStatus(s.status),
           stats  |-> NormalizeCampaignStats(s.stats)]
     ELSE @]

\* Plausible bug: the answer is written to the campaign that is selected now.
Faulty_DetailsAnswered_Selected(o) ==
  /\ op[o].at = "details" /\ op[o].read
  /\ campaigns' = Updated(SelectedCampaign, op[o].got[op[o].camp])
  /\ rowsOf' = op[o].camp
  /\ Advance(o, NoOp)
  /\ UNCHANGED <<selected, sessionVars, timerVars, createVars, apiVars,
                 creating, bounds, clashes>>

DetailsAnswered(o) ==
  LET c == op[o].camp IN
  /\ op[o].at = "details" /\ op[o].read
  /\ campaigns' = Updated(c, op[o].got[c])
  /\ rowsOf' = c
  /\ Advance(o, NoOp)
  /\ UNCHANGED <<selected, sessionVars, timerVars, createVars, apiVars,
                 creating, bounds, clashes>>

\* waitCampaignCancelFinalized: an answer that was lost is not written.
PollAnswered(o) ==
  LET c == op[o].camp
      s == op[o].got[c]
  IN
  /\ op[o].at = "poll" /\ op[o].read
  /\ campaigns' = IF s = Nothing THEN campaigns ELSE Updated(c, s)
  /\ Advance(o, IF s.status = "cancelled" \/ op[o].late
                THEN Sent([op[o] EXCEPT !.late = FALSE], "list")
                ELSE Sent(op[o], "poll"))
  /\ UNCHANGED <<selected, rowsOf, sessionVars, timerVars, createVars, apiVars,
                 creating, bounds, clashes>>

Estimate ==
  /\ \E a \in asked :
       \/ Estimated(a, TRUE) /\ UNCHANGED failures
       \/ Estimated(a, FALSE) /\ Fails
  /\ UNCHANGED <<screenVars, sessionVars, timerVars, apiVars, opVars,
                 creating, clicks, clashes>>

-----------------------------------------------------------------------------
Manager ==
  \/ Login \/ Refresh \/ Create \/ Import \/ Cancel \/ Toggle \/ Replay
  \/ \E c \in Campaigns : Open(c)
  \/ Logout \/ GoToCreate \/ LeaveCreate \/ EditForm \/ Reload

\* The main line of an operation, and the part of it that is loadChannels.
MainLine(o) ==
  \/ ServeRead(o) \/ Lose(o)
  \/ LoginAnswered(o) \/ HealthAnswered(o) \/ PostAnswered(o)
  \/ ListAnswered(o) \/ StatsAnswered(o) \/ DetailsAnswered(o)
  \/ PollAnswered(o) \/ PostRejected(o) \/ MainRejected(o)
ChannelsLine(o) == ChannelsAnswered(o) \/ ChannelsRejected(o)

Next ==
  \/ Manager
  \/ FireRefresh \/ FireDetails \/ FireEstimate \/ Estimate
  \/ \E o \in Slots : MainLine(o) \/ ChannelsLine(o) \/ PollClock(o)

\* The API answers or the browser gives a request up (request has no timeout
\* of its own, client.js:31), the event loop runs what is due, time passes.
Spec ==
  /\ Init /\ [][Next]_vars
  /\ \A o \in Slots : /\ WF_vars(MainLine(o))
                      /\ WF_vars(ChannelsLine(o))
                      /\ WF_vars(PollClock(o))
  /\ WF_vars(FireRefresh) /\ WF_vars(FireDetails)

-----------------------------------------------------------------------------
(***************************************************************************)
(* The buttons that are disabled while busy are so exactly while something *)
(* is running, as long as no button without that guard, and no timer,      *)
(* started something beside it (App.jsx:834-852, 317, 266, 484).           *)
(***************************************************************************)
BusyTells ==
  /\ busy => running # {}
  /\ "busy" \notin clashes => (running # {} => busy)

Resting == InFlight = {} /\ refreshTimer = -1 /\ detailsTimer = 0
           /\ token # 0 /\ failures = 0

(***************************************************************************)
(* At rest the rows and the issues are those of the campaign chosen,       *)
(* whatever was opened, cancelled, refreshed, or logged out of meanwhile,  *)
(* unless two loads of rows overlapped, or a campaign was cancelled that   *)
(* was shown for want of the one chosen (App.jsx:880-905, 951-957, 964).   *)
(***************************************************************************)
RowsOfSelected ==
  Resting /\ selected # 0 /\ "rows" \notin clashes => rowsOf = selected

(***************************************************************************)
(* The parts of a campaign's bar add up to its total, whether the list,    *)
(* details or a poll wrote it: none of the API's counters is left out or   *)
(* counted twice, in either copy of the conversion (adapters.js:16-22,     *)
(* App.jsx:116-124, 670-675).                                              *)
(***************************************************************************)
BarsAddUp ==
  \A c \in Listed : Bar(campaigns[c].stats) = campaigns[c].stats.total

Rank(status) == CASE status = "sending" -> 0
                  [] status = "cancelling" -> 1
                  [] OTHER -> 2

(***************************************************************************)
(* What the manager sees of a campaign never goes back, although the list  *)
(* has its status from one request and its counters from a later one, and  *)
(* details and polls write the same entry; whoever is logged in, and       *)
(* whatever was refused, unless two operations that write the list         *)
(* overlapped or stats were lost since it was last loaded (App.jsx:868).   *)
(***************************************************************************)
ShownNeverGoesBack ==
  [][\A c \in Campaigns :
       c \in Listed /\ c \in Listed' /\ "list" \notin clashes
       => /\ Rank(campaigns'[c].status) >= Rank(campaigns[c].status)
          /\ campaigns'[c].stats.delivered >= campaigns[c].stats.delivered
    ]_vars

(***************************************************************************)
(* A session that the API still accepts, and that is the stored one, is    *)
(* ended by the manager only: the refusal of a request sent with an older  *)
(* token, or with none, never ends a newer one (App.jsx:842-845), unless   *)
(* operations overlapped.  Where localStorage refused the token of a login *)
(* (session.js:18-20) its session ends with the first request, which does  *)
(* not carry it.                                                           *)
(***************************************************************************)
GoodSessionStays ==
  [][(/\ token \in valid' /\ stored = token
      /\ token' = 0 /\ "busy" \notin clashes)
       => clicks' # clicks]_vars

\* The buttons are not disabled for ever (App.jsx:849-851), given that every
\* request ends.
Unlocks == busy ~> ~busy

\* The rows of a campaign that was chosen appear, unless another one is
\* chosen, the session ends, a request fails or two loads of rows overlap
\* (App.jsx:951-957).
RowsFollow ==
  \A c \in Campaigns :
    (selected = c /\ token # 0)
      ~> (rowsOf = c \/ selected # c \/ token = 0 \/ failures # 0
          \/ "rows" \in clashes)
=============================================================================
