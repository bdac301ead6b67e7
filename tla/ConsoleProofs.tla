---------------------------- MODULE ConsoleProofs ----------------------------
(***************************************************************************)
(* More proofs about the manager's console, for any number of operations   *)
(* in flight, campaigns, sessions, clicks and failures: what the screen    *)
(* shows, and when a session ends.  FrontendProofs has the busy flag and   *)
(* the create screen; here op is typed, and an operation awaits only what  *)
(* its code awaits.                                                        *)
(***************************************************************************)
EXTENDS FrontendProofs, FiniteSetTheorems, WellFoundedInduction

-----------------------------------------------------------------------------
(* The newest of a set of campaigns *)

\* A finite set of numbers has a greatest one: the one that the fewest are
\* not less than.
LEMMA Greatest ==
  ASSUME NEW S, S \subseteq Nat, IsFiniteSet(S), S # {}
  PROVE  \E m \in S : \A n \in S : n <= m
<1> DEFINE From(m) == {n \in S : m <= n}
           Froms == {From(m) : m \in S}
<1>1. Froms \subseteq FiniteSubsetsOf(S) /\ Froms # {}
  <2>1. \A m \in S : From(m) \subseteq S
    OBVIOUS
  <2>2. \A U \in Froms : U \in SUBSET S
    BY <2>1
  <2>3. PICK m \in S : TRUE
    OBVIOUS
  <2>4. From(m) \in Froms
    OBVIOUS
  <2> HIDE DEF Froms
  <2>5. QED
    BY <2>2, <2>4, FS_FiniteSubsetsOfFinite
<1>2. PICK T \in Froms : \A U \in Froms : <<U, T>> \notin StrictSubsetOrdering(S)
  BY <1>1, FS_StrictSubsetOrderingWellFounded, WFMin
<1>3. PICK m \in S : T = From(m)
  BY <1>2
<1>4. ASSUME NEW n \in S, m < n PROVE FALSE
  <2>1. From(n) \subseteq From(m)
    <3>1. ASSUME NEW l \in S, n <= l PROVE m <= l
      <4>1. m \in Nat /\ n \in Nat /\ l \in Nat
        OBVIOUS
      <4>2. QED
        BY <1>4, <3>1, <4>1
    <3>2. QED
      BY <3>1
  <2>2. m \in From(m) /\ m \notin From(n)
    <3>1. m \in Nat /\ n \in Nat
      OBVIOUS
    <3>2. m <= m /\ ~(n <= m)
      BY <1>4, <3>1
    <3>3. QED
      BY <3>2
  <2>3. From(n) \in Froms /\ From(n) \in SUBSET S /\ From(m) \in SUBSET S
    OBVIOUS
  <2> HIDE DEF From, Froms
  <2>4. <<From(n), T>> \in StrictSubsetOrdering(S)
    BY <1>3, <2>1, <2>2, <2>3 DEF StrictSubsetOrdering
  <2>5. QED
    BY <1>2, <2>3, <2>4
<1>5. \A n \in S : n <= m
  BY <1>4
<1>6. QED
  BY <1>5

LEMMA NewestIsOne ==
  ASSUME NEW S, S \subseteq Campaigns
  PROVE  /\ S = {} => Newest(S) = 0
         /\ S # {} => Newest(S) \in S
<1>1. IsFiniteSet(S) /\ S \subseteq Nat
  BY FrontendAssumption, FS_Subset
<1>2. ASSUME S # {} PROVE Newest(S) \in S
  <2>1. \E m \in S : \A n \in S : n <= m
    BY <1>1, <1>2, Greatest
  <2>2. QED
    BY <1>2, <2>1 DEF Newest
<1>3. QED
  BY <1>2 DEF Newest

-----------------------------------------------------------------------------
(* Operations *)

LEMMA NoDataType == NoData \in [Campaigns -> States]
  BY DEF NoData, States

LEMMA NoOpShape ==
  /\ NoOp \in Operations
  /\ NoOp.at = "idle" /\ ~NoOp.chan /\ ~NoOp.read /\ NoOp.camp = 0
  /\ NoOp.tok = 0 /\ NoOp.base = NoData /\ NoOp.got = NoData
<1>1. 0 \in Tokens
  BY FrontendAssumption DEF Tokens
<1>2. QED
  BY <1>1, NoDataType DEF NoOp, Operations, Awaits

\* What a request that is sent leaves of the operation, and what it sets.
LEMMA SentShape ==
  ASSUME NEW r \in Operations, NEW at \in Awaits, stored \in Tokens
  PROVE  /\ Sent(r, at) \in Operations
         /\ Sent(r, at).at = at /\ Sent(r, at).tok = stored
         /\ ~Sent(r, at).read
         /\ Sent(r, at).base = NoData /\ Sent(r, at).got = NoData
         /\ Sent(r, at).chan = r.chan /\ Sent(r, at).chanTok = r.chanTok
         /\ Sent(r, at).camp = r.camp
  BY NoDataType DEF Sent, Operations

LEMMA DoneShape ==
  ASSUME NEW r \in Operations
  PROVE  /\ Done(r) \in Operations
         /\ Done(r).at = "idle" /\ ~Done(r).read
         /\ Done(r).base = NoData /\ Done(r).got = NoData
         /\ Done(r).chan = r.chan /\ Done(r).chanTok = r.chanTok
         /\ Done(r).camp = r.camp
<1>1. 0 \in Tokens
  BY FrontendAssumption DEF Tokens
<1>2. QED
  BY <1>1, NoDataType DEF Done, Operations, Awaits

LEMMA ChannelsShape ==
  ASSUME NEW r \in Operations, stored \in Tokens
  PROVE  /\ SentChannels(r) \in Operations /\ ChannelsDone(r) \in Operations
         /\ SentChannels(r).chan /\ SentChannels(r).chanTok = stored
         /\ ~ChannelsDone(r).chan
         /\ SentChannels(r) = [r EXCEPT !.chan = TRUE, !.chanTok = stored]
         /\ \A q \in {SentChannels(r), ChannelsDone(r)} :
              /\ q.at = r.at /\ q.tok = r.tok /\ q.read = r.read
              /\ q.camp = r.camp /\ q.base = r.base /\ q.got = r.got
<1>1. 0 \in Tokens
  BY FrontendAssumption DEF Tokens
<1>2. QED
  BY <1>1 DEF SentChannels, ChannelsDone, Operations


-----------------------------------------------------------------------------
(* Which requests an operation awaits *)

Awaited ==
  [free    |-> {"idle"},
   login   |-> {"login"},
   refresh |-> {"health", "list", "stats", "idle"},
   details |-> {"details"},
   create  |-> {"post", "list", "stats"},
   cancel  |-> {"post", "poll", "list", "stats", "details"},
   toggle  |-> {"post", "idle"},
   post    |-> {"post"}]

\* An operation of kind k in state r; runs: its finally has not run.  Only
\* refreshAll and the toggle load the channels, and only these can be in
\* flight when they run no more: what is left of their Promise.all.
Fits(k, r, runs) ==
  /\ r.at \in Awaited[k]
  /\ r.chan => k \in {"refresh", "toggle"}
  /\ k \in {"login", "details", "create", "cancel", "post"} => runs
  /\ r.read => r.at \in {"details"} \cup Caught
  /\ k \in {"details", "cancel"} => r.camp # 0

OpsInv ==
  /\ op \in [Slots -> Operations]
  /\ kind \in [Slots -> Kinds \cup {"free"}]
  /\ running \subseteq Slots
  /\ \A o \in Slots : Fits(kind[o], op[o], o \in running)

OthersKept(o) ==
  \A p \in Slots \ {o} : /\ op'[p] = op[p] /\ kind'[p] = kind[p]
                         /\ p \in running' <=> p \in running

\* The operation that a Begin adds.
Added(o, k, at, camp) ==
  /\ kind[o] = "free" /\ kind'[o] = k
  /\ running' = running \cup {o}
  /\ op'[o].at = at /\ op'[o].tok = stored /\ op'[o].camp = camp
  /\ ~op'[o].chan /\ ~op'[o].read
  /\ op'[o].base = NoData /\ op'[o].got = NoData
  /\ OthersKept(o)

LEMMA BeginShape ==
  ASSUME OpsInv, stored \in Tokens,
         NEW k \in Kinds, NEW at \in Awaits, NEW camp \in Campaigns \cup {0},
         NEW sel, NEW taken, Begin(k, at, camp, sel, taken)
  PROVE  /\ op' \in [Slots -> Operations]
         /\ kind' \in [Slots -> Kinds \cup {"free"}]
         /\ busy' = TRUE /\ clashes' \subseteq Resources
         /\ \E o \in Slots : Added(o, k, at, camp)
<1> DEFINE r == [NoOp EXCEPT !.camp = camp, !.blank = (sel = 0)]
           s == Sent(r, at)
<1>1. PICK o \in Slots \ InFlight :
        /\ kind' = [kind EXCEPT ![o] = k]
        /\ op' = [op EXCEPT ![o] = s]
        /\ running' = running \cup {o}
        /\ busy' = TRUE
  BY DEF Begin
<1>2. clashes' \subseteq Resources
  BY DEF Begin
<1>3. /\ r \in Operations /\ r.camp = camp /\ ~r.chan
  BY NoOpShape DEF Operations
<1> HIDE DEF r
<1>4. /\ s \in Operations /\ s.at = at /\ s.tok = stored /\ ~s.read
      /\ s.base = NoData /\ s.got = NoData
      /\ ~s.chan /\ s.camp = camp
  BY <1>3, SentShape
<1> HIDE DEF s
<1>5. kind[o] = "free" /\ op'[o] = s /\ kind'[o] = k /\ OthersKept(o)
  BY <1>1 DEF OpsInv, InFlight, OthersKept
<1>6. /\ op' \in [Slots -> Operations]
      /\ kind' \in [Slots -> Kinds \cup {"free"}]
  BY <1>1, <1>4 DEF OpsInv
<1>7. Added(o, k, at, camp)
  BY <1>1, <1>4, <1>5 DEF Added
<1>8. QED
  BY <1>1, <1>2, <1>6, <1>7

LEMMA BeginFits ==
  ASSUME OpsInv, stored \in Tokens,
         NEW k \in Kinds, NEW at \in Awaits, NEW camp \in Campaigns \cup {0},
         NEW sel, NEW taken, Begin(k, at, camp, sel, taken),
         at \in Awaited[k], k \in {"details", "cancel"} => camp # 0
  PROVE  OpsInv'
<1>1. PICK o \in Slots : Added(o, k, at, camp)
  BY BeginShape
<1>2. Fits(kind'[o], op'[o], o \in running')
  BY <1>1 DEF Added, Fits
<1>3. ASSUME NEW p \in Slots \ {o} PROVE Fits(kind'[p], op'[p], p \in running')
  <2>1. Fits(kind[p], op[p], p \in running)
    BY DEF OpsInv
  <2>2. kind'[p] = kind[p] /\ op'[p] = op[p] /\ (p \in running' <=> p \in running)
    BY <1>1 DEF Added, OthersKept
  <2>3. QED
    BY <2>1, <2>2 DEF Fits
<1>4. /\ op' \in [Slots -> Operations]
      /\ kind' \in [Slots -> Kinds \cup {"free"}]
      /\ running' \subseteq Slots
  BY <1>1, BeginShape DEF Added, OpsInv
<1>5. QED
  BY <1>2, <1>3, <1>4 DEF OpsInv

\* An operation that goes on, or is over.
LEMMA GoesOnShape ==
  ASSUME OpsInv, NEW o \in Slots, NEW r \in Operations, NEW done \in BOOLEAN,
         GoesOn(o, r), Finally(o, done)
  PROVE  /\ op' \in [Slots -> Operations]
         /\ kind' \in [Slots -> Kinds \cup {"free"}]
         /\ running' = IF done THEN running \ {o} ELSE running
         /\ Over(r) => kind'[o] = "free" /\ op'[o] = NoOp
         /\ ~Over(r) => kind'[o] = kind[o] /\ op'[o] = r
         /\ OthersKept(o)
  BY NoOpShape DEF OpsInv, GoesOn, Finally, OthersKept

LEMMA GoesOnFits ==
  ASSUME OpsInv, NEW o \in Slots, NEW r \in Operations, NEW done \in BOOLEAN,
         GoesOn(o, r), Finally(o, done),
         ~Over(r) => Fits(kind[o], r, o \in running /\ ~done)
  PROVE  OpsInv'
<1>1. Fits(kind'[o], op'[o], o \in running')
  <2>1. CASE Over(r)
    <3>1. kind'[o] = "free" /\ op'[o] = NoOp
      BY <2>1, GoesOnShape
    <3>2. QED
      BY <3>1, NoOpShape DEF Fits, Awaited
  <2>2. CASE ~Over(r)
    <3>1. o \in running' <=> o \in running /\ ~done
      BY GoesOnShape
    <3>2. QED
      BY <2>2, <3>1, GoesOnShape DEF Fits
  <2>3. QED
    BY <2>1, <2>2
<1>2. ASSUME NEW p \in Slots \ {o} PROVE Fits(kind'[p], op'[p], p \in running')
  <2>1. Fits(kind[p], op[p], p \in running)
    BY DEF OpsInv
  <2>2. kind'[p] = kind[p] /\ op'[p] = op[p] /\ (p \in running' <=> p \in running)
    BY GoesOnShape DEF OthersKept
  <2>3. QED
    BY <2>1, <2>2 DEF Fits
<1>3. /\ op' \in [Slots -> Operations]
      /\ kind' \in [Slots -> Kinds \cup {"free"}]
      /\ running' \subseteq Slots
  BY GoesOnShape DEF OpsInv
<1>4. QED
  BY <1>1, <1>2, <1>3 DEF OpsInv

\* An operation whose answer arrives, or whose clock runs, and goes on
\* waiting.
LEMMA WaitsFits ==
  ASSUME OpsInv, NEW o \in Slots, NEW r \in Operations,
         op' = [op EXCEPT ![o] = r], UNCHANGED <<kind, running>>,
         r.at = op[o].at, r.chan = op[o].chan, r.camp = op[o].camp,
         r.read => r.at \in {"details"} \cup Caught
  PROVE  OpsInv' /\ OthersKept(o) /\ op'[o] = r
<1>1. op' \in [Slots -> Operations] /\ op'[o] = r /\ OthersKept(o)
  BY DEF OpsInv, OthersKept
<1>2. ASSUME NEW p \in Slots PROVE Fits(kind'[p], op'[p], p \in running')
  <2>1. Fits(kind[p], op[p], p \in running)
    BY DEF OpsInv
  <2>2. CASE p = o
    BY <1>1, <2>1, <2>2 DEF Fits
  <2>3. CASE p # o
    BY <1>1, <2>1, <2>3 DEF OthersKept
  <2>4. QED
    BY <2>2, <2>3
<1>3. QED
  BY <1>1, <1>2 DEF OpsInv


-----------------------------------------------------------------------------
(* The API's campaigns *)

\* What a campaign may have become; what was delivered stays.
Becomes(s) == CASE s = "running" -> Statuses
                [] s = "cancelling" -> {"cancelling", "cancelled"}
                [] OTHER -> {s}
After ==
  [s \in States |->
     IF s = Nothing THEN States
     ELSE {t \in Snapshots : /\ t.status \in Becomes(s.status)
                             /\ t.stats.succeeded >= s.stats.succeeded}]

ServerType == server \in [Campaigns -> States]

LEMMA SnapshotShape ==
  ASSUME NEW s \in Snapshots
  PROVE  /\ s \in States /\ s # Nothing
         /\ s.status \in Statuses
         /\ s.stats \in [Counters -> Nat]
         /\ s.stats.succeeded \in Nat
<1>1. s.status \in Statuses /\ s.stats \in [Counters -> Nat]
  BY SnapshotsAssumption
<1>2. "succeeded" \in Counters
  BY DEF Counters
<1>3. s.status # "none"
  BY <1>1 DEF Statuses
<1>4. s # Nothing
  BY <1>3 DEF Nothing
<1>5. s.stats.succeeded \in Nat
  BY <1>1, <1>2
<1>6. QED
  BY <1>1, <1>4, <1>5 DEF States

LEMMA CancellingShape ==
  ASSUME NEW s \in Snapshots, s.status = "running"
  PROVE  /\ Cancelling(s) \in Snapshots
         /\ Cancelling(s).status = "cancelling"
         /\ Cancelling(s).stats = s.stats
<1>1. s \in [status : Statuses, stats : [Counters -> Nat]]
  BY SnapshotsAssumption
<1>2. /\ Cancelling(s).status = "cancelling"
      /\ Cancelling(s).stats = s.stats
  BY <1>1 DEF Cancelling
<1>3. QED
  BY <1>2, SnapshotsAssumption

LEMMA AfterOrder ==
  /\ \A s \in States : s \in After[s] /\ After[s] \subseteq States
  /\ \A s, u \in States : u \in After[s] => After[u] \subseteq After[s]
  /\ After[Nothing] = States
  /\ \A s \in States : Later(s) \subseteq After[s]
  /\ \A s \in States \ {Nothing} : Nothing \notin After[s]
<1>1. Nothing \in States /\ After[Nothing] = States
  BY DEF States, After
<1>2. ASSUME NEW s \in Snapshots
      PROVE  After[s] = {t \in Snapshots : /\ t.status \in Becomes(s.status)
                                           /\ t.stats.succeeded >= s.stats.succeeded}
  BY SnapshotShape DEF After
<1>3. ASSUME NEW s \in Snapshots
      PROVE  /\ s \in After[s] /\ After[s] \subseteq Snapshots
             /\ Later(s) \subseteq After[s] /\ Nothing \notin After[s]
  <2>1. s.status \in Statuses /\ s.stats.succeeded \in Nat
    BY SnapshotShape
  <2>2. s.status \in Becomes(s.status)
    BY <2>1 DEF Becomes
  <2>3. s.stats.succeeded >= s.stats.succeeded
    BY <2>1
  <2>4. s \in After[s]
    BY <1>2, <2>2, <2>3
  <2>5. After[s] \subseteq Snapshots
    BY <1>2
  <2>6. Nothing \notin After[s]
    BY <2>5, SnapshotShape
  <2>7. ASSUME NEW t \in Later(s) PROVE t \in After[s]
    <3>1. /\ t \in States /\ t.status \in Finalized(s.status)
          /\ t.stats.succeeded >= s.stats.succeeded
      BY <2>7 DEF Later
    <3>2. t.status \in Becomes(s.status) /\ t.status \in Statuses
      BY <2>1, <3>1 DEF Finalized, Becomes, Statuses
    <3>3. t # Nothing
      BY <3>2 DEF Nothing, Statuses
    <3>4. t \in Snapshots
      BY <3>1, <3>3 DEF States
    <3>5. QED
      BY <1>2, <3>1, <3>2, <3>4
  <2>8. QED
    BY <2>4, <2>5, <2>6, <2>7
<1>4. ASSUME NEW s \in Snapshots, NEW u \in After[s], NEW t \in After[u]
      PROVE  t \in After[s]
  <2>1. u \in Snapshots
    BY <1>3
  <2>2. /\ u.status \in Becomes(s.status)
        /\ u.stats.succeeded >= s.stats.succeeded
    BY <1>2
  <2>3. /\ t \in Snapshots /\ t.status \in Becomes(u.status)
        /\ t.stats.succeeded >= u.stats.succeeded
    BY <1>2, <2>1
  <2>4. /\ s.stats.succeeded \in Nat /\ u.stats.succeeded \in Nat
        /\ t.stats.succeeded \in Nat
        /\ s.status \in Statuses /\ u.status \in Statuses /\ t.status \in Statuses
    BY <2>1, <2>3, SnapshotShape
  <2>5. t.stats.succeeded >= s.stats.succeeded
    BY <2>2, <2>3, <2>4
  <2>6. t.status \in Becomes(s.status)
    BY <2>2, <2>3, <2>4 DEF Becomes, Statuses
  <2>7. QED
    BY <1>2, <2>3, <2>5, <2>6
<1>5. \A s \in States : s = Nothing \/ s \in Snapshots
  BY DEF States
<1>6. Snapshots \subseteq States /\ Later(Nothing) \subseteq States
  BY DEF States, Later
<1>7. \A s \in States : s \in After[s] /\ After[s] \subseteq States
  BY <1>1, <1>3, <1>5, <1>6
<1>8. \A s, u \in States : u \in After[s] => After[u] \subseteq After[s]
  <2> SUFFICES ASSUME NEW s \in States, NEW u \in States, u \in After[s]
               PROVE  After[u] \subseteq After[s]
    OBVIOUS
  <2>1. CASE s = Nothing
    BY <1>1, <1>7, <2>1
  <2>2. CASE s \in Snapshots
    BY <1>4, <2>2
  <2>3. QED
    BY <1>5, <2>1, <2>2
<1>9. \A s \in States : Later(s) \subseteq After[s]
  BY <1>1, <1>3, <1>5, <1>6
<1>10. \A s \in States \ {Nothing} : Nothing \notin After[s]
  BY <1>3, <1>5
<1>11. QED
  BY <1>1, <1>7, <1>8, <1>9, <1>10

LEMMA ProgressMoves ==
  ASSUME ServerType, NEW C \in SUBSET Campaigns, Progress(C)
  PROVE  ServerType' /\ \A c \in Campaigns : server'[c] \in After[server[c]]
<1>1. PICK f : /\ \A c \in C : f[c] \in Later(server[c])
               /\ server' = [c \in Campaigns |-> IF c \in C THEN f[c] ELSE server[c]]
  BY DEF Progress
<1>2. ASSUME NEW c \in Campaigns
      PROVE  server'[c] \in After[server[c]] /\ server'[c] \in States
  <2>1. server[c] \in States
    BY DEF ServerType
  <2>2. server'[c] = server[c] \/ server'[c] \in Later(server[c])
    BY <1>1
  <2>3. QED
    BY <2>1, <2>2, AfterOrder
<1>3. QED
  BY <1>1, <1>2 DEF ServerType

LEMMA EffectMoves ==
  ASSUME ServerType, NEW o, op[o].camp \in Campaigns \cup {0}, Effect(o)
  PROVE  ServerType' /\ \A c \in Campaigns : server'[c] \in After[server[c]]
<1>a. \A c \in Campaigns : server[c] \in States /\ server[c] \in After[server[c]]
  BY AfterOrder DEF ServerType
<1>1. CASE kind[o] = "create"
  <2>1. /\ server' \in [Campaigns -> {server'[c] : c \in Campaigns}]
        /\ \A c \in Campaigns : \/ server'[c] = server[c]
                                \/ server[c] = Nothing /\ server'[c] = Created
    BY <1>1 DEF Effect, Exists
  <2>2. Created \in States
    BY SnapshotsAssumption DEF States
  <2>3. \A c \in Campaigns : server'[c] \in States /\ server'[c] \in After[server[c]]
    BY <1>a, <2>1, <2>2, AfterOrder
  <2>4. QED
    BY <2>1, <2>3 DEF ServerType
<1>2. CASE kind[o] = "cancel"
  <2>1. PICK s \in Later(server[op[o].camp]) :
          server' = [server EXCEPT ![op[o].camp] =
                       IF s.status = "running" THEN Cancelling(s) ELSE s]
    BY <1>2 DEF Effect
  <2>2. CASE op[o].camp \notin Campaigns
    <3>1. server' = server
      BY <2>1, <2>2 DEF ServerType
    <3>2. QED
      BY <1>a, <3>1 DEF ServerType
  <2>3. CASE op[o].camp \in Campaigns
    <3> DEFINE d == op[o].camp
               t == IF s.status = "running" THEN Cancelling(s) ELSE s
    <3>1. server[d] \in States /\ s \in Later(server[d])
      BY <1>a, <2>1, <2>3
    <3>2. t \in States /\ t \in After[server[d]]
      <4>1. s \in States /\ s \in After[server[d]]
        BY <3>1, AfterOrder
      <4>2. CASE s.status # "running"
        BY <4>1, <4>2
      <4>3. CASE s.status = "running"
        <5>1. s \in Snapshots
          BY <4>1, <4>3 DEF States, Nothing
        <5>2. t = Cancelling(s) /\ t \in Snapshots /\ t \in States
          BY <4>3, <5>1, CancellingShape DEF States
        <5>3. t \in After[s]
          <6>1. s.stats.succeeded \in Nat /\ s # Nothing /\ s \in States
            BY <5>1, SnapshotShape
          <6>2. t.status = "cancelling" /\ t.stats = s.stats
            BY <4>3, <5>1, <5>2, CancellingShape
          <6>3. t.status \in Becomes(s.status)
            BY <4>3, <6>2 DEF Becomes, Statuses
          <6>4. t.stats.succeeded >= s.stats.succeeded
            BY <6>1, <6>2
          <6>5. QED
            BY <5>2, <6>1, <6>3, <6>4 DEF After
        <5>4. QED
          BY <3>1, <4>1, <5>2, <5>3, AfterOrder DEF ServerType
      <4>4. QED
        BY <4>2, <4>3
    <3>3. /\ server' \in [Campaigns -> States]
          /\ server'[d] = t /\ \A c \in Campaigns \ {d} : server'[c] = server[c]
      BY <2>1, <2>3, <3>2 DEF ServerType
    <3>4. QED
      BY <1>a, <3>2, <3>3 DEF ServerType
  <2>4. QED
    BY <2>2, <2>3
<1>3. CASE kind[o] \notin {"create", "cancel"}
  <2>1. server' = server
    BY <1>3 DEF Effect
  <2>2. QED
    BY <1>a, <2>1 DEF ServerType
<1>4. QED
  BY <1>1, <1>2, <1>3

\* A campaign never goes back, whichever step is taken.
LEMMA ServerMoves ==
  ASSUME ServerType, OpsInv, [Next]_vars
  PROVE  ServerType' /\ \A c \in Campaigns : server'[c] \in After[server[c]]
<1> DEFINE P == ServerType' /\ \A c \in Campaigns : server'[c] \in After[server[c]]
<1> USE DEF apiVars
<1>1. ASSUME server' = server PROVE P
  BY <1>1, AfterOrder DEF ServerType
<1>2. ASSUME NEW o \in Slots PROVE op[o].camp \in Campaigns \cup {0}
  BY DEF OpsInv, Operations
<1>3. CASE Manager \/ FireRefresh \/ FireDetails \/ FireEstimate \/ Estimate \/ UNCHANGED vars
  <2>1. server' = server
    BY <1>3 DEF Manager, Login, Refresh, Create, Import, Cancel, Toggle, Replay,
         Press, Open, Logout, GoToCreate, LeaveCreate, EditForm, Reload,
         FireRefresh, FireDetails, FireEstimate, Estimate, vars
  <2>2. QED
    BY <1>1, <2>1
<1>4. ASSUME NEW o \in Slots, ServeRead(o) PROVE P
  <2>1. Progress(AsksFor(o))
    BY <1>4 DEF ServeRead
  <2>2. CASE AsksFor(o) \subseteq Campaigns
    BY <2>1, <2>2, ProgressMoves
  <2>3. CASE ~(AsksFor(o) \subseteq Campaigns)
    <3>1. AsksFor(o) = {0} /\ 0 \notin Campaigns
      BY <1>2, <2>3, FrontendAssumption DEF AsksFor
    <3>2. server' = [c \in Campaigns |-> server[c]]
      BY <2>1, <3>1 DEF Progress
    <3>3. QED
      BY <1>1, <3>2 DEF ServerType
  <2>4. QED
    BY <2>2, <2>3
<1>5. ASSUME NEW o \in Slots, ListAnswered(o) PROVE P
  <2>1. /\ Progress({c \in Campaigns : Exists(c)})
        /\ {c \in Campaigns : Exists(c)} \in SUBSET Campaigns
    BY <1>5 DEF ListAnswered
  <2>2. QED
    BY <2>1, ProgressMoves
<1>6. ASSUME NEW o \in Slots, PostAnswered(o) \/ PostRejected(o) PROVE P
  <2>1. Effect(o) \/ server' = server
    BY <1>6 DEF PostAnswered, PostRejected
  <2>2. QED
    BY <1>1, <1>2, <2>1, EffectMoves
<1>7. ASSUME NEW o \in Slots,
             \/ Lose(o) \/ LoginAnswered(o) \/ HealthAnswered(o)
             \/ StatsAnswered(o) \/ DetailsAnswered(o) \/ PollAnswered(o)
             \/ MainRejected(o) \/ ChannelsAnswered(o) \/ ChannelsRejected(o)
             \/ PollClock(o)
      PROVE  P
  <2>1. server' = server
    BY <1>7 DEF Lose, LoginAnswered, HealthAnswered, StatsAnswered,
         DetailsAnswered, PollAnswered, MainRejected, ChannelsAnswered,
         ChannelsRejected, PollClock
  <2>2. QED
    BY <1>1, <2>1
<1>8. QED
  BY <1>3, <1>4, <1>5, <1>6, <1>7 DEF Next, MainLine, ChannelsLine


-----------------------------------------------------------------------------
(* What is kept has its type *)

\* An entry of the list; its counters may be older or newer than its status.
Entries == {AdaptCampaign(s.status, g.stats) : s \in States, g \in States}

\* App.jsx's copies of the conversions agree with those of adapters.js.
LEMMA Alike ==
  /\ \A n : NormalizeCampaignStats(n) = AdaptStats(n)
  /\ \A s : MapCampaignStatus(s) = AdaptCampaignStatus(s)
  BY DEF NormalizeCampaignStats, AdaptStats, MapCampaignStatus,
         AdaptCampaignStatus

LEMMA NotListedIsOne == NotListed \in Entries
<1>1. Nothing \in States /\ Nothing.status = "none"
  BY DEF States, Nothing
<1>2. QED
  BY <1>1 DEF NotListed, Entries

Typed ==
  /\ token \in Tokens /\ stored \in Tokens
  /\ busy \in BOOLEAN /\ creating \in BOOLEAN
  /\ campaigns \in [Campaigns -> Entries]
  /\ selected \in Campaigns \cup {0}
  /\ rowsOf \in Campaigns \cup {0}
  /\ refreshTimer \in Campaigns \cup {-1, 0}
  /\ detailsTimer \in Campaigns \cup {0}
  /\ ServerType
  /\ sessions \in 1 .. MaxSessions
  /\ valid \subseteq 1 .. sessions
  /\ clicks \in 0 .. MaxClicks
  /\ failures \in 0 .. MaxFailures
  /\ clashes \subseteq Resources

LEMMA SelectedIsOne == Typed => SelectedCampaign \in Campaigns \cup {0}
<1>1. Listed \subseteq Campaigns
  BY DEF Listed
<1>2. Newest(Listed) \in Campaigns \cup {0}
  BY <1>1, NewestIsOne
<1>3. QED
  BY <1>1, <1>2 DEF SelectedCampaign

LEMMA NextOpsBegin ==
  ASSUME OpsInv, Typed,
         \/ Login \/ Refresh \/ Create \/ Import \/ Cancel \/ Toggle \/ Replay
         \/ FireRefresh \/ FireDetails
  PROVE  OpsInv' /\ busy' \in BOOLEAN /\ clashes' \subseteq Resources
<1>1. ASSUME NEW k \in Kinds, NEW at \in Awaits, NEW camp \in Campaigns \cup {0},
             Begins(k, at, camp), at \in Awaited[k],
             k \in {"details", "cancel"} => camp # 0
      PROVE  OpsInv' /\ busy' \in BOOLEAN /\ clashes' \subseteq Resources
  <2>1. PICK sel, taken : Begin(k, at, camp, sel, taken)
    BY <1>1 DEF Begins
  <2>2. stored \in Tokens
    BY DEF Typed
  <2>3. OpsInv'
    BY <1>1, <2>1, <2>2, BeginFits
  <2>4. busy' = TRUE /\ clashes' \subseteq Resources
    BY <2>1 DEF Begin
  <2>5. QED
    BY <2>3, <2>4
<1>2. /\ {"login", "refresh", "create", "post", "cancel", "toggle", "details"} \subseteq Kinds
      /\ {"login", "health", "post", "details"} \subseteq Awaits
      /\ 0 \in Campaigns \cup {0}
  BY DEF Kinds, Awaits
<1>3. /\ "login" \in Awaited["login"] /\ "health" \in Awaited["refresh"]
      /\ "post" \in Awaited["create"] /\ "post" \in Awaited["post"]
      /\ "post" \in Awaited["cancel"] /\ "post" \in Awaited["toggle"]
      /\ "details" \in Awaited["details"]
  BY DEF Awaited
<1>4. detailsTimer \in Campaigns \cup {0} /\ SelectedCampaign \in Campaigns \cup {0}
  BY SelectedIsOne DEF Typed
<1>5. CASE Begins("login", "login", 0)
  BY <1>1, <1>2, <1>3, <1>5
<1>6. CASE Begins("refresh", "health", 0)
  BY <1>1, <1>2, <1>3, <1>6
<1>7. CASE Begins("create", "post", 0)
  BY <1>1, <1>2, <1>3, <1>7
<1>8. CASE Begins("post", "post", 0)
  BY <1>1, <1>2, <1>3, <1>8
<1>9. CASE SelectedCampaign # 0 /\ Begins("cancel", "post", SelectedCampaign)
  BY <1>1, <1>2, <1>3, <1>4, <1>9
<1>10. CASE Begins("toggle", "post", 0)
  BY <1>1, <1>2, <1>3, <1>10
<1>11. CASE detailsTimer # 0 /\ Begins("details", "details", detailsTimer)
  BY <1>1, <1>2, <1>3, <1>4, <1>11
<1>12. QED
  BY <1>5, <1>6, <1>7, <1>8, <1>9, <1>10, <1>11, BeginActions

\* An answer that is awaited arrives, or the clock of a poll runs.
LEMMA NextOpsWait ==
  ASSUME OpsInv, Typed, [Next]_vars, NEW o \in Slots,
         ServeRead(o) \/ Lose(o) \/ PollClock(o)
  PROVE  /\ OpsInv' /\ OthersKept(o)
         /\ op'[o].at = op[o].at /\ op'[o].camp = op[o].camp
         /\ op'[o].chan = op[o].chan /\ op'[o].chanTok = op[o].chanTok
         /\ op'[o].base = op[o].base
         /\ op'[o].read => op'[o].at \in {"details"} \cup Caught
         /\ ~op'[o].read => op'[o].tok = op[o].tok
<1>a. ServerType /\ ServerType'
  BY ServerMoves DEF Typed
<1>b. op[o] \in Operations /\ Fits(kind[o], op[o], o \in running)
  BY DEF OpsInv
<1>c. 0 \in Tokens
  BY FrontendAssumption DEF Tokens
<1>1. ASSUME NEW g \in [Campaigns -> States],
             op' = [op EXCEPT ![o] = [op[o] EXCEPT !.read = TRUE, !.tok = 0, !.got = g]],
             op[o].at \in {"details"} \cup Caught, UNCHANGED <<kind, running>>
      PROVE  /\ OpsInv' /\ OthersKept(o)
             /\ op'[o].at = op[o].at /\ op'[o].camp = op[o].camp
             /\ op'[o].chan = op[o].chan /\ op'[o].chanTok = op[o].chanTok
             /\ op'[o].base = op[o].base /\ op'[o].read
  <2> DEFINE r == [op[o] EXCEPT !.read = TRUE, !.tok = 0, !.got = g]
  <2>1. /\ r \in Operations /\ r.at = op[o].at /\ r.camp = op[o].camp
        /\ r.chan = op[o].chan /\ r.chanTok = op[o].chanTok
        /\ r.base = op[o].base /\ r.read
    BY <1>b, <1>c DEF Operations
  <2>2. op' = [op EXCEPT ![o] = r]
    BY <1>1
  <2> HIDE DEF r
  <2>3. OpsInv' /\ OthersKept(o) /\ op'[o] = r
    BY <1>1, <2>1, <2>2, WaitsFits
  <2>4. QED
    BY <2>1, <2>3
<1>2. Nothing \in States
  BY DEF States
<1>3. CASE ServeRead(o)
  <2> DEFINE g == [c \in Campaigns |-> IF c \in AsksFor(o) THEN server'[c] ELSE Nothing]
  <2>1. g \in [Campaigns -> States]
    BY <1>a, <1>2 DEF ServerType
  <2>2. /\ op' = [op EXCEPT ![o] = [op[o] EXCEPT !.read = TRUE, !.tok = 0, !.got = g]]
        /\ op[o].at \in {"details"} \cup Caught /\ UNCHANGED <<kind, running>>
    BY <1>3 DEF ServeRead
  <2> HIDE DEF g
  <2>3. op'[o].at \in {"details"} \cup Caught
    BY <1>1, <2>1, <2>2
  <2>4. QED
    BY <1>1, <2>1, <2>2, <2>3
<1>4. CASE Lose(o)
  <2>1. PICK lost \in SUBSET AsksFor(o) :
          op' = [op EXCEPT ![o] =
                   [@ EXCEPT !.read = TRUE, !.tok = 0,
                             !.got = [c \in Campaigns |->
                               IF c \in AsksFor(o) \ lost
                               THEN server[c] ELSE Nothing]]]
    BY <1>4 DEF Lose
  <2> DEFINE g == [c \in Campaigns |->
                     IF c \in AsksFor(o) \ lost THEN server[c] ELSE Nothing]
  <2>2. g \in [Campaigns -> States]
    BY <1>a, <1>2 DEF ServerType
  <2>3. /\ op' = [op EXCEPT ![o] = [op[o] EXCEPT !.read = TRUE, !.tok = 0, !.got = g]]
        /\ op[o].at \in {"details"} \cup Caught /\ UNCHANGED <<kind, running>>
    BY <1>4, <2>1 DEF Lose
  <2> HIDE DEF g
  <2>4. op'[o].at \in {"details"} \cup Caught
    BY <1>1, <2>2, <2>3
  <2>5. QED
    BY <1>1, <2>2, <2>3, <2>4
<1>5. CASE PollClock(o)
  <2> DEFINE r == [op[o] EXCEPT !.late = TRUE]
  <2>1. op' = [op EXCEPT ![o] = r] /\ UNCHANGED <<kind, running>>
    BY <1>5, <1>b DEF PollClock, OpsInv
  <2>2. /\ r \in Operations /\ r.at = op[o].at /\ r.camp = op[o].camp
        /\ r.chan = op[o].chan /\ r.chanTok = op[o].chanTok
        /\ r.base = op[o].base /\ r.read = op[o].read /\ r.tok = op[o].tok
    BY <1>b DEF Operations
  <2>3. r.read => r.at \in {"details"} \cup Caught
    BY <1>b, <2>2 DEF Fits
  <2> HIDE DEF r
  <2>4. OpsInv' /\ OthersKept(o) /\ op'[o] = r
    BY <2>1, <2>2, <2>3, WaitsFits
  <2>5. QED
    BY <2>2, <2>3, <2>4
<1>6. QED
  BY <1>3, <1>4, <1>5


\* Which operation it is that awaits a request.
LEMMA AwaitedBy ==
  ASSUME OpsInv, NEW o \in Slots
  PROVE  /\ op[o] \in Operations /\ kind[o] \in Kinds \cup {"free"}
         /\ op[o].at = "login" => kind[o] = "login"
         /\ op[o].at = "health" => kind[o] = "refresh"
         /\ op[o].at = "post" => kind[o] \in {"create", "cancel", "toggle", "post"}
         /\ op[o].at = "poll" => kind[o] = "cancel"
         /\ op[o].at = "list" => kind[o] \in {"refresh", "create", "cancel"}
         /\ op[o].at = "stats" => kind[o] \in {"refresh", "create", "cancel"}
         /\ op[o].at = "details" => kind[o] \in {"details", "cancel"}
         /\ op[o].chan => kind[o] \in {"refresh", "toggle"}
         /\ op[o].read => op[o].at \in {"details", "stats", "poll"}
<1>1. Fits(kind[o], op[o], o \in running) /\ kind[o] \in Kinds \cup {"free"}
  BY DEF OpsInv
<1>2. op[o].at \in Awaited[kind[o]]
  BY <1>1 DEF Fits
<1>3. /\ op[o].at = "login" => kind[o] = "login"
      /\ op[o].at = "health" => kind[o] = "refresh"
      /\ op[o].at = "post" => kind[o] \in {"create", "cancel", "toggle", "post"}
      /\ op[o].at = "poll" => kind[o] = "cancel"
      /\ op[o].at = "list" => kind[o] \in {"refresh", "create", "cancel"}
      /\ op[o].at = "stats" => kind[o] \in {"refresh", "create", "cancel"}
      /\ op[o].at = "details" => kind[o] \in {"details", "cancel"}
  BY <1>1, <1>2 DEF Awaited, Kinds
<1>4. /\ op[o].chan => kind[o] \in {"refresh", "toggle"}
      /\ op[o].read => op[o].at \in {"details", "stats", "poll"}
  BY <1>1 DEF Fits, Caught
<1>5. QED
  BY <1>1, <1>3, <1>4 DEF OpsInv

\* The operations that write the rows, which they do last.
Writer(o) == kind[o] \in {"details", "cancel"}

\* The main line of o goes on as r: it sends its next request, or leaves its
\* loadChannels alone.
MainNext(o, r) ==
  /\ Fits(kind[o], r, o \in running) /\ r.camp = op[o].camp
  /\ r.chan => r.chanTok = stored \/ (op[o].chan /\ r.chanTok = op[o].chanTok)
  /\ ~r.read /\ r.got = NoData
  /\ r.at # "idle" => r.tok = stored
  /\ \/ r.at # "stats" /\ r.base = NoData
     \/ op[o].at = "list" /\ r.at = "stats" /\ r.base = server'

LEMMA MainAnswered ==
  ASSUME OpsInv, Typed, ServerType', NEW o \in Slots,
         \/ LoginAnswered(o) \/ HealthAnswered(o) \/ PostAnswered(o)
         \/ ListAnswered(o) \/ StatsAnswered(o) \/ DetailsAnswered(o)
         \/ PollAnswered(o)
  PROVE  \E r \in Operations :
           /\ Advance(o, r)
           /\ Over(r) \/ MainNext(o, r)
           /\ Over(r) => op[o].at = "details" \/ ~Writer(o)
<1> DEFINE q == op[o]
<1>a. /\ q \in Operations /\ Fits(kind[o], q, o \in running)
      /\ stored \in Tokens /\ kind[o] \in Kinds \cup {"free"}
  BY DEF OpsInv, Typed
<1>b. /\ NoOp \in Operations /\ Over(NoOp)
      /\ {"list", "poll", "stats", "details"} \subseteq Awaits
  BY NoOpShape DEF Over, Awaits
<1>1. ASSUME NEW at \in {"list", "poll", "details"}, at \in Awaited[kind[o]],
             NEW p \in Operations, p.chan = q.chan, p.chanTok = q.chanTok,
             p.camp = q.camp
      PROVE  /\ Sent(p, at) \in Operations /\ MainNext(o, Sent(p, at))
             /\ ~Over(Sent(p, at))
  <2>1. at \in Awaits
    BY <1>1 DEF Awaits
  <2> DEFINE s == Sent(p, at)
  <2>2. /\ s \in Operations /\ s.at = at /\ s.tok = stored /\ ~s.read
        /\ s.base = NoData /\ s.got = NoData
        /\ s.chan = q.chan /\ s.chanTok = q.chanTok /\ s.camp = q.camp
    BY <1>a, <1>1, <2>1, SentShape
  <2> HIDE DEF s
  <2>3. Fits(kind[o], s, o \in running)
    BY <1>a, <1>1, <2>2 DEF Fits
  <2>4. s.at # "stats"
    BY <1>1, <2>2
  <2>5. s \in Operations /\ MainNext(o, s) /\ ~Over(s)
    BY <1>1, <2>2, <2>3, <2>4 DEF MainNext, Over
  <2>6. QED
    BY <2>5 DEF s
<1>2. CASE LoginAnswered(o) \/ DetailsAnswered(o)
  <2>1. Advance(o, NoOp) /\ q.at \in {"login", "details"}
    BY <1>2 DEF LoginAnswered, DetailsAnswered
  <2>2. q.at = "details" \/ ~Writer(o)
    BY <2>1, AwaitedBy DEF Writer
  <2>3. QED
    BY <1>b, <2>1, <2>2
<1>3. CASE HealthAnswered(o)
  <2>1. q.at = "health" /\ Advance(o, SentChannels(Sent(q, "list")))
    BY <1>3 DEF HealthAnswered
  <2>2. kind[o] = "refresh"
    BY <2>1, AwaitedBy
  <2>3. "list" \in Awaited[kind[o]]
    BY <2>2 DEF Awaited
  <2> DEFINE s == Sent(q, "list")
             t == SentChannels(s)
  <2>4. s \in Operations /\ MainNext(o, s) /\ s.at = "list"
    BY <1>1, <1>a, <1>b, <2>3, SentShape
  <2> HIDE DEF s
  <2>5. /\ t \in Operations /\ t.chan /\ t.chanTok = stored
        /\ t.at = s.at /\ t.tok = s.tok /\ t.read = s.read
        /\ t.camp = s.camp /\ t.base = s.base /\ t.got = s.got
    BY <1>a, <2>4, ChannelsShape
  <2> HIDE DEF t
  <2>6. Fits(kind[o], t, o \in running)
    BY <2>2, <2>4, <2>5 DEF MainNext, Fits
  <2>7. MainNext(o, t)
    BY <2>4, <2>5, <2>6 DEF MainNext
  <2>8. Advance(o, t)
    BY <2>1 DEF s, t
  <2>9. QED
    BY <2>2, <2>5, <2>7, <2>8 DEF Writer
<1>4. CASE PostAnswered(o)
  <2>1. /\ q.at = "post"
        /\ Advance(o, CASE kind[o] = "create" -> Sent(q, "list")
                        [] kind[o] = "cancel" -> Sent(q, "poll")
                        [] kind[o] = "toggle" -> SentChannels(Done(q))
                        [] OTHER -> NoOp)
    BY <1>4 DEF PostAnswered
  <2>2. CASE kind[o] = "create"
    <3>1. "list" \in Awaited[kind[o]]
      BY <2>2 DEF Awaited
    <3>2. Advance(o, Sent(q, "list"))
      BY <2>1, <2>2
    <3>3. QED
      BY <1>1, <1>a, <3>1, <3>2
  <2>3. CASE kind[o] = "cancel"
    <3>1. "poll" \in Awaited[kind[o]]
      BY <2>3 DEF Awaited
    <3>2. Advance(o, Sent(q, "poll"))
      BY <2>1, <2>3
    <3>3. QED
      BY <1>1, <1>a, <3>1, <3>2
  <2>4. CASE kind[o] = "toggle"
    <3> DEFINE d == Done(q)
               t == SentChannels(d)
    <3>1. /\ d \in Operations /\ d.at = "idle" /\ ~d.read /\ d.camp = q.camp
          /\ d.base = NoData /\ d.got = NoData
      BY <1>a, DoneShape
    <3>2. Advance(o, t)
      BY <2>1, <2>4
    <3> HIDE DEF d
    <3>3. /\ t \in Operations /\ t.chan /\ t.chanTok = stored
          /\ t.at = "idle" /\ ~t.read /\ t.camp = q.camp
          /\ t.base = NoData /\ t.got = NoData
      BY <1>a, <3>1, ChannelsShape
    <3> HIDE DEF t
    <3>4. Fits(kind[o], t, o \in running)
      BY <2>4, <3>3 DEF Fits, Awaited
    <3>5. MainNext(o, t)
      BY <3>3, <3>4 DEF MainNext
    <3>6. QED
      BY <2>4, <3>2, <3>3, <3>5 DEF Writer
  <2>5. CASE kind[o] \notin {"create", "cancel", "toggle"}
    <3>1. Advance(o, NoOp)
      BY <2>1, <2>5
    <3>2. ~Writer(o)
      BY <2>1, <2>5, AwaitedBy DEF Writer
    <3>3. QED
      BY <1>b, <3>1, <3>2
  <2>6. QED
    BY <2>2, <2>3, <2>4, <2>5
<1>5. CASE ListAnswered(o)
  <2>1. q.at = "list" /\ Advance(o, [Sent(q, "stats") EXCEPT !.base = server'])
    BY <1>5 DEF ListAnswered
  <2> DEFINE s == Sent(q, "stats")
             t == [s EXCEPT !.base = server']
  <2>2. /\ s \in Operations /\ s.at = "stats" /\ s.tok = stored /\ ~s.read
        /\ s.got = NoData
        /\ s.chan = q.chan /\ s.chanTok = q.chanTok /\ s.camp = q.camp
    BY <1>a, <1>b, SentShape
  <2> HIDE DEF s
  <2>3. /\ t \in Operations /\ t.at = "stats" /\ t.tok = stored /\ ~t.read
        /\ t.got = NoData /\ t.base = server'
        /\ t.chan = q.chan /\ t.chanTok = q.chanTok /\ t.camp = q.camp
    BY <2>2 DEF Operations, ServerType
  <2>4. Advance(o, t)
    BY <2>1 DEF s
  <2> HIDE DEF t
  <2>5. "stats" \in Awaited[kind[o]]
    BY <2>1, AwaitedBy DEF Awaited
  <2>6. Fits(kind[o], t, o \in running)
    BY <1>a, <2>3, <2>5 DEF Fits
  <2>7. MainNext(o, t) /\ ~Over(t)
    BY <2>1, <2>3, <2>6 DEF MainNext, Over
  <2>8. QED
    BY <2>3, <2>4, <2>7
<1>6. CASE StatsAnswered(o)
  <2>1. /\ q.at = "stats"
        /\ Advance(o, IF kind[o] = "cancel" THEN Sent(q, "details") ELSE Done(q))
    BY <1>6 DEF StatsAnswered
  <2>2. CASE kind[o] = "cancel"
    <3>1. "details" \in Awaited[kind[o]]
      BY <2>2 DEF Awaited
    <3>2. Advance(o, Sent(q, "details"))
      BY <2>1, <2>2
    <3>3. QED
      BY <1>1, <1>a, <3>1, <3>2
  <2>3. CASE kind[o] # "cancel"
    <3> DEFINE d == Done(q)
    <3>1. /\ d \in Operations /\ d.at = "idle" /\ ~d.read /\ d.camp = q.camp
          /\ d.base = NoData /\ d.got = NoData
          /\ d.chan = q.chan /\ d.chanTok = q.chanTok
      BY <1>a, DoneShape
    <3>2. Advance(o, d)
      BY <2>1, <2>3
    <3> HIDE DEF d
    <3>3. ASSUME ~Over(d) PROVE MainNext(o, d)
      <4>1. d.chan /\ q.chan
        BY <3>1, <3>3 DEF Over
      <4>2. kind[o] \in {"refresh", "toggle"}
        BY <4>1, AwaitedBy
      <4>3. Fits(kind[o], d, o \in running)
        BY <3>1, <4>2 DEF Fits, Awaited
      <4>4. QED
        BY <3>1, <4>1, <4>3 DEF MainNext
    <3>4. ~Writer(o)
      BY <2>1, <2>3, AwaitedBy DEF Writer
    <3>5. QED
      BY <3>1, <3>2, <3>3, <3>4
  <2>4. QED
    BY <2>2, <2>3
<1>7. CASE PollAnswered(o)
  <2> DEFINE s == q.got[q.camp]
             p == [q EXCEPT !.late = FALSE]
  <2>1. /\ q.at = "poll"
        /\ Advance(o, IF s.status = "cancelled" \/ q.late THEN Sent(p, "list")
                      ELSE Sent(q, "poll"))
    BY <1>7 DEF PollAnswered
  <2>2. kind[o] = "cancel"
    BY <2>1, AwaitedBy
  <2>3. "list" \in Awaited[kind[o]] /\ "poll" \in Awaited[kind[o]]
    BY <2>2 DEF Awaited
  <2>4. /\ p \in Operations /\ p.chan = q.chan /\ p.chanTok = q.chanTok
        /\ p.camp = q.camp
    BY <1>a DEF Operations
  <2> HIDE DEF p
  <2>5. CASE s.status = "cancelled" \/ q.late
    <3>1. Advance(o, Sent(p, "list"))
      BY <2>1, <2>5
    <3>2. QED
      BY <1>1, <2>3, <2>4, <3>1
  <2>6. CASE ~(s.status = "cancelled" \/ q.late)
    <3>1. Advance(o, Sent(q, "poll"))
      BY <2>1, <2>6
    <3>2. QED
      BY <1>1, <1>a, <2>3, <3>1
  <2>7. QED
    BY <2>5, <2>6
<1>8. QED
  BY <1>2, <1>3, <1>4, <1>5, <1>6, <1>7


\* What is left of o when a part of it is over or rejected: the other part of
\* its Promise.all, as it was.
Left(o, r) ==
  /\ r \in Operations
  /\ ~Over(r) =>
       /\ kind[o] \in {"refresh", "toggle"} /\ Fits(kind[o], r, FALSE)
       /\ r.camp = op[o].camp
       /\ r.chan => op[o].chan /\ r.chanTok = op[o].chanTok
       /\ \/ r.at = "idle" /\ ~r.read /\ r.base = NoData /\ r.got = NoData
          \/ /\ r.at = op[o].at /\ r.tok = op[o].tok /\ r.read = op[o].read
             /\ r.base = op[o].base /\ r.got = op[o].got

LEMMA PartLeft ==
  ASSUME OpsInv, Typed, NEW o \in Slots
  PROVE  /\ Left(o, NoOp)
         /\ Left(o, Done(op[o]))
         /\ op[o].chan => Left(o, ChannelsDone(op[o]))
<1> DEFINE q == op[o]
<1>a. /\ q \in Operations /\ stored \in Tokens
      /\ Fits(kind[o], q, o \in running)
  BY DEF OpsInv, Typed
<1>1. Left(o, NoOp)
  BY NoOpShape DEF Left, Over
<1>2. Left(o, Done(q))
  <2> DEFINE d == Done(q)
  <2>1. /\ d \in Operations /\ d.at = "idle" /\ ~d.read /\ d.camp = q.camp
        /\ d.base = NoData /\ d.got = NoData
        /\ d.chan = q.chan /\ d.chanTok = q.chanTok
    BY <1>a, DoneShape
  <2> HIDE DEF d
  <2>2. ASSUME ~Over(d) PROVE /\ kind[o] \in {"refresh", "toggle"}
                              /\ Fits(kind[o], d, FALSE)
    <3>1. q.chan
      BY <2>1, <2>2 DEF Over
    <3>2. kind[o] \in {"refresh", "toggle"}
      BY <3>1, AwaitedBy
    <3>3. QED
      BY <2>1, <3>2 DEF Fits, Awaited
  <2>3. Left(o, d)
    BY <2>1, <2>2 DEF Left
  <2>4. QED
    BY <2>3 DEF d
<1>3. ASSUME q.chan PROVE Left(o, ChannelsDone(q))
  <2> DEFINE d == ChannelsDone(q)
  <2>1. /\ d \in Operations /\ ~d.chan /\ d.at = q.at /\ d.tok = q.tok
        /\ d.read = q.read /\ d.camp = q.camp /\ d.base = q.base /\ d.got = q.got
    BY <1>a, ChannelsShape
  <2> HIDE DEF d
  <2>2. kind[o] \in {"refresh", "toggle"}
    BY <1>3, AwaitedBy
  <2>3. Fits(kind[o], d, FALSE)
    BY <1>a, <2>1, <2>2 DEF Fits
  <2>4. Left(o, d)
    BY <2>1, <2>2, <2>3 DEF Left
  <2>5. QED
    BY <2>4 DEF d
<1>4. QED
  BY <1>1, <1>2, <1>3

LEMMA PartRejected ==
  ASSUME OpsInv, Typed, NEW o \in Slots,
         \/ MainRejected(o) \/ PostRejected(o) \/ ChannelsRejected(o)
  PROVE  \E r \in Operations : GoesOn(o, r) /\ Finally(o, TRUE) /\ Left(o, r)
<1> DEFINE q == op[o]
<1>1. \/ GoesOn(o, Done(q)) /\ Finally(o, TRUE)
      \/ GoesOn(o, NoOp) /\ Finally(o, TRUE)
      \/ q.chan /\ GoesOn(o, ChannelsDone(q)) /\ Finally(o, TRUE)
  BY DEF MainRejected, PostRejected, ChannelsRejected, Rejected
<1>2. QED
  BY <1>1, PartLeft DEF Left

LEMMA PartAnswered ==
  ASSUME OpsInv, Typed, NEW o \in Slots, ChannelsAnswered(o)
  PROVE  \E r \in Operations : Advance(o, r) /\ Left(o, r)
<1>1. op[o].chan /\ Advance(o, ChannelsDone(op[o]))
  BY DEF ChannelsAnswered
<1>2. QED
  BY <1>1, PartLeft DEF Left

LEMMA NextOps ==
  ASSUME OpsInv, Typed, [Next]_vars
  PROVE  OpsInv'
<1>1. CASE \/ Login \/ Refresh \/ Create \/ Import \/ Cancel \/ Toggle \/ Replay
           \/ FireRefresh \/ FireDetails
  BY <1>1, NextOpsBegin
<1>2. CASE \/ \E c \in Campaigns : Open(c)
           \/ Logout \/ GoToCreate \/ LeaveCreate \/ EditForm \/ FireEstimate
           \/ Estimate \/ UNCHANGED vars
  <2>1. UNCHANGED <<op, kind, running>>
    BY <1>2 DEF Open, Logout, GoToCreate, LeaveCreate, EditForm, FireEstimate,
                Estimate, vars, opVars
  <2>2. QED
    BY <2>1 DEF OpsInv
<1>3. CASE Reload
  <2>1. /\ kind' = [o \in Slots |-> "free"] /\ op' = [o \in Slots |-> NoOp]
        /\ running' = {}
    BY <1>3 DEF Reload
  <2>2. \A o \in Slots : Fits(kind'[o], op'[o], o \in running')
    BY <2>1, NoOpShape DEF Fits, Awaited
  <2>3. QED
    BY <2>1, <2>2, NoOpShape DEF OpsInv
<1>4. ASSUME NEW o \in Slots, ServeRead(o) \/ Lose(o) \/ PollClock(o)
      PROVE  OpsInv'
  BY <1>4, NextOpsWait
<1>5. ASSUME NEW o \in Slots, NEW r \in Operations,
             Advance(o, r), Over(r) \/ MainNext(o, r) \/ Left(o, r)
      PROVE  OpsInv'
  <2>1. GoesOn(o, r) /\ Finally(o, Over(r)) /\ Over(r) \in BOOLEAN
    BY <1>5 DEF Advance, Over
  <2>2. ASSUME ~Over(r) PROVE Fits(kind[o], r, o \in running /\ ~Over(r))
    BY <1>5, <2>2 DEF MainNext, Left, Fits
  <2>3. QED
    BY <2>1, <2>2, GoesOnFits
<1>6. ASSUME NEW o \in Slots,
             \/ LoginAnswered(o) \/ HealthAnswered(o) \/ PostAnswered(o)
             \/ ListAnswered(o) \/ StatsAnswered(o) \/ DetailsAnswered(o)
             \/ PollAnswered(o) \/ ChannelsAnswered(o)
      PROVE  OpsInv'
  <2>1. ServerType'
    BY ServerMoves DEF Typed
  <2>2. \E r \in Operations :
          Advance(o, r) /\ (Over(r) \/ MainNext(o, r) \/ Left(o, r))
    BY <1>6, <2>1, MainAnswered, PartAnswered
  <2>3. QED
    BY <1>5, <2>2
<1>7. ASSUME NEW o \in Slots,
             MainRejected(o) \/ PostRejected(o) \/ ChannelsRejected(o)
      PROVE  OpsInv'
  <2>1. PICK r \in Operations : GoesOn(o, r) /\ Finally(o, TRUE) /\ Left(o, r)
    BY <1>7, PartRejected
  <2>2. ASSUME ~Over(r) PROVE Fits(kind[o], r, o \in running /\ ~TRUE)
    BY <2>1, <2>2 DEF Left, Fits
  <2>3. QED
    BY <2>1, <2>2, GoesOnFits
<1>8. QED
  BY <1>1, <1>2, <1>3, <1>4, <1>6, <1>7
     DEF Next, Manager, MainLine, ChannelsLine


LEMMA UpdatedType ==
  ASSUME campaigns \in [Campaigns -> Entries], NEW c, NEW s \in States
  PROVE  Updated(c, s) \in [Campaigns -> Entries]
<1> DEFINE e == AdaptCampaign(s.status, s.stats)
<1>1. e \in Entries
  BY DEF Entries
<1>2. e = [status |-> MapCampaignStatus(s.status),
           stats |-> NormalizeCampaignStats(s.stats)]
  BY Alike DEF AdaptCampaign
<1> HIDE DEF e
<1>3. Updated(c, s) = [campaigns EXCEPT ![c] = IF c \in Listed THEN e ELSE @]
  BY <1>2 DEF Updated
<1>4. QED
  BY <1>1, <1>3

\* The list that the end of loadCampaigns sets.
LEMMA LoadedType ==
  ASSUME OpsInv, Typed, NEW o \in Slots, StatsAnswered(o)
  PROVE  /\ campaigns' \in [Campaigns -> Entries]
         /\ selected' \in Campaigns \cup {0}
<1> DEFINE items == {c \in Campaigns : op[o].base[c] # Nothing}
           E(c) == AdaptCampaign(op[o].base[c].status, op[o].got[c].stats)
<1>1. /\ op[o].base \in [Campaigns -> States]
      /\ op[o].got \in [Campaigns -> States]
  BY DEF OpsInv, Operations
<1>2. \A c \in Campaigns : E(c) \in Entries
  BY <1>1 DEF Entries
<1>3. campaigns' = [c \in Campaigns |-> IF c \in items THEN E(c) ELSE NotListed]
  BY DEF StatsAnswered
<1>4. NotListed \in Entries
  BY NotListedIsOne
<1>5. selected' \in {selected, Newest(items)}
  BY DEF StatsAnswered
<1>6. items \subseteq Campaigns
  OBVIOUS
<1> HIDE DEF E, items
<1>7. Newest(items) \in Campaigns \cup {0}
  BY <1>6, NewestIsOne
<1>8. QED
  BY <1>2, <1>3, <1>4, <1>5, <1>7 DEF Typed

LEMMA NextTyped ==
  ASSUME OpsInv, Typed, [Next]_vars
  PROVE  Typed'
<1> USE DEF screenVars, sessionVars, timerVars, apiVars, opVars, bounds
<1>a. ServerType'
  BY ServerMoves DEF Typed
<1>b. 0 \in Tokens /\ sessions \in Int /\ MaxSessions \in Nat /\ failures \in Int
  BY FrontendAssumption DEF Typed, Tokens
<1>1. CASE \/ Login \/ Refresh \/ Create \/ Import \/ Cancel \/ Toggle \/ Replay
           \/ FireRefresh \/ FireDetails
  <2>1. busy' \in BOOLEAN /\ clashes' \subseteq Resources
    BY <1>1, NextOpsBegin
  <2>2. /\ UNCHANGED <<token, stored, creating, campaigns, selected, rowsOf,
                       server, sessions, valid, failures>>
        /\ refreshTimer' \in {refreshTimer, -1} /\ detailsTimer' \in {detailsTimer, 0}
        /\ clicks' = clicks \/ Click
    BY <1>1 DEF Login, Refresh, Create, Import, Cancel, Toggle, Replay, Press,
                FireRefresh, FireDetails
  <2>3. clicks' \in 0 .. MaxClicks
    BY <2>2, FrontendAssumption DEF Typed, Click
  <2>4. QED
    BY <1>a, <2>1, <2>2, <2>3 DEF Typed
<1>2. ASSUME NEW c \in Campaigns, Open(c) PROVE Typed'
  <2>1. /\ UNCHANGED <<token, stored, creating, campaigns, rowsOf, busy,
                       refreshTimer, server, sessions, valid, failures, clashes>>
        /\ selected' = c /\ detailsTimer' \in {detailsTimer, c}
        /\ Click
    BY <1>2 DEF Open, SelectionEffect
  <2>2. clicks' \in 0 .. MaxClicks
    BY <2>1, FrontendAssumption DEF Typed, Click
  <2>3. QED
    BY <1>a, <2>1, <2>2 DEF Typed
<1>3. CASE Logout \/ GoToCreate \/ LeaveCreate \/ EditForm
  <2>1. /\ UNCHANGED <<campaigns, selected, rowsOf, busy, server, sessions,
                       valid, clashes>>
        /\ token' \in {token, 0} /\ stored' \in {stored, 0}
        /\ failures' = failures \/ Fails
        /\ creating' \in {creating, TRUE, FALSE}
        /\ refreshTimer' \in {refreshTimer, -1} /\ detailsTimer' \in {detailsTimer, 0}
        /\ clicks' = clicks \/ Click
    BY <1>3 DEF Logout, SessionEnds, Store, GoToCreate, LeaveCreate, EditForm
  <2>2. clicks' \in 0 .. MaxClicks /\ failures' \in 0 .. MaxFailures
    BY <2>1, FrontendAssumption DEF Typed, Click, Fails
  <2>3. QED
    BY <1>a, <1>b, <2>1, <2>2 DEF Typed
<1>4. CASE Reload
  <2>1. /\ token' = stored /\ stored' = stored /\ creating' = FALSE
        /\ busy' = FALSE /\ campaigns' = [c \in Campaigns |-> NotListed]
        /\ selected' = 0 /\ rowsOf' = 0 /\ detailsTimer' = 0
        /\ refreshTimer' \in {-1, 0} /\ clashes' = {}
        /\ UNCHANGED <<server, sessions, valid, failures>> /\ Click
    BY <1>4 DEF Reload
  <2>2. clicks' \in 0 .. MaxClicks
    BY <2>1, FrontendAssumption DEF Typed, Click
  <2>3. campaigns' \in [Campaigns -> Entries]
    BY <2>1, NotListedIsOne
  <2>4. QED
    BY <1>a, <2>1, <2>2, <2>3 DEF Typed
<1>5. CASE FireEstimate \/ Estimate \/ UNCHANGED vars
  <2>1. /\ UNCHANGED <<token, stored, creating, campaigns, selected, rowsOf,
                       busy, refreshTimer, detailsTimer, server, sessions,
                       valid, clicks, clashes>>
        /\ failures' = failures \/ Fails
    BY <1>5 DEF FireEstimate, Estimate, vars
  <2>2. failures' \in 0 .. MaxFailures
    BY <2>1, FrontendAssumption DEF Typed, Fails
  <2>3. QED
    BY <1>a, <2>1, <2>2 DEF Typed
<1>6. ASSUME NEW o \in Slots, ServeRead(o) \/ PollClock(o) \/ Lose(o)
      PROVE  Typed'
  <2>1. /\ UNCHANGED <<token, stored, creating, campaigns, selected, rowsOf,
                       busy, refreshTimer, detailsTimer, sessions, clicks>>
        /\ failures' = failures \/ Fails
        /\ valid' \subseteq valid
        /\ clashes' \subseteq clashes \cup {"list"}
    BY <1>6 DEF ServeRead, PollClock, Lose
  <2>2. failures' \in 0 .. MaxFailures
    BY <2>1, FrontendAssumption DEF Typed, Fails
  <2>3. clashes' \subseteq Resources
    BY <2>1 DEF Typed, Resources
  <2>4. QED
    BY <1>a, <2>1, <2>2, <2>3 DEF Typed
<1>7. ASSUME NEW o, NEW done \in BOOLEAN, Finally(o, done) PROVE busy' \in BOOLEAN
  BY <1>7 DEF Finally, Typed
<1>8. ASSUME NEW o \in Slots,
             MainRejected(o) \/ PostRejected(o) \/ ChannelsRejected(o)
      PROVE  Typed'
  <2>1. PICK r, t : Rejected(o, r, t)
    BY <1>8 DEF MainRejected, PostRejected, ChannelsRejected
  <2>2. /\ UNCHANGED <<creating, campaigns, selected, rowsOf, sessions, clicks,
                       clashes>>
        /\ Finally(o, TRUE)
        /\ token' \in {token, 0} /\ stored' \in {stored, 0}
        /\ refreshTimer' \in {refreshTimer, -1} /\ detailsTimer' \in {detailsTimer, 0}
        /\ valid' \subseteq valid
        /\ failures' = failures \/ Fails
    BY <2>1 DEF Rejected, SessionEnds, Store
  <2>3. failures' \in 0 .. MaxFailures
    BY <2>2, FrontendAssumption DEF Typed, Fails
  <2>4. QED
    BY <1>a, <1>b, <1>7, <2>2, <2>3 DEF Typed
<1>9. ASSUME NEW o \in Slots, LoginAnswered(o) PROVE Typed'
  <2>1. /\ sessions < MaxSessions /\ sessions' = sessions + 1
        /\ valid' = valid \cup {sessions'}
        /\ token' = sessions' /\ stored' \in {stored, sessions'}
        /\ failures' = failures \/ Fails
        /\ refreshTimer' \in {refreshTimer, selected}
        /\ detailsTimer' \in {detailsTimer, selected}
        /\ UNCHANGED <<campaigns, selected, rowsOf, creating, clicks, clashes>>
        /\ \E r : Advance(o, r)
    BY <1>9 DEF LoginAnswered, Store
  <2>2. busy' \in BOOLEAN
    <3>1. \E done \in BOOLEAN : Finally(o, done)
      BY <2>1 DEF Advance, Over
    <3>2. QED
      BY <1>7, <3>1
  <2>3. /\ sessions' \in 1 .. MaxSessions /\ sessions' \in Tokens
        /\ valid' \subseteq 1 .. sessions'
    BY <1>b, <2>1 DEF Typed, Tokens
  <2>4. failures' \in 0 .. MaxFailures
    BY <1>b, <2>1, FrontendAssumption DEF Typed, Fails
  <2>5. QED
    BY <1>a, <2>1, <2>2, <2>3, <2>4 DEF Typed
<1>10. ASSUME NEW o \in Slots,
              \/ HealthAnswered(o) \/ PostAnswered(o) \/ ListAnswered(o)
              \/ StatsAnswered(o) \/ DetailsAnswered(o) \/ PollAnswered(o)
              \/ ChannelsAnswered(o)
       PROVE  Typed'
  <2>1. /\ UNCHANGED <<token, stored, refreshTimer, sessions, valid, clicks,
                       failures, clashes>>
        /\ \E r : Advance(o, r)
    BY <1>10 DEF HealthAnswered, PostAnswered, ListAnswered, StatsAnswered,
                 DetailsAnswered, PollAnswered, ChannelsAnswered
  <2>2. busy' \in BOOLEAN
    <3>1. \E done \in BOOLEAN : Finally(o, done)
      BY <2>1 DEF Advance, Over
    <3>2. QED
      BY <1>7, <3>1
  <2>3. /\ creating' \in BOOLEAN
        /\ campaigns' \in [Campaigns -> Entries]
        /\ selected' \in Campaigns \cup {0} /\ rowsOf' \in Campaigns \cup {0}
        /\ detailsTimer' \in Campaigns \cup {0}
    <3>1. CASE \/ HealthAnswered(o) \/ PostAnswered(o) \/ ListAnswered(o)
               \/ ChannelsAnswered(o)
      BY <3>1 DEF HealthAnswered, PostAnswered, ListAnswered, ChannelsAnswered,
                  Typed
    <3>2. CASE StatsAnswered(o)
      <4>1. /\ creating' \in {creating, FALSE} /\ rowsOf' = rowsOf
            /\ detailsTimer' \in {detailsTimer, selected'}
        BY <3>2 DEF StatsAnswered, SelectionEffect
      <4>2. QED
        BY <3>2, <4>1, LoadedType DEF Typed
    <3>3. CASE DetailsAnswered(o) \/ PollAnswered(o)
      <4> DEFINE s == op[o].got[op[o].camp]
                 c == op[o].camp
      <4>1. /\ UNCHANGED <<creating, selected, detailsTimer>>
            /\ campaigns' = Updated(c, s) \/ campaigns' = campaigns
            /\ rowsOf' \in {rowsOf, c}
        BY <3>3 DEF DetailsAnswered, PollAnswered
      <4>2. c \in Campaigns
        <5>1. op[o] \in Operations /\ Fits(kind[o], op[o], o \in running)
          BY DEF OpsInv
        <5>2. kind[o] \in {"details", "cancel"}
          BY <3>3, AwaitedBy DEF DetailsAnswered, PollAnswered
        <5>3. QED
          BY <5>1, <5>2 DEF Fits, Operations
      <4>3. s \in States
        BY <4>2 DEF OpsInv, Operations
      <4> HIDE DEF s, c
      <4>4. campaigns' \in [Campaigns -> Entries]
        BY <4>1, <4>3, UpdatedType DEF Typed
      <4>5. QED
        BY <4>1, <4>2, <4>4 DEF Typed
    <3>4. QED
      BY <1>10, <3>1, <3>2, <3>3
  <2>4. QED
    BY <1>a, <2>1, <2>2, <2>3 DEF Typed
<1>11. QED
  BY <1>1, <1>2, <1>3, <1>4, <1>5, <1>6, <1>8, <1>9, <1>10
     DEF Next, Manager, MainLine, ChannelsLine


-----------------------------------------------------------------------------
(* The counters of an entry *)

\* What the conversion makes of an answer, which has every one of the eight
\* counters and none of the other names that it asks for.
LEMMA Adapted ==
  ASSUME NEW n \in [Counters -> Nat]
  PROVE  AdaptStats(n) =
           [total      |-> n.totalTasks,
            delivered  |-> n.succeeded,
            inProgress |-> n.queued + n.sending,
            waiting    |-> n.retryScheduled,
            failed     |-> n.failed + n.deadLettered + n.cancelled]
<1>1. DOMAIN n = Counters
  OBVIOUS
<1>2. /\ \A f \in Counters : Get(n, f) = n[f] /\ n[f] \in Nat
      /\ \A f : f \notin Counters => Get(n, f) = 0
  BY <1>1 DEF Get
<1>3. /\ Get(n, "totalTasks") = n.totalTasks /\ Get(n, "queued") = n.queued
      /\ Get(n, "sending") = n.sending /\ Get(n, "succeeded") = n.succeeded
      /\ Get(n, "failed") = n.failed
      /\ Get(n, "retryScheduled") = n.retryScheduled
      /\ Get(n, "deadLettered") = n.deadLettered
      /\ Get(n, "cancelled") = n.cancelled
  BY <1>2 DEF Counters
<1>4. \A f \in {"total", "delivered", "inProgress", "waiting"} : Get(n, f) = 0
  BY <1>2 DEF Counters
<1>5. /\ n.queued \in Nat /\ n.sending \in Nat /\ n.succeeded \in Nat
      /\ n.totalTasks \in Nat /\ n.retryScheduled \in Nat
  BY <1>2 DEF Counters
<1>6. Or(n.totalTasks, 0) = n.totalTasks /\ Or(n.succeeded, 0) = n.succeeded
      /\ Or(n.retryScheduled, 0) = n.retryScheduled
  BY DEF Or
<1>7. n.queued + n.sending + 0 = n.queued + n.sending
  BY <1>5
<1>8. /\ Or(Get(n, "totalTasks"), Get(n, "total")) = n.totalTasks
      /\ Or(Get(n, "succeeded"), Get(n, "delivered")) = n.succeeded
      /\ Get(n, "queued") + Get(n, "sending") + Get(n, "inProgress")
           = n.queued + n.sending
      /\ Or(Get(n, "retryScheduled"), Get(n, "waiting")) = n.retryScheduled
  BY <1>3, <1>4, <1>6, <1>7
<1>9. QED
  BY <1>3, <1>8 DEF AdaptStats

LEMMA StateCounters ==
  ASSUME NEW g \in States
  PROVE  /\ g.stats \in [Counters -> Nat]
         /\ Tasks(g.stats) = g.stats.totalTasks
         /\ g.stats.succeeded \in Nat
<1>1. CASE g \in Snapshots
  BY <1>1, SnapshotShape, SnapshotsAssumption
<1>2. CASE g = Nothing
  <2>1. g.stats = NoTasks /\ NoTasks \in [Counters -> Nat]
    BY <1>2 DEF Nothing, NoTasks
  <2>2. \A f \in Counters : NoTasks[f] = 0
    BY DEF NoTasks
  <2>3. /\ NoTasks.queued = 0 /\ NoTasks.sending = 0 /\ NoTasks.succeeded = 0
        /\ NoTasks.failed = 0 /\ NoTasks.retryScheduled = 0
        /\ NoTasks.deadLettered = 0 /\ NoTasks.cancelled = 0
        /\ NoTasks.totalTasks = 0
    BY <2>2 DEF Counters
  <2>4. QED
    BY <2>1, <2>3 DEF Tasks
<1>3. QED
  BY <1>1, <1>2 DEF States

\* The five numbers that a bar shows are those of the answer, and its parts
\* add up because the answer's counters do.
LEMMA StateAdapted ==
  ASSUME NEW g \in States
  PROVE  /\ AdaptStats(g.stats).delivered = g.stats.succeeded
         /\ Bar(AdaptStats(g.stats)) = AdaptStats(g.stats).total
<1> DEFINE n == g.stats
<1>1. n \in [Counters -> Nat] /\ Tasks(n) = n.totalTasks
  BY StateCounters
<1> HIDE DEF n
<1>2. AdaptStats(n) =
           [total      |-> n.totalTasks,
            delivered  |-> n.succeeded,
            inProgress |-> n.queued + n.sending,
            waiting    |-> n.retryScheduled,
            failed     |-> n.failed + n.deadLettered + n.cancelled]
  BY <1>1, Adapted
<1>3. /\ n.queued \in Nat /\ n.sending \in Nat /\ n.succeeded \in Nat
      /\ n.failed \in Nat /\ n.retryScheduled \in Nat
      /\ n.deadLettered \in Nat /\ n.cancelled \in Nat
  BY <1>1 DEF Counters
<1>4. Bar(AdaptStats(n)) = n.succeeded + (n.queued + n.sending)
                             + n.retryScheduled
                             + (n.failed + n.deadLettered + n.cancelled)
  BY <1>2 DEF Bar
<1>5. Bar(AdaptStats(n)) = Tasks(n)
  BY <1>3, <1>4 DEF Tasks
<1>6. QED
  BY <1>1, <1>2, <1>5 DEF n

\* Every entry has a status of the screen, and parts that add up.
LEMMA EntryFacts ==
  ASSUME NEW e \in Entries
  PROVE  /\ e.status \in ShownStatuses \cup {"none"}
         /\ e.stats.delivered \in Nat
         /\ Bar(e.stats) = e.stats.total
<1>1. PICK s \in States, g \in States : e = AdaptCampaign(s.status, g.stats)
  BY DEF Entries
<1>2. e.status = AdaptCampaignStatus(s.status) /\ e.stats = AdaptStats(g.stats)
  BY <1>1 DEF AdaptCampaign
<1>3. s.status \in Statuses \cup {"none"}
  BY SnapshotShape DEF States, Nothing
<1>4. e.status \in ShownStatuses \cup {"none"}
  BY <1>2, <1>3 DEF AdaptCampaignStatus, ShownStatuses, Statuses
<1>5. QED
  BY <1>2, <1>4, StateAdapted, StateCounters

\* What every state of the console satisfies.
ConsoleInv == OpsInv /\ Typed /\ ScreenInv

LEMMA InitConsole == Init => ConsoleInv
<1> SUFFICES ASSUME Init PROVE ConsoleInv
  OBVIOUS
<1>1. OpsInv
  <2>1. /\ kind = [o \in Slots |-> "free"] /\ op = [o \in Slots |-> NoOp]
        /\ running = {}
    BY DEF Init
  <2>2. \A o \in Slots : Fits(kind[o], op[o], o \in running)
    BY <2>1, NoOpShape DEF Fits, Awaited
  <2>3. QED
    BY <2>1, <2>2, NoOpShape DEF OpsInv
<1>2. Typed
  <2>1. campaigns \in [Campaigns -> Entries]
    BY NotListedIsOne DEF Init
  <2>2. ServerType
    BY InitialAssumption DEF Init, ServerType
  <2>3. token \in Tokens /\ stored \in Tokens
    BY FrontendAssumption DEF Init, Tokens
  <2>4. /\ sessions = 1 /\ valid = {1} /\ clicks = 0 /\ failures = 0
        /\ busy = FALSE /\ creating = FALSE /\ selected = 0 /\ rowsOf = 0
        /\ refreshTimer \in {-1, 0} /\ detailsTimer = 0 /\ clashes = {}
    BY DEF Init
  <2>5. /\ sessions \in 1 .. MaxSessions /\ valid \subseteq 1 .. sessions
        /\ clicks \in 0 .. MaxClicks /\ failures \in 0 .. MaxFailures
    BY <2>4, FrontendAssumption
  <2>6. QED
    BY <2>1, <2>2, <2>3, <2>4, <2>5 DEF Typed
<1>3. ScreenInv
  <2>1. /\ mounted = FALSE /\ timer = FALSE /\ form = FirstForm /\ asked = {}
        /\ estimate = [of |-> NoForm, loading |-> FALSE, error |-> FALSE]
        /\ sessions = 1
    BY DEF Init, Initially
  <2>2. estimate \in Estimates
    BY <2>1, EstimateType
  <2>3. QED
    BY <2>1, <2>2, CreateScreenAssumption DEF ScreenInv
<1>4. QED
  BY <1>1, <1>2, <1>3 DEF ConsoleInv

LEMMA NextConsole == ConsoleInv /\ [Next]_vars => ConsoleInv'
<1> SUFFICES ASSUME ConsoleInv, [Next]_vars PROVE ConsoleInv'
  OBVIOUS
<1>1. OpsInv'
  BY NextOps DEF ConsoleInv
<1>2. Typed'
  BY NextTyped DEF ConsoleInv
<1>3. ScreenInv'
  BY NextScreen DEF ConsoleInv
<1>4. QED
  BY <1>1, <1>2, <1>3 DEF ConsoleInv

LEMMA ConsoleInvariance == Spec => []ConsoleInv
  BY InitConsole, NextConsole, PTL DEF Spec

\* Every variable of the console keeps its type.
THEOREM ConsoleTyped == Spec => []TypeOK
<1>1. ConsoleInv => TypeOK
  <2> SUFFICES ASSUME ConsoleInv PROVE TypeOK
    OBVIOUS
  <2>1. CreateTypeOK
    BY DEF ConsoleInv, ScreenInv, CreateTypeOK
  <2>2. \A c \in Campaigns : campaigns[c].status \in ShownStatuses \cup {"none"}
    BY EntryFacts DEF ConsoleInv, Typed
  <2>3. QED
    BY <2>1, <2>2 DEF ConsoleInv, OpsInv, Typed, ServerType, TypeOK
<1>2. QED
  BY <1>1, ConsoleInvariance, PTL

\* The parts of every bar add up to its total, whichever copy of the
\* conversion wrote the entry, and if its status and its counters come from
\* different answers, for every eight counters that add up.
THEOREM BarsAlwaysAddUp == Spec => []BarsAddUp
<1>1. ConsoleInv => BarsAddUp
  BY EntryFacts DEF ConsoleInv, Typed, BarsAddUp, Listed
<1>2. QED
  BY <1>1, ConsoleInvariance, PTL


-----------------------------------------------------------------------------
(* The session, and the operations that may end it *)

\* Without a clash, and if localStorage has the token that is shown to be
\* good, an operation that runs while a manager is logged in is not a login,
\* and what it awaits was sent with the present token.
Current(o) ==
  /\ kind[o] # "login"
  /\ op[o].at # "idle" /\ ~op[o].read => op[o].tok = token
  /\ op[o].chan => op[o].chanTok = token

CurrentInv ==
  "busy" \notin clashes /\ token # 0 /\ stored = token =>
    \A o \in running : Current(o)

LEMMA NextCurrent ==
  ASSUME OpsInv, Typed, BusyInv, CurrentInv, [Next]_vars
  PROVE  CurrentInv'
<1> USE DEF sessionVars, opVars
<1>1. ASSUME UNCHANGED <<op, kind, running>>,
             UNCHANGED <<token, stored>> \/ token' = 0,
             "busy" \notin clashes' => "busy" \notin clashes
      PROVE  CurrentInv'
  BY <1>1 DEF CurrentInv, Current
<1>2. ASSUME \/ Login \/ Refresh \/ Create \/ Import \/ Cancel \/ Toggle
             \/ Replay \/ FireRefresh \/ FireDetails
      PROVE  CurrentInv'
  <2>1. UNCHANGED <<token, stored>> /\ stored \in Tokens
    BY <1>2 DEF Login, Refresh, Create, Import, Cancel, Toggle, Replay, Press,
                FireRefresh, FireDetails, Typed
  <2>2. ASSUME NEW k \in Kinds, NEW at \in Awaits, NEW camp \in Campaigns \cup {0},
               Begins(k, at, camp), k = "login" => token = 0
        PROVE  CurrentInv'
    <3>1. "busy" \notin clashes' => running = {}
      BY <2>2, BeginBusy
    <3>2. PICK o \in Slots : Added(o, k, at, camp)
      <4>1. PICK sel, taken : Begin(k, at, camp, sel, taken)
        BY <2>2 DEF Begins
      <4>2. QED
        BY <2>1, <4>1, BeginShape
    <3>3. token # 0 /\ stored = token => Current(o)'
      BY <2>1, <2>2, <3>2 DEF Added, Current
    <3>4. "busy" \notin clashes' => running' = {o}
      BY <3>1, <3>2 DEF Added
    <3>5. QED
      BY <2>1, <3>3, <3>4 DEF CurrentInv
  <2>3. /\ {"login", "refresh", "create", "post", "cancel", "toggle", "details"} \subseteq Kinds
        /\ {"login", "health", "post", "details"} \subseteq Awaits
    BY DEF Kinds, Awaits
  <2>4. /\ detailsTimer \in Campaigns \cup {0} /\ SelectedCampaign \in Campaigns \cup {0}
        /\ 0 \in Campaigns \cup {0}
    BY SelectedIsOne DEF Typed
  <2>5. QED
    BY <1>2, <2>2, <2>3, <2>4, BeginActions
<1>3. CASE \/ \E c \in Campaigns : Open(c)
           \/ Logout \/ GoToCreate \/ LeaveCreate \/ EditForm \/ FireEstimate
           \/ Estimate \/ UNCHANGED vars
  <2>1. /\ UNCHANGED <<op, kind, running, clashes>>
        /\ UNCHANGED <<token, stored>> \/ token' = 0
    BY <1>3 DEF Open, Logout, SessionEnds, GoToCreate, LeaveCreate, EditForm,
                FireEstimate, Estimate, vars
  <2>2. QED
    BY <1>1, <2>1
<1>4. CASE Reload
  BY <1>4 DEF Reload, CurrentInv
<1>5. ASSUME NEW o \in Slots, ServeRead(o) \/ Lose(o) \/ PollClock(o)
      PROVE  CurrentInv'
  <2>1. /\ UNCHANGED <<token, stored, kind, running>>
        /\ clashes' \in {clashes, clashes \cup {"list"}}
    BY <1>5 DEF ServeRead, Lose, PollClock
  <2>2. /\ OthersKept(o)
        /\ op'[o].at = op[o].at
        /\ op'[o].chan = op[o].chan /\ op'[o].chanTok = op[o].chanTok
        /\ ~op'[o].read => op'[o].tok = op[o].tok
    BY <1>5, NextOpsWait
  <2>3. ~op'[o].read => ~op[o].read
    <3>1. CASE PollClock(o)
      BY <3>1 DEF PollClock, OpsInv, Operations
    <3>2. CASE ServeRead(o) \/ Lose(o)
      BY <3>2 DEF ServeRead, Lose
    <3>3. QED
      BY <1>5, <3>1, <3>2
  <2>4. ASSUME NEW p \in running, Current(p) PROVE Current(p)'
    <3>1. CASE p = o
      BY <2>1, <2>2, <2>3, <2>4, <3>1 DEF Current
    <3>2. CASE p # o
      <4>1. p \in Slots \ {o}
        BY <3>2 DEF OpsInv
      <4>2. QED
        BY <2>1, <2>2, <2>4, <4>1 DEF Current, OthersKept
    <3>3. QED
      BY <3>1, <3>2
  <2>5. QED
    BY <2>1, <2>4 DEF CurrentInv
<1>6. ASSUME NEW o \in Slots, NEW r \in Operations, NEW done \in BOOLEAN,
             GoesOn(o, r), Finally(o, done), Over(r) => done,
             Over(r) \/ MainNext(o, r) \/ Left(o, r),
             clashes' = clashes, UNCHANGED <<token, stored>> \/ token' = 0
      PROVE  CurrentInv'
  <2>1. /\ running' = IF done THEN running \ {o} ELSE running
        /\ ~Over(r) => kind'[o] = kind[o] /\ op'[o] = r
        /\ OthersKept(o)
    BY <1>6, GoesOnShape
  <2>2. ASSUME "busy" \notin clashes, token # 0, stored = token,
               token' = token, NEW p \in running'
        PROVE  Current(p)'
    <3>1. p \in running /\ Current(p) /\ p \in Slots
      BY <2>1, <2>2 DEF CurrentInv, OpsInv
    <3>2. CASE p # o
      BY <2>1, <2>2, <3>1, <3>2 DEF OthersKept, Current
    <3>3. CASE p = o
      <4>1. ~done /\ ~Over(r)
        BY <1>6, <2>1, <2>2, <3>3
      <4>2. kind'[o] = kind[o] /\ op'[o] = r /\ kind[o] # "login"
        BY <2>1, <3>1, <3>3, <4>1 DEF Current
      <4>3. stored = token
        BY <2>2
      <4>4. CASE MainNext(o, r)
        <5>1. /\ r.at # "idle" => r.tok = token
              /\ r.chan => r.chanTok = token
          BY <3>1, <3>3, <4>3, <4>4 DEF MainNext, Current
        <5>2. QED
          BY <2>2, <3>3, <4>2, <5>1 DEF Current
      <4>5. CASE Left(o, r)
        <5>1. /\ r.at # "idle" /\ ~r.read => r.tok = token
              /\ r.chan => r.chanTok = token
          BY <3>1, <3>3, <4>1, <4>5 DEF Left, Current
        <5>2. QED
          BY <2>2, <3>3, <4>2, <5>1 DEF Current
      <4>6. QED
        BY <1>6, <4>1, <4>4, <4>5
    <3>4. QED
      BY <3>2, <3>3
  <2>3. QED
    BY <1>6, <2>2 DEF CurrentInv
<1>7. ASSUME NEW o \in Slots,
             \/ HealthAnswered(o) \/ PostAnswered(o) \/ ListAnswered(o)
             \/ StatsAnswered(o) \/ DetailsAnswered(o) \/ PollAnswered(o)
             \/ ChannelsAnswered(o)
      PROVE  CurrentInv'
  <2>1. ServerType'
    BY ServerMoves DEF Typed
  <2>2. PICK r \in Operations :
          Advance(o, r) /\ (Over(r) \/ MainNext(o, r) \/ Left(o, r))
    BY <1>7, <2>1, MainAnswered, PartAnswered
  <2>3. GoesOn(o, r) /\ Finally(o, Over(r)) /\ Over(r) \in BOOLEAN
    BY <2>2 DEF Advance, Over
  <2>4. UNCHANGED <<token, stored, clashes>>
    BY <1>7 DEF HealthAnswered, PostAnswered, ListAnswered, StatsAnswered,
                DetailsAnswered, PollAnswered, ChannelsAnswered
  <2>5. QED
    BY <1>6, <2>2, <2>3, <2>4
<1>8. ASSUME NEW o \in Slots, LoginAnswered(o)
      PROVE  CurrentInv'
  <2>1. op[o].at = "login" /\ clashes' = clashes /\ Advance(o, NoOp)
    BY <1>8 DEF LoginAnswered
  <2>2. kind[o] = "login"
    BY <2>1, AwaitedBy
  <2>3. o \in running
    BY <2>2 DEF OpsInv, Fits
  <2>4. running' = running \ {o}
    BY <2>1, NoOpShape DEF Advance, Finally, Over
  <2>5. "busy" \notin clashes => running' = {}
    BY <2>3, <2>4 DEF BusyInv
  <2>6. QED
    BY <2>1, <2>5 DEF CurrentInv
<1>9. ASSUME NEW o \in Slots,
             MainRejected(o) \/ PostRejected(o) \/ ChannelsRejected(o)
      PROVE  CurrentInv'
  <2>1. PICK r \in Operations : GoesOn(o, r) /\ Finally(o, TRUE) /\ Left(o, r)
    BY <1>9, PartRejected
  <2>2. clashes' = clashes /\ (UNCHANGED <<token, stored>> \/ token' = 0)
    BY <1>9 DEF MainRejected, PostRejected, ChannelsRejected, Rejected, SessionEnds
  <2>3. QED
    BY <1>6, <2>1, <2>2
<1>10. QED
  BY <1>2, <1>3, <1>4, <1>5, <1>7, <1>8, <1>9
     DEF Next, Manager, MainLine, ChannelsLine

\* The session of a manager whose token is still good, and the one that is
\* stored, ends only by a click.
SessionStays ==
  (/\ token \in valid' /\ stored = token
   /\ token' = 0 /\ "busy" \notin clashes)
    => clicks' # clicks

LEMMA NextSessionStays ==
  ASSUME OpsInv, Typed, CurrentInv, [Next]_vars
  PROVE  SessionStays
<1> USE DEF sessionVars, apiVars
<1>a. clicks \in Int /\ 0 \notin valid'
  <2>1. Typed'
    BY NextTyped
  <2>2. QED
    BY <2>1, FrontendAssumption DEF Typed
<1>1. SUFFICES ASSUME token \in valid', stored = token, token' = 0,
                      "busy" \notin clashes, clicks' = clicks
               PROVE  FALSE
  BY DEF SessionStays
<1>2. token # 0
  BY <1>a, <1>1
<1>3. ASSUME NEW o \in Slots, NEW r, NEW t, Rejected(o, r, t)
      PROVE  o \in running /\ t # token
  BY <1>1, <1>2, <1>3 DEF Rejected
<1>4. \A o \in running : Current(o)
  BY <1>1, <1>2 DEF CurrentInv
<1>5. ASSUME NEW o \in Slots, MainRejected(o) PROVE FALSE
  <2>1. /\ op[o].at \in {"login", "list", "details"} /\ ~op[o].read
        /\ Rejected(o, Done(op[o]), IF op[o].at = "login" THEN 0 ELSE op[o].tok)
    BY <1>5 DEF MainRejected
  <2>2. /\ o \in running
        /\ op[o].at # "login" => op[o].tok # token
    BY <1>3, <2>1
  <2>3. op[o].at # "login"
    BY <1>4, <2>2, AwaitedBy DEF Current
  <2>4. op[o].tok = token
    BY <1>4, <2>1, <2>2 DEF Current
  <2>5. QED
    BY <2>2, <2>3, <2>4
<1>6. ASSUME NEW o \in Slots, PostRejected(o) PROVE FALSE
  <2>1. op[o].at = "post" /\ Rejected(o, NoOp, op[o].tok)
    BY <1>6 DEF PostRejected
  <2>2. o \in running /\ op[o].tok # token
    BY <1>3, <2>1
  <2>3. ~op[o].read
    BY <2>1, AwaitedBy
  <2>4. QED
    BY <1>4, <2>1, <2>2, <2>3 DEF Current
<1>7. ASSUME NEW o \in Slots, ChannelsRejected(o) PROVE FALSE
  <2>1. op[o].chan /\ Rejected(o, ChannelsDone(op[o]), op[o].chanTok)
    BY <1>7 DEF ChannelsRejected
  <2>2. o \in running /\ op[o].chanTok # token
    BY <1>3, <2>1
  <2>3. QED
    BY <1>4, <2>1, <2>2 DEF Current
<1>8. ASSUME Manager PROVE FALSE
  <2>1. clicks' = clicks + 1 \/ token' = token
    BY <1>8 DEF Manager, Login, Refresh, Create, Import, Cancel, Toggle, Replay,
         Press, Open, Logout, GoToCreate, LeaveCreate, EditForm, Reload, Click
  <2>2. QED
    BY <1>a, <1>1, <1>2, <2>1
<1>9. ASSUME NEW o \in Slots, LoginAnswered(o) PROVE FALSE
  <2>1. token' = sessions + 1 /\ sessions \in Nat
    BY <1>9, FrontendAssumption DEF LoginAnswered, Typed
  <2>2. QED
    BY <1>1, <2>1
<1>10. ASSUME \/ FireRefresh \/ FireDetails \/ FireEstimate \/ Estimate
              \/ UNCHANGED vars
              \/ \E o \in Slots :
                   \/ ServeRead(o) \/ Lose(o) \/ HealthAnswered(o)
                   \/ PostAnswered(o) \/ ListAnswered(o) \/ StatsAnswered(o)
                   \/ DetailsAnswered(o) \/ PollAnswered(o)
                   \/ ChannelsAnswered(o) \/ PollClock(o)
       PROVE  FALSE
  <2>1. token' = token
    BY <1>10 DEF FireRefresh, FireDetails, FireEstimate, Estimate, vars,
         ServeRead, Lose, HealthAnswered, PostAnswered, ListAnswered,
         StatsAnswered, DetailsAnswered, PollAnswered, ChannelsAnswered,
         PollClock
  <2>2. QED
    BY <1>1, <1>2, <2>1
<1>11. QED
  BY <1>5, <1>6, <1>7, <1>8, <1>9, <1>10 DEF Next, MainLine, ChannelsLine

\* However many operations a manager has in flight, and however late their
\* answers are, none of them ends a session that is newer than itself, as
\* long as none took "busy" from another and localStorage has the token.
THEOREM GoodSessionsStay == Spec => GoodSessionStays
<1> DEFINE I == ConsoleInv /\ BusyInv /\ CurrentInv
<1>1. Init => I
  <2>1. Init => BusyInv /\ CurrentInv
    BY DEF Init, BusyInv, BusyTells, InFlight, CurrentInv
  <2>2. QED
    BY <2>1, InitConsole
<1>2. I /\ [Next]_vars => I'
  BY NextConsole, NextBusy, NextCurrent DEF ConsoleInv
<1>3. I /\ [Next]_vars => [SessionStays]_vars
  BY NextSessionStays DEF ConsoleInv
<1>4. Spec => [][SessionStays]_vars
  BY <1>1, <1>2, <1>3, PTL DEF Spec
<1>5. GoodSessionStays <=> [][SessionStays]_vars
  BY DEF GoodSessionStays, SessionStays
<1>6. QED
  BY <1>4, <1>5


-----------------------------------------------------------------------------
(* The rows of the campaign that was chosen *)

\* The effect's timer is for the selection.  While it does not run, each
\* load of rows in flight is for the selection too, and either the rows are
\* there or a load is to come, unless the session ends or a request fails.
RowsInv ==
  /\ detailsTimer \in {0, selected}
  /\ token = 0 => detailsTimer = 0
  /\ token # 0 /\ failures = 0 /\ "rows" \notin clashes /\ selected # 0 =>
       \/ detailsTimer = selected
       \/ /\ \A o \in Slots : Writer(o) => op[o].camp = selected
          /\ rowsOf = selected \/ \E o \in Slots : Writer(o)

LEMMA HeldWhat ==
  ASSUME OpsInv
  PROVE  /\ Held("rows") <=> \E o \in Slots : Writer(o)
         /\ Held("list") <=> \E o \in Slots :
              /\ kind[o] \in {"refresh", "details", "create", "cancel"}
              /\ op[o].at # "idle"
<1>1. ASSUME NEW o \in Slots
      PROVE  /\ o \in InFlight /\ "rows" \in Writes[kind[o]] <=> Writer(o)
             /\ o \in InFlight /\ "list" \in Writes[kind[o]] <=>
                  kind[o] \in {"refresh", "details", "create", "cancel"}
             /\ Writer(o) => op[o].at # "idle"
  <2>1. kind[o] \in Kinds \cup {"free"} /\ op[o].at \in Awaited[kind[o]]
    BY DEF OpsInv, Fits
  <2>2. kind[o] # "free" => ("rows" \in Writes[kind[o]] <=> Writer(o))
    BY <2>1 DEF Kinds, Writes, Writer
  <2>3. kind[o] # "free" => ("list" \in Writes[kind[o]] <=>
                  kind[o] \in {"refresh", "details", "create", "cancel"})
    BY <2>1 DEF Kinds, Writes
  <2>4. Writer(o) => op[o].at # "idle"
    BY <2>1 DEF Writer, Awaited
  <2>5. QED
    BY <2>2, <2>3, <2>4 DEF InFlight, Writer
<1>2. InFlight \subseteq Slots
  BY DEF InFlight
<1>3. Held("rows") <=> \E o \in InFlight : "rows" \in Writes[kind[o]] /\ op[o].at # "idle"
  BY DEF Held
<1>4. Held("list") <=> \E o \in InFlight : "list" \in Writes[kind[o]] /\ op[o].at # "idle"
  BY DEF Held
<1>5. QED
  BY <1>1, <1>2, <1>3, <1>4

\* When no clash of the rows is left after an operation started.
LEMMA BeginRows ==
  ASSUME OpsInv, NEW k \in Kinds, NEW at, NEW camp, Begins(k, at, camp),
         "rows" \notin clashes'
  PROVE  /\ k \in {"details", "cancel"} => \A o \in Slots : ~Writer(o)
         /\ k = "cancel" => camp = selected
         /\ k \notin {"details", "cancel"} => "rows" \notin clashes
<1>1. PICK sel, taken : Begin(k, at, camp, sel, taken)
  BY DEF Begins
<1>2. clashes' = {w \in Resources :
                    IF Held(w) THEN w \in clashes \cup Writes[k] \cup taken
                    ELSE w \in (clashes \ (Writes[k] \cup {"busy"}))
                                 \cup Stray(k, camp)}
  BY <1>1 DEF Begin
<1>3. "rows" \in Resources /\ "rows" # "busy"
  BY DEF Resources
<1>4. "rows" \in Writes[k] <=> k \in {"details", "cancel"}
  BY DEF Kinds, Writes
<1>5. /\ Held("rows") => "rows" \notin clashes /\ "rows" \notin Writes[k]
      /\ ~Held("rows") => /\ "rows" \notin Stray(k, camp)
                          /\ "rows" \in Writes[k] \/ "rows" \notin clashes
  BY <1>2, <1>3
<1>6. k = "cancel" => camp = selected
  BY <1>4, <1>5 DEF Stray
<1>7. QED
  BY <1>4, <1>5, <1>6, HeldWhat

LEMMA NextRows ==
  ASSUME OpsInv, Typed, RowsInv, [Next]_vars
  PROVE  RowsInv'
<1> USE DEF screenVars, sessionVars, timerVars, opVars, bounds
<1>a. failures \in Nat
  BY FrontendAssumption DEF Typed
\* Nothing that RowsInv looks at changes, but for the session's end, a failure
\* or what other operations do.
<1>1. ASSUME UNCHANGED <<selected, rowsOf>>,
             \/ UNCHANGED <<token, detailsTimer>>
             \/ token' = 0 /\ detailsTimer' = 0,
             failures' = failures \/ failures' = failures + 1,
             "rows" \notin clashes' => "rows" \notin clashes,
             \/ failures' # failures \/ token' = 0
             \/ \A p \in Slots : /\ Writer(p)' <=> Writer(p)
                                 /\ Writer(p) => op'[p].camp = op[p].camp
      PROVE  RowsInv'
  <2>1. failures' = 0 => failures = 0 /\ failures' = failures
    BY <1>a, <1>1
  <2>2. CASE token' = 0
    BY <1>1, <2>2 DEF RowsInv
  <2>3. CASE token' # 0
    <3>1. UNCHANGED <<token, detailsTimer>>
      BY <1>1, <2>3
    <3>2. ASSUME failures' = 0, "rows" \notin clashes', selected' # 0,
                 detailsTimer' # selected'
          PROVE  /\ \A p \in Slots : Writer(p)' => op'[p].camp = selected'
                 /\ rowsOf' = selected' \/ \E p \in Slots : Writer(p)'
      <4>1. /\ \A p \in Slots : Writer(p) => op[p].camp = selected
            /\ rowsOf = selected \/ \E p \in Slots : Writer(p)
        BY <1>1, <2>1, <2>3, <3>1, <3>2 DEF RowsInv
      <4>2. \A p \in Slots : /\ Writer(p)' <=> Writer(p)
                             /\ Writer(p) => op'[p].camp = op[p].camp
        BY <1>1, <2>1, <2>3, <3>2
      <4>3. QED
        BY <1>1, <4>1, <4>2
    <3>3. QED
      BY <1>1, <3>1, <3>2 DEF RowsInv
  <2>4. QED
    BY <2>2, <2>3
<1>2. ASSUME UNCHANGED <<op, kind>>
      PROVE  \A p \in Slots : /\ Writer(p)' <=> Writer(p)
                              /\ Writer(p) => op'[p].camp = op[p].camp
  BY <1>2 DEF Writer
\* An operation starts.
<1>3. ASSUME NEW k \in Kinds, NEW at \in Awaits, NEW camp \in Campaigns \cup {0},
             Begins(k, at, camp), UNCHANGED <<token, failures, selected, rowsOf>>,
             IF k = "details"
             THEN camp = detailsTimer /\ detailsTimer # 0 /\ detailsTimer' = 0
             ELSE detailsTimer' = detailsTimer
      PROVE  RowsInv'
  <2>1. PICK o \in Slots : Added(o, k, at, camp)
    <3>1. PICK sel, taken : Begin(k, at, camp, sel, taken)
      BY <1>3 DEF Begins
    <3>2. stored \in Tokens
      BY DEF Typed
    <3>3. QED
      BY <3>1, <3>2, BeginShape
  <2>2. /\ \A p \in Slots \ {o} : /\ Writer(p)' <=> Writer(p)
                                  /\ Writer(p) => op'[p].camp = op[p].camp
        /\ ~Writer(o) /\ (Writer(o)' <=> k \in {"details", "cancel"})
        /\ op'[o].camp = camp
    BY <2>1 DEF Added, OthersKept, Writer
  <2>3. CASE k \notin {"details", "cancel"}
    <3>1. "rows" \notin clashes' => "rows" \notin clashes
      BY <1>3, <2>3, BeginRows
    <3>2. \A p \in Slots : /\ Writer(p)' <=> Writer(p)
                           /\ Writer(p) => op'[p].camp = op[p].camp
      BY <2>2, <2>3
    <3>3. QED
      BY <1>1, <1>3, <2>3, <3>1, <3>2
  <2>4. CASE k \in {"details", "cancel"}
    <3>1. ASSUME "rows" \notin clashes'
          PROVE  /\ camp = selected
                 /\ \A p \in Slots : Writer(p)' <=> p = o
      <4>1. /\ \A p \in Slots : ~Writer(p)
            /\ k = "cancel" => camp = selected
        BY <1>3, <2>4, <3>1, BeginRows
      <4>2. k = "details" => camp = selected
        BY <1>3 DEF RowsInv
      <4>3. QED
        BY <2>2, <2>4, <4>1, <4>2
    <3>2. /\ detailsTimer' \in {0, selected'}
          /\ token' = 0 => detailsTimer' = 0
      BY <1>3 DEF RowsInv
    <3>3. QED
      BY <1>3, <2>2, <3>1, <3>2 DEF RowsInv
  <2>5. QED
    BY <2>3, <2>4
<1>4. ASSUME \/ Login \/ Refresh \/ Create \/ Import \/ Cancel \/ Toggle
             \/ Replay \/ FireRefresh \/ FireDetails
      PROVE  RowsInv'
  <2>1. /\ {"login", "refresh", "create", "post", "cancel", "toggle", "details"} \subseteq Kinds
        /\ {"login", "health", "post", "details"} \subseteq Awaits
    BY DEF Kinds, Awaits
  <2>2. /\ detailsTimer \in Campaigns \cup {0} /\ SelectedCampaign \in Campaigns \cup {0}
        /\ 0 \in Campaigns \cup {0}
    BY SelectedIsOne DEF Typed
  <2>3. CASE FireDetails
    <3>1. /\ Begins("details", "details", detailsTimer)
          /\ detailsTimer # 0 /\ detailsTimer' = 0
          /\ UNCHANGED <<token, failures, selected, rowsOf>>
      BY <2>3 DEF FireDetails, Begins
    <3>2. QED
      BY <1>3, <2>1, <2>2, <3>1
  <2>4. CASE \/ Login \/ Refresh \/ Create \/ Import \/ Cancel \/ Toggle
             \/ Replay \/ FireRefresh
    <3>1. UNCHANGED <<token, failures, selected, rowsOf, detailsTimer>>
      BY <2>4 DEF Login, Refresh, Create, Import, Cancel, Toggle, Replay, Press,
                  FireRefresh
    <3>2. \/ Begins("login", "login", 0)
          \/ Begins("refresh", "health", 0)
          \/ Begins("create", "post", 0)
          \/ Begins("post", "post", 0)
          \/ Begins("cancel", "post", SelectedCampaign)
          \/ Begins("toggle", "post", 0)
      BY <2>4 DEF Login, Refresh, Create, Import, Cancel, Toggle, Replay, Press,
                  FireRefresh, Begins
    <3>3. QED
      BY <1>3, <2>1, <2>2, <3>1, <3>2
  <2>5. QED
    BY <1>4, <2>3, <2>4
\* A campaign is chosen by the manager, or by the first list.
<1>5. ASSUME NEW c, selected' = c, SelectionEffect(c),
             UNCHANGED <<token, rowsOf, failures>>,
             "rows" \notin clashes' => "rows" \notin clashes,
             \A p \in Slots : /\ Writer(p)' <=> Writer(p)
                              /\ Writer(p) => op'[p].camp = op[p].camp
      PROVE  RowsInv'
  <2>1. CASE c = selected
    <3>1. UNCHANGED <<selected, detailsTimer>>
      BY <1>5, <2>1 DEF SelectionEffect
    <3>2. QED
      BY <1>1, <1>5, <3>1
  <2>2. CASE c # selected /\ token # 0
    BY <1>5, <2>2 DEF SelectionEffect, RowsInv
  <2>3. CASE c # selected /\ token = 0
    <3>1. detailsTimer' = 0
      BY <1>5, <2>3 DEF SelectionEffect, RowsInv
    <3>2. QED
      BY <1>5, <2>3, <3>1 DEF RowsInv
  <2>4. QED
    BY <2>1, <2>2, <2>3
<1>6. ASSUME NEW c \in Campaigns, Open(c) PROVE RowsInv'
  <2>1. /\ selected' = c /\ SelectionEffect(c)
        /\ UNCHANGED <<token, rowsOf, failures, clashes, op, kind>>
    BY <1>6 DEF Open
  <2>2. QED
    BY <1>2, <1>5, <2>1
<1>7. CASE \/ Logout \/ GoToCreate \/ LeaveCreate \/ EditForm \/ FireEstimate
           \/ Estimate \/ UNCHANGED vars
  <2>1. /\ UNCHANGED <<op, kind, selected, rowsOf, clashes>>
        /\ \/ UNCHANGED <<token, detailsTimer>>
           \/ token' = 0 /\ detailsTimer' = 0
        /\ failures' = failures \/ failures' = failures + 1
    BY <1>7 DEF Logout, SessionEnds, Store, GoToCreate, LeaveCreate, EditForm,
                FireEstimate, Estimate, Fails, vars
  <2>2. QED
    BY <1>1, <1>2, <2>1
<1>8. CASE Reload
  BY <1>8 DEF Reload, RowsInv
<1>9. ASSUME NEW o \in Slots, ServeRead(o) \/ Lose(o) \/ PollClock(o)
      PROVE  RowsInv'
  <2>1. /\ UNCHANGED <<token, kind, selected, rowsOf, detailsTimer>>
        /\ clashes' \in {clashes, clashes \cup {"list"}}
        /\ failures' = failures \/ failures' = failures + 1
    BY <1>9 DEF ServeRead, Lose, PollClock, Fails
  <2>2. OthersKept(o) /\ op'[o].camp = op[o].camp
    BY <1>9, NextOpsWait
  <2>3. \A p \in Slots : /\ Writer(p)' <=> Writer(p)
                         /\ Writer(p) => op'[p].camp = op[p].camp
    BY <2>1, <2>2 DEF OthersKept, Writer
  <2>4. "rows" \notin clashes' => "rows" \notin clashes
    BY <2>1
  <2>5. QED
    BY <1>1, <2>1, <2>3, <2>4
\* An operation goes on.
<1>10. ASSUME NEW o \in Slots, NEW r \in Operations, NEW done \in BOOLEAN,
              GoesOn(o, r), Finally(o, done),
              Over(r) \/ MainNext(o, r) \/ Left(o, r)
       PROVE  /\ \A p \in Slots \ {o} : /\ Writer(p)' <=> Writer(p)
                                        /\ Writer(p) => op'[p].camp = op[p].camp
              /\ Over(r) => ~Writer(o)'
              /\ ~Over(r) => (Writer(o)' <=> Writer(o)) /\ op'[o].camp = op[o].camp
  <2>1. /\ Over(r) => kind'[o] = "free"
        /\ ~Over(r) => kind'[o] = kind[o] /\ op'[o] = r
        /\ OthersKept(o)
    BY <1>10, GoesOnShape
  <2>2. ~Over(r) => r.camp = op[o].camp
    BY <1>10 DEF MainNext, Left
  <2>3. QED
    BY <2>1, <2>2 DEF OthersKept, Writer
\* Only the last answer ends an operation that writes the rows.
<1>11. ASSUME NEW o \in Slots,
              \/ LoginAnswered(o) \/ HealthAnswered(o) \/ PostAnswered(o)
              \/ ListAnswered(o) \/ StatsAnswered(o) \/ PollAnswered(o)
       PROVE  \A p \in Slots : /\ Writer(p)' <=> Writer(p)
                               /\ Writer(p) => op'[p].camp = op[p].camp
  <2>1. ServerType'
    BY ServerMoves DEF Typed
  <2>2. PICK r \in Operations :
          /\ Advance(o, r)
          /\ Over(r) \/ MainNext(o, r)
          /\ Over(r) => op[o].at = "details" \/ ~Writer(o)
    BY <1>11, <2>1, MainAnswered
  <2>3. GoesOn(o, r) /\ Finally(o, Over(r)) /\ Over(r) \in BOOLEAN
    BY <2>2 DEF Advance, Over
  <2>4. Over(r) => ~Writer(o)
    BY <1>11, <2>2 DEF LoginAnswered, HealthAnswered, PostAnswered, ListAnswered,
                       StatsAnswered, PollAnswered
  <2>5. QED
    BY <1>10, <2>2, <2>3, <2>4
<1>12. ASSUME NEW o \in Slots, ChannelsAnswered(o)
       PROVE  \A p \in Slots : /\ Writer(p)' <=> Writer(p)
                               /\ Writer(p) => op'[p].camp = op[p].camp
  <2>1. PICK r \in Operations : Advance(o, r) /\ Left(o, r)
    BY <1>12, PartAnswered
  <2>2. GoesOn(o, r) /\ Finally(o, Over(r)) /\ Over(r) \in BOOLEAN
    BY <2>1 DEF Advance, Over
  <2>3. ~Writer(o)
    BY <1>12, AwaitedBy DEF ChannelsAnswered, Writer
  <2>4. QED
    BY <1>10, <2>1, <2>2, <2>3
<1>13. ASSUME NEW o \in Slots,
              \/ HealthAnswered(o) \/ PostAnswered(o) \/ ListAnswered(o)
              \/ PollAnswered(o) \/ ChannelsAnswered(o)
       PROVE  RowsInv'
  <2>1. UNCHANGED <<token, detailsTimer, selected, rowsOf, failures, clashes>>
    BY <1>13 DEF HealthAnswered, PostAnswered, ListAnswered, PollAnswered,
                 ChannelsAnswered
  <2>2. QED
    BY <1>1, <1>11, <1>12, <1>13, <2>1
<1>14. ASSUME NEW o \in Slots, StatsAnswered(o) PROVE RowsInv'
  <2>1. /\ SelectionEffect(selected')
        /\ UNCHANGED <<token, rowsOf, failures, clashes>>
    BY <1>14 DEF StatsAnswered
  <2>2. QED
    BY <1>5, <1>11, <1>14, <2>1
\* A login sets the timer for the selection.
<1>15. ASSUME NEW o \in Slots, LoginAnswered(o) PROVE RowsInv'
  <2>1. /\ UNCHANGED <<selected, rowsOf, clashes>>
        /\ failures' = failures \/ failures' = failures + 1
        /\ IF token = 0 THEN detailsTimer' = selected ELSE detailsTimer' = detailsTimer
        /\ token' = sessions + 1
    BY <1>15 DEF LoginAnswered, Store, Fails
  <2>6. failures' = 0 => failures = 0
    BY <1>a, <2>1
  <2>2. token' # 0
    BY <2>1, FrontendAssumption DEF Typed
  <2>3. CASE token = 0
    BY <2>1, <2>2, <2>3 DEF RowsInv
  <2>4. CASE token # 0
    BY <1>11, <1>15, <2>1, <2>2, <2>4, <2>6 DEF RowsInv
  <2>5. QED
    BY <2>3, <2>4
\* The rows of a campaign arrive: without a clash, of the one selected.
<1>16. ASSUME NEW o \in Slots, DetailsAnswered(o) PROVE RowsInv'
  <2>1. /\ op[o].at = "details" /\ rowsOf' = op[o].camp
        /\ UNCHANGED <<token, detailsTimer, selected, failures, clashes>>
        /\ Advance(o, NoOp)
    BY <1>16 DEF DetailsAnswered
  <2>2. Writer(o)
    BY <2>1, AwaitedBy DEF Writer
  <2>3. Over(NoOp) /\ NoOp \in Operations
    BY NoOpShape DEF Over
  <2>4. GoesOn(o, NoOp) /\ Finally(o, TRUE)
    BY <2>1, <2>3 DEF Advance
  <2>5. /\ \A p \in Slots \ {o} : /\ Writer(p)' <=> Writer(p)
                                  /\ Writer(p) => op'[p].camp = op[p].camp
        /\ ~Writer(o)'
    BY <1>10, <2>3, <2>4
  <2>6. QED
    BY <2>1, <2>2, <2>5 DEF RowsInv
\* A rejection ends the session or is a failure, but for a part that is left
\* of an operation that writes no rows.
<1>17. ASSUME NEW o \in Slots,
              MainRejected(o) \/ PostRejected(o) \/ ChannelsRejected(o)
       PROVE  RowsInv'
  <2>1. PICK r \in Operations : GoesOn(o, r) /\ Finally(o, TRUE) /\ Left(o, r)
    BY <1>17, PartRejected
  <2>2. PICK x, t : Rejected(o, x, t)
    BY <1>17 DEF MainRejected, PostRejected, ChannelsRejected
  <2>3. /\ UNCHANGED <<selected, rowsOf, clashes>>
        /\ \/ UNCHANGED <<token, detailsTimer>>
           \/ token' = 0 /\ detailsTimer' = 0
        /\ failures' = failures \/ failures' = failures + 1
        /\ o \in running => token' = 0 \/ failures' = failures + 1
    BY <2>2 DEF Rejected, SessionEnds, Store, Fails
  <2>4. Writer(o) => o \in running
    BY DEF Writer, OpsInv, Fits
  <2>5. ~Writer(o) => \A p \in Slots : /\ Writer(p)' <=> Writer(p)
                                       /\ Writer(p) => op'[p].camp = op[p].camp
    BY <1>10, <2>1
  <2>6. failures' = failures + 1 => failures' # failures
    BY <1>a
  <2>7. QED
    BY <1>1, <2>3, <2>4, <2>5, <2>6
<1>18. QED
  BY <1>4, <1>6, <1>7, <1>8, <1>9, <1>13, <1>14, <1>15, <1>16, <1>17
     DEF Next, Manager, MainLine, ChannelsLine

\* At rest, and without a clash, the rows are those of the campaign that was
\* chosen, after any number of choices, cancels, refreshes and logins.
THEOREM RowsAreOfSelected == Spec => []RowsOfSelected
<1> DEFINE I == ConsoleInv /\ RowsInv
<1>1. Init => I
  <2>1. Init => RowsInv
    BY DEF Init, RowsInv
  <2>2. QED
    BY <2>1, InitConsole
<1>2. I /\ [Next]_vars => I'
  BY NextConsole, NextRows DEF ConsoleInv
<1>3. I => RowsOfSelected
  <2> SUFFICES ASSUME OpsInv, RowsInv, Resting, selected # 0, "rows" \notin clashes
               PROVE  rowsOf = selected
    BY DEF ConsoleInv, RowsOfSelected
  <2>1. \A o \in Slots : ~Writer(o)
    BY DEF Resting, InFlight, Writer
  <2>2. QED
    BY <2>1 DEF Resting, RowsInv
<1>4. QED
  BY <1>1, <1>2, <1>3, PTL DEF Spec


-----------------------------------------------------------------------------
(* What is shown of a campaign *)

Delivered(g) == g.stats.succeeded
StatusRank(s) == Rank(AdaptCampaignStatus(s.status))

\* Entry e shows nothing that the API would not have said in state s.
Within(e, s) == Rank(e.status) <= StatusRank(s) /\ e.stats.delivered <= Delivered(s)

\* An entry whose status is that of s and whose counters are those of g.
Shows(e, s, g) ==
  e.status = AdaptCampaignStatus(s.status) /\ e.stats.delivered = Delivered(g)

LEMMA DeliveredIsNat == \A g \in States : Delivered(g) \in Nat
  BY StateCounters DEF Delivered

LEMMA RankOrder ==
  ASSUME NEW s \in States \ {Nothing}, NEW u \in After[s]
  PROVE  /\ u \in States \ {Nothing}
         /\ StatusRank(s) \in 0 .. 2 /\ StatusRank(u) \in 0 .. 2
         /\ StatusRank(s) <= StatusRank(u) /\ Delivered(s) <= Delivered(u)
<1>1. s \in Snapshots
  BY DEF States
<1>2. /\ u \in Snapshots /\ u.status \in Becomes(s.status)
      /\ u.stats.succeeded >= s.stats.succeeded
  BY DEF After
<1>3. /\ s.status \in Statuses /\ u.status \in Statuses
      /\ s.stats.succeeded \in Nat /\ u.stats.succeeded \in Nat
      /\ u \in States \ {Nothing}
  BY <1>1, <1>2, SnapshotShape
<1>4. /\ StatusRank(s) \in 0 .. 2 /\ StatusRank(u) \in 0 .. 2
      /\ StatusRank(s) <= StatusRank(u)
  BY <1>2, <1>3 DEF StatusRank, Rank, AdaptCampaignStatus, Becomes, Statuses
<1>5. Delivered(s) <= Delivered(u)
  BY <1>2, <1>3 DEF Delivered
<1>6. QED
  BY <1>3, <1>4, <1>5

LEMMA WithinLater ==
  ASSUME NEW e \in Entries, NEW s \in States \ {Nothing},
         NEW u \in After[s], Within(e, s)
  PROVE  Within(e, u)
<1>1. Rank(e.status) \in 0 .. 2 /\ e.stats.delivered \in Nat
  BY EntryFacts DEF Rank
<1>2. u \in States
  BY RankOrder
<1>3. Delivered(s) \in Nat /\ Delivered(u) \in Nat
  BY <1>2, DeliveredIsNat
<1>4. /\ StatusRank(s) \in 0 .. 2 /\ StatusRank(u) \in 0 .. 2
      /\ StatusRank(s) <= StatusRank(u) /\ Delivered(s) <= Delivered(u)
  BY RankOrder
<1>5. QED
  BY <1>1, <1>3, <1>4 DEF Within

\* What an entry shows that was made of two answers.
LEMMA AdaptedShows ==
  ASSUME NEW s \in States, NEW g \in States
  PROVE  Shows(AdaptCampaign(s.status, g.stats), s, g)
  BY StateAdapted DEF AdaptCampaign, Shows, Delivered

LEMMA UpdatedShows ==
  ASSUME Typed, NEW c \in Campaigns, NEW s \in States,
         campaigns' = Updated(c, s)
  PROVE  /\ \A d \in Campaigns : d # c \/ d \notin Listed => campaigns'[d] = campaigns[d]
         /\ c \in Listed => Shows(campaigns'[c], s, s)
<1> DEFINE e == AdaptCampaign(s.status, s.stats)
<1>1. Shows(e, s, s)
  BY AdaptedShows
<1>2. e = [status |-> MapCampaignStatus(s.status),
           stats |-> NormalizeCampaignStats(s.stats)]
  BY Alike DEF AdaptCampaign
<1> HIDE DEF e
<1>3. campaigns' = [campaigns EXCEPT ![c] = IF c \in Listed THEN e ELSE campaigns[c]]
  BY <1>2 DEF Updated, Typed
<1>4. QED
  BY <1>1, <1>3 DEF Typed

LEMMA LoadedShows ==
  ASSUME OpsInv, Typed, NEW o \in Slots, StatsAnswered(o), NEW c \in Campaigns
  PROVE  IF op[o].base[c] = Nothing THEN campaigns'[c] = NotListed
         ELSE Shows(campaigns'[c], op[o].base[c], op[o].got[c])
<1> DEFINE items == {d \in Campaigns : op[o].base[d] # Nothing}
           E(d) == AdaptCampaign(op[o].base[d].status, op[o].got[d].stats)
<1>1. op[o].base[c] \in States /\ op[o].got[c] \in States
  BY DEF OpsInv, Operations
<1>2. campaigns' = [d \in Campaigns |-> IF d \in items THEN E(d) ELSE NotListed]
  BY DEF StatsAnswered
<1>3. Shows(E(c), op[o].base[c], op[o].got[c])
  BY <1>1, AdaptedShows
<1> HIDE DEF E
<1>4. QED
  BY <1>2, <1>3

\* The answers to ServeRead and Lose.
LEMMA AnswersRead ==
  ASSUME OpsInv, NEW o \in Slots, ServeRead(o) \/ Lose(o), NEW c \in Campaigns
  PROVE  /\ op'[o].read /\ ~op[o].read
         /\ op'[o].got[c] \in {Nothing, server[c], server'[c]}
         /\ Lose(o) => op'[o].got[c] \in {Nothing, server[c]} /\ server' = server
         /\ ServeRead(o) /\ c \in AsksFor(o) => op'[o].got[c] = server'[c]
<1> USE DEF apiVars
<1>1. ASSUME NEW g, op' = [op EXCEPT ![o] = [op[o] EXCEPT !.read = TRUE, !.tok = 0, !.got = g]]
      PROVE  op'[o].read /\ op'[o].got = g
  BY <1>1 DEF OpsInv, Operations
<1>2. CASE ServeRead(o)
  <2> DEFINE g == [d \in Campaigns |-> IF d \in AsksFor(o) THEN server'[d] ELSE Nothing]
  <2>1. /\ op' = [op EXCEPT ![o] = [op[o] EXCEPT !.read = TRUE, !.tok = 0, !.got = g]]
        /\ ~op[o].read
    BY <1>2 DEF ServeRead
  <2>2. g[c] = IF c \in AsksFor(o) THEN server'[c] ELSE Nothing
    OBVIOUS
  <2> HIDE DEF g
  <2>3. op'[o].read /\ op'[o].got = g
    BY <1>1, <2>1
  <2>4. Lose(o) => server' = server
    BY DEF Lose
  <2>5. QED
    BY <1>2, <2>1, <2>2, <2>3, <2>4
<1>3. CASE Lose(o) /\ ~ServeRead(o)
  <2>1. PICK lost \in SUBSET AsksFor(o) :
          op' = [op EXCEPT ![o] =
                   [@ EXCEPT !.read = TRUE, !.tok = 0,
                             !.got = [d \in Campaigns |->
                               IF d \in AsksFor(o) \ lost
                               THEN server[d] ELSE Nothing]]]
    BY <1>3 DEF Lose
  <2> DEFINE g == [d \in Campaigns |->
                     IF d \in AsksFor(o) \ lost THEN server[d] ELSE Nothing]
  <2>2. /\ op' = [op EXCEPT ![o] = [op[o] EXCEPT !.read = TRUE, !.tok = 0, !.got = g]]
        /\ ~op[o].read /\ server' = server
    BY <1>3, <2>1 DEF Lose
  <2>3. g[c] \in {Nothing, server[c]}
    OBVIOUS
  <2> HIDE DEF g
  <2>4. op'[o].read /\ op'[o].got = g
    BY <1>1, <2>2
  <2>5. QED
    BY <1>3, <2>2, <2>3, <2>4
<1>4. QED
  BY <1>2, <1>3


\* What an operation has heard of the campaigns was true once, and the one it
\* is about exists; details are never lost.
Heard(o) ==
  /\ \A c \in Campaigns : /\ server[c] \in After[op[o].base[c]]
                          /\ server[c] \in After[op[o].got[c]]
  /\ op[o].camp # 0 => Exists(op[o].camp)
  /\ op[o].at = "details" /\ op[o].read => op[o].got[op[o].camp] # Nothing

HeardInv == \A o \in Slots : Heard(o)

\* Whatever is on the screen was true once.
ShownInv ==
  /\ selected # 0 => Exists(selected)
  /\ detailsTimer # 0 => Exists(detailsTimer)
  /\ \A c \in Campaigns : campaigns[c] # NotListed =>
       Exists(c) /\ Within(campaigns[c], server[c])

LEMMA SelectedExists ==
  ASSUME Typed, ShownInv
  PROVE  SelectedCampaign # 0 => Exists(SelectedCampaign)
<1>1. Listed \subseteq Campaigns /\ \A c \in Listed : Exists(c)
  BY DEF Listed, ShownInv
<1>2. Listed # {} => Newest(Listed) \in Listed
  BY <1>1, NewestIsOne
<1>3. Listed = {} => Newest(Listed) = 0
  BY NewestIsOne
<1>4. QED
  BY <1>1, <1>2, <1>3 DEF SelectedCampaign

LEMMA StillExists ==
  ASSUME Typed, OpsInv, [Next]_vars, NEW c \in Campaigns, Exists(c)
  PROVE  Exists(c)'
<1>1. server'[c] \in After[server[c]] /\ server[c] \in States \ {Nothing}
  BY ServerMoves DEF Typed, Exists, ServerType
<1>2. QED
  BY <1>1, RankOrder DEF Exists

LEMMA StillHeard ==
  ASSUME Typed, OpsInv, [Next]_vars, NEW c \in Campaigns, NEW s \in States,
         server[c] \in After[s]
  PROVE  server'[c] \in After[s]
<1>1. server'[c] \in After[server[c]] /\ server[c] \in States
  BY ServerMoves DEF Typed, ServerType
<1>2. QED
  BY <1>1, AfterOrder

LEMMA NextHeard ==
  ASSUME OpsInv, Typed, HeardInv, ShownInv, [Next]_vars
  PROVE  HeardInv'
<1> USE DEF opVars
<1>a. ServerType /\ ServerType' /\ OpsInv'
  BY ServerMoves, NextOps DEF Typed
<1>b. \A c \in Campaigns : server'[c] \in After[NoData[c]]
  BY <1>a, AfterOrder DEF NoData, ServerType
<1>c. ASSUME NEW o \in Slots
      PROVE  /\ op[o] \in Operations /\ op[o].camp \in Campaigns \cup {0}
             /\ \A c \in Campaigns : /\ op[o].base[c] \in States
                                     /\ op[o].got[c] \in States
  BY DEF OpsInv, Operations
\* An operation that is left as it was.
<1>1. ASSUME NEW o \in Slots, op'[o] = op[o] PROVE Heard(o)'
  <2>1. Heard(o)
    BY DEF HeardInv
  <2>2. \A c \in Campaigns : /\ server'[c] \in After[op[o].base[c]]
                             /\ server'[c] \in After[op[o].got[c]]
    BY <1>c, <2>1, StillHeard DEF Heard
  <2>3. op[o].camp # 0 => server'[op[o].camp] # Nothing
    BY <1>c, <2>1, StillExists DEF Heard, Exists
  <2>4. QED
    BY <1>1, <2>1, <2>2, <2>3 DEF Heard, Exists
<1>2. ASSUME NEW o \in Slots, OthersKept(o), Heard(o)' PROVE HeardInv'
  BY <1>1, <1>2 DEF HeardInv, OthersKept
<1>3. ASSUME UNCHANGED op PROVE HeardInv'
  BY <1>1, <1>3 DEF HeardInv
<1>4. ASSUME NEW k \in Kinds, NEW at \in Awaits, NEW camp \in Campaigns \cup {0},
             Begins(k, at, camp), camp # 0 => Exists(camp)
      PROVE  HeardInv'
  <2>1. PICK o \in Slots : Added(o, k, at, camp)
    <3>1. PICK sel, taken : Begin(k, at, camp, sel, taken)
      BY <1>4 DEF Begins
    <3>2. stored \in Tokens
      BY DEF Typed
    <3>3. QED
      BY <3>1, <3>2, BeginShape
  <2>2. /\ op'[o].base = NoData /\ op'[o].got = NoData /\ op'[o].camp = camp
        /\ ~op'[o].read /\ OthersKept(o)
    BY <2>1 DEF Added
  <2>3. camp # 0 => server'[camp] # Nothing
    BY <1>4, StillExists DEF Exists
  <2>4. Heard(o)'
    BY <1>b, <2>2, <2>3 DEF Heard, Exists
  <2>5. QED
    BY <1>2, <2>2, <2>4
<1>5. ASSUME \/ Login \/ Refresh \/ Create \/ Import \/ Cancel \/ Toggle
             \/ Replay \/ FireRefresh \/ FireDetails
      PROVE  HeardInv'
  <2>1. /\ {"login", "refresh", "create", "post", "cancel", "toggle", "details"} \subseteq Kinds
        /\ {"login", "health", "post", "details"} \subseteq Awaits
    BY DEF Kinds, Awaits
  <2>2. /\ detailsTimer \in Campaigns \cup {0} /\ SelectedCampaign \in Campaigns \cup {0}
        /\ 0 \in Campaigns \cup {0}
    BY SelectedIsOne DEF Typed
  <2>3. /\ detailsTimer # 0 => Exists(detailsTimer)
        /\ SelectedCampaign # 0 => Exists(SelectedCampaign)
    BY SelectedExists DEF ShownInv
  <2>4. QED
    BY <1>4, <1>5, <2>1, <2>2, <2>3, BeginActions
<1>6. CASE \/ \E c \in Campaigns : Open(c)
           \/ Logout \/ GoToCreate \/ LeaveCreate \/ EditForm \/ FireEstimate
           \/ Estimate \/ UNCHANGED vars
  <2>1. UNCHANGED op
    BY <1>6 DEF Open, Logout, GoToCreate, LeaveCreate, EditForm, FireEstimate,
                Estimate, vars
  <2>2. QED
    BY <1>3, <2>1
<1>7. CASE Reload
  <2>1. \A o \in Slots : op'[o] = NoOp
    BY <1>7 DEF Reload
  <2>2. \A o \in Slots : Heard(o)'
    BY <1>b, <2>1, NoOpShape DEF Heard
  <2>3. QED
    BY <2>2 DEF HeardInv
<1>8. ASSUME NEW o \in Slots, ServeRead(o) \/ Lose(o) \/ PollClock(o)
      PROVE  HeardInv'
  <2>1. /\ OthersKept(o) /\ op'[o].at = op[o].at
        /\ op'[o].camp = op[o].camp /\ op'[o].base = op[o].base
    BY <1>8, NextOpsWait
  <2>2. Heard(o)
    BY DEF HeardInv
  <2>3. \A c \in Campaigns : server'[c] \in After[op'[o].base[c]]
    BY <1>c, <2>1, <2>2, StillHeard DEF Heard
  <2>4. op'[o].camp # 0 => server'[op'[o].camp] # Nothing
    BY <1>c, <2>1, <2>2, StillExists DEF Heard, Exists
  <2>5. CASE PollClock(o)
    <3>1. op'[o].got = op[o].got /\ op'[o].at = "poll"
      BY <2>5 DEF PollClock, OpsInv, Operations
    <3>2. \A c \in Campaigns : server'[c] \in After[op'[o].got[c]]
      BY <1>c, <2>2, <3>1, StillHeard DEF Heard
    <3>3. Heard(o)'
      BY <2>3, <2>4, <3>1, <3>2 DEF Heard, Exists
    <3>4. QED
      BY <1>2, <2>1, <3>3
  <2>6. CASE ServeRead(o) \/ Lose(o)
    <3>1. ASSUME NEW c \in Campaigns PROVE server'[c] \in After[op'[o].got[c]]
      <4>1. /\ server[c] \in States /\ server'[c] \in States
            /\ server'[c] \in After[server[c]]
        BY <1>a, ServerMoves DEF ServerType
      <4>2. op'[o].got[c] \in {Nothing, server[c], server'[c]}
        BY <2>6, AnswersRead
      <4>3. QED
        BY <4>1, <4>2, AfterOrder
    <3>2. ASSUME op'[o].at = "details" PROVE op'[o].got[op'[o].camp] # Nothing
      <4>1. ServeRead(o) /\ op[o].at = "details"
        BY <2>1, <2>6, <3>2 DEF Lose, Caught
      <4>2. op[o].camp \in Campaigns /\ op[o].camp \in AsksFor(o)
        <5>1. kind[o] \in {"details", "cancel"}
          BY <4>1, AwaitedBy
        <5>2. op[o].camp # 0
          BY <5>1 DEF OpsInv, Fits
        <5>3. QED
          BY <1>c, <4>1, <5>2 DEF AsksFor
      <4>3. op'[o].got[op[o].camp] = server'[op[o].camp]
        BY <4>1, <4>2, AnswersRead
      <4>4. server'[op[o].camp] # Nothing
        BY <2>1, <2>4, <4>2, FrontendAssumption
      <4>5. QED
        BY <2>1, <4>3, <4>4
    <3>3. Heard(o)'
      BY <2>3, <2>4, <3>1, <3>2 DEF Heard, Exists
    <3>4. QED
      BY <1>2, <2>1, <3>3
  <2>7. QED
    BY <1>8, <2>5, <2>6
<1>9. ASSUME NEW o \in Slots, NEW r \in Operations, NEW done \in BOOLEAN,
             GoesOn(o, r), Finally(o, done),
             Over(r) \/ MainNext(o, r) \/ Left(o, r)
      PROVE  HeardInv'
  <2>1. /\ Over(r) => op'[o] = NoOp
        /\ ~Over(r) => op'[o] = r
        /\ OthersKept(o)
    BY <1>9, GoesOnShape
  <2>2. Heard(o)
    BY DEF HeardInv
  <2>3. op[o].camp # 0 => server'[op[o].camp] # Nothing
    BY <1>c, <2>2, StillExists DEF Heard, Exists
  <2>4. CASE Over(r)
    BY <1>b, <1>2, <2>1, <2>4, NoOpShape DEF Heard
  <2>5. CASE ~Over(r) /\ MainNext(o, r)
    <3>1. /\ op'[o].got = NoData /\ ~op'[o].read /\ op'[o].camp = op[o].camp
          /\ op'[o].base = NoData \/ op'[o].base = server'
      BY <2>1, <2>5 DEF MainNext
    <3>2. \A c \in Campaigns : server'[c] \in After[server'[c]]
      BY <1>a, AfterOrder DEF ServerType
    <3>3. \A c \in Campaigns : server'[c] \in After[op'[o].base[c]]
      BY <1>b, <3>1, <3>2
    <3>4. \A c \in Campaigns : server'[c] \in After[op'[o].got[c]]
      BY <1>b, <3>1
    <3>5. Heard(o)'
      BY <2>3, <3>1, <3>3, <3>4 DEF Heard, Exists
    <3>6. QED
      BY <1>2, <2>1, <3>5
  <2>6. CASE ~Over(r) /\ Left(o, r)
    <3>1. /\ op'[o].camp = op[o].camp
          /\ \/ op'[o].base = NoData /\ op'[o].got = NoData /\ ~op'[o].read
             \/ /\ op'[o].at = op[o].at /\ op'[o].read = op[o].read
                /\ op'[o].base = op[o].base /\ op'[o].got = op[o].got
      BY <2>1, <2>6 DEF Left
    <3>2. \A c \in Campaigns : /\ server'[c] \in After[op[o].base[c]]
                               /\ server'[c] \in After[op[o].got[c]]
      BY <1>c, <2>2, StillHeard DEF Heard
    <3>3. \A c \in Campaigns : /\ server'[c] \in After[op'[o].base[c]]
                               /\ server'[c] \in After[op'[o].got[c]]
      BY <1>b, <3>1, <3>2
    <3>4. op'[o].at = "details" /\ op'[o].read => op'[o].got[op'[o].camp] # Nothing
      BY <2>2, <3>1 DEF Heard
    <3>5. Heard(o)'
      BY <2>3, <3>1, <3>3, <3>4 DEF Heard, Exists
    <3>6. QED
      BY <1>2, <2>1, <3>5
  <2>7. QED
    BY <1>9, <2>4, <2>5, <2>6
<1>10. ASSUME NEW o \in Slots,
              \/ LoginAnswered(o) \/ HealthAnswered(o) \/ PostAnswered(o)
              \/ ListAnswered(o) \/ StatsAnswered(o) \/ DetailsAnswered(o)
              \/ PollAnswered(o) \/ ChannelsAnswered(o)
       PROVE  HeardInv'
  <2>1. \E r \in Operations :
          Advance(o, r) /\ (Over(r) \/ MainNext(o, r) \/ Left(o, r))
    BY <1>a, <1>10, MainAnswered, PartAnswered
  <2>2. PICK r \in Operations :
          Advance(o, r) /\ (Over(r) \/ MainNext(o, r) \/ Left(o, r))
    BY <2>1
  <2>3. GoesOn(o, r) /\ Finally(o, Over(r)) /\ Over(r) \in BOOLEAN
    BY <2>2 DEF Advance, Over
  <2>4. QED
    BY <1>9, <2>2, <2>3
<1>11. ASSUME NEW o \in Slots,
              MainRejected(o) \/ PostRejected(o) \/ ChannelsRejected(o)
       PROVE  HeardInv'
  <2>1. PICK r \in Operations : GoesOn(o, r) /\ Finally(o, TRUE) /\ Left(o, r)
    BY <1>11, PartRejected
  <2>2. QED
    BY <1>9, <2>1
<1>12. QED
  BY <1>5, <1>6, <1>7, <1>8, <1>10, <1>11
     DEF Next, Manager, MainLine, ChannelsLine


\* Which steps write the list.
LEMMA ListSteps ==
  ASSUME [Next]_vars
  PROVE  \/ UNCHANGED campaigns
         \/ Reload
         \/ \E o \in Slots : StatsAnswered(o) \/ DetailsAnswered(o) \/ PollAnswered(o)
<1> USE DEF screenVars
<1>1. CASE \/ Login \/ Refresh \/ Create \/ Import \/ Cancel \/ Toggle \/ Replay
           \/ FireRefresh \/ FireDetails
  BY <1>1 DEF Login, Refresh, Create, Import, Cancel, Toggle, Replay, Press,
              FireRefresh, FireDetails
<1>2. CASE \/ \E c \in Campaigns : Open(c)
           \/ Logout \/ GoToCreate \/ LeaveCreate \/ EditForm \/ FireEstimate
           \/ Estimate \/ UNCHANGED vars
  BY <1>2 DEF Open, Logout, GoToCreate, LeaveCreate, EditForm, FireEstimate,
              Estimate, vars
<1>3. ASSUME NEW o \in Slots,
             \/ ServeRead(o) \/ Lose(o) \/ PollClock(o) \/ LoginAnswered(o)
             \/ HealthAnswered(o) \/ PostAnswered(o) \/ ListAnswered(o)
             \/ ChannelsAnswered(o) \/ MainRejected(o) \/ PostRejected(o)
             \/ ChannelsRejected(o)
      PROVE  UNCHANGED campaigns
  BY <1>3 DEF ServeRead, Lose, PollClock, LoginAnswered, HealthAnswered,
              PostAnswered, ListAnswered, ChannelsAnswered, MainRejected,
              PostRejected, ChannelsRejected, Rejected
<1>4. QED
  BY <1>1, <1>2, <1>3 DEF Next, Manager, MainLine, ChannelsLine

\* Details and polls write one entry, with an answer that was not lost.
LEMMA EntryWritten ==
  ASSUME OpsInv, Typed, HeardInv, NEW o \in Slots,
         DetailsAnswered(o) \/ PollAnswered(o), NEW c \in Campaigns
  PROVE  \/ campaigns'[c] = campaigns[c]
         \/ /\ c = op[o].camp /\ c \in Listed /\ op[o].read
            /\ op[o].at \in {"details", "poll"} /\ op[o].got[c] # Nothing
            /\ Shows(campaigns'[c], op[o].got[c], op[o].got[c])
<1> DEFINE d == op[o].camp
           s == op[o].got[d]
<1>1. op[o] \in Operations
  BY DEF OpsInv
<1>2. op[o].at \in {"details", "poll"} /\ op[o].read
  BY DEF DetailsAnswered, PollAnswered
<1>3. kind[o] \in {"details", "cancel"}
  BY <1>2, AwaitedBy
<1>4. d \in Campaigns /\ s \in States
  BY <1>1, <1>3 DEF OpsInv, Fits, Operations
<1>5. \/ campaigns' = campaigns
      \/ campaigns' = Updated(d, s) /\ s # Nothing
  BY <1>2 DEF DetailsAnswered, PollAnswered, HeardInv, Heard
<1> HIDE DEF d, s
<1>6. ASSUME campaigns' = Updated(d, s), c # d \/ c \notin Listed
      PROVE  campaigns'[c] = campaigns[c]
  BY <1>4, <1>6, UpdatedShows
<1>7. ASSUME campaigns' = Updated(d, s), c = d, c \in Listed
      PROVE  Shows(campaigns'[c], s, s)
  BY <1>4, <1>7, UpdatedShows
<1>8. QED
  BY <1>2, <1>5, <1>6, <1>7 DEF d, s

LEMMA NextShown ==
  ASSUME OpsInv, Typed, HeardInv, ShownInv, [Next]_vars
  PROVE  ShownInv'
<1> USE DEF screenVars, timerVars
<1>a. ServerType /\ ServerType' /\ \A c \in Campaigns : server'[c] \in After[server[c]]
  BY ServerMoves DEF Typed
<1>b. /\ selected \in Campaigns \cup {0} /\ detailsTimer \in Campaigns \cup {0}
      /\ 0 \notin Campaigns
  BY FrontendAssumption DEF Typed
<1>c. /\ selected # 0 => server'[selected] # Nothing
      /\ detailsTimer # 0 => server'[detailsTimer] # Nothing
  BY <1>b, StillExists DEF ShownInv, Exists
\* The selection.
<1>1. \/ selected' \in {0, selected}
      \/ selected' \in Campaigns /\ server'[selected'] # Nothing
  <2>1. CASE \E o \in Slots : StatsAnswered(o)
    <3>1. PICK o \in Slots : StatsAnswered(o)
      BY <2>1
    <3> DEFINE items == {c \in Campaigns : op[o].base[c] # Nothing}
    <3>2. selected' = selected \/ (items # {} /\ selected' = Newest(items))
      BY <3>1 DEF StatsAnswered
    <3>3. items # {} => Newest(items) \in items
      BY NewestIsOne
    <3>4. ASSUME NEW c \in items PROVE c \in Campaigns /\ server'[c] # Nothing
      <4>1. /\ op[o].base[c] \in States \ {Nothing}
            /\ server[c] \in After[op[o].base[c]]
        BY <3>4 DEF OpsInv, Operations, HeardInv, Heard
      <4>2. server[c] # Nothing
        BY <4>1, AfterOrder
      <4>3. QED
        BY <3>4, <4>2, StillExists DEF Exists
    <3> HIDE DEF items
    <3>5. QED
      BY <3>2, <3>3, <3>4
  <2>2. CASE \E c \in Campaigns : Open(c)
    <3>1. PICK c \in Campaigns : c \in Listed /\ selected' = c
      BY <2>2 DEF Open
    <3>2. server[c] # Nothing
      BY <3>1 DEF Listed, ShownInv, Exists
    <3>3. server'[c] # Nothing
      BY <3>2, StillExists DEF Exists
    <3>4. QED
      BY <3>1, <3>3
  <2>3. CASE /\ ~ \E o \in Slots : StatsAnswered(o)
             /\ ~ \E c \in Campaigns : Open(c)
    <3>1. CASE \/ Login \/ Refresh \/ Create \/ Import \/ Cancel \/ Toggle \/ Replay
               \/ FireRefresh \/ FireDetails
      BY <3>1 DEF Login, Refresh, Create, Import, Cancel, Toggle, Replay, Press,
                  FireRefresh, FireDetails
    <3>2. CASE \/ Logout \/ GoToCreate \/ LeaveCreate \/ EditForm \/ FireEstimate
               \/ Estimate \/ Reload \/ UNCHANGED vars
      BY <3>2 DEF Logout, GoToCreate, LeaveCreate, EditForm, FireEstimate,
                  Estimate, Reload, vars
    <3>3. ASSUME NEW o \in Slots,
                 \/ ServeRead(o) \/ Lose(o) \/ PollClock(o) \/ LoginAnswered(o)
                 \/ HealthAnswered(o) \/ PostAnswered(o) \/ ListAnswered(o)
                 \/ DetailsAnswered(o) \/ PollAnswered(o)
                 \/ ChannelsAnswered(o) \/ MainRejected(o) \/ PostRejected(o)
                 \/ ChannelsRejected(o)
          PROVE  selected' = selected
      BY <3>3 DEF ServeRead, Lose, PollClock, LoginAnswered, HealthAnswered,
                  PostAnswered, ListAnswered, DetailsAnswered, PollAnswered,
                  ChannelsAnswered, MainRejected, PostRejected,
                  ChannelsRejected, Rejected
    <3>4. QED
      BY <2>3, <3>1, <3>2, <3>3 DEF Next, Manager, MainLine, ChannelsLine
  <2>4. QED
    BY <2>1, <2>2, <2>3
\* The timer.
<1>2. detailsTimer' \in {0, detailsTimer, selected, selected'}
  <2>1. CASE \/ Login \/ Refresh \/ Create \/ Import \/ Cancel \/ Toggle \/ Replay
             \/ FireRefresh \/ FireDetails
    BY <2>1 DEF Login, Refresh, Create, Import, Cancel, Toggle, Replay, Press,
                FireRefresh, FireDetails
  <2>2. CASE \/ \E c \in Campaigns : Open(c)
             \/ Logout \/ GoToCreate \/ LeaveCreate \/ EditForm \/ FireEstimate
             \/ Estimate \/ Reload \/ UNCHANGED vars
    BY <2>2 DEF Open, SelectionEffect, Logout, SessionEnds, GoToCreate,
                LeaveCreate, EditForm, FireEstimate, Estimate, Reload, vars
  <2>3. ASSUME NEW o \in Slots, MainLine(o) \/ ChannelsLine(o) \/ PollClock(o)
        PROVE  detailsTimer' \in {0, detailsTimer, selected, selected'}
    <3>1. CASE \/ ServeRead(o) \/ Lose(o) \/ PollClock(o) \/ HealthAnswered(o)
               \/ PostAnswered(o) \/ ListAnswered(o) \/ DetailsAnswered(o)
               \/ PollAnswered(o) \/ ChannelsAnswered(o)
      BY <3>1 DEF ServeRead, Lose, PollClock, HealthAnswered, PostAnswered,
                  ListAnswered, DetailsAnswered, PollAnswered, ChannelsAnswered
    <3>2. CASE LoginAnswered(o) \/ StatsAnswered(o)
      BY <3>2 DEF LoginAnswered, StatsAnswered, SelectionEffect
    <3>3. CASE MainRejected(o) \/ PostRejected(o) \/ ChannelsRejected(o)
      BY <3>3 DEF MainRejected, PostRejected, ChannelsRejected, Rejected, SessionEnds
    <3>4. QED
      BY <2>3, <3>1, <3>2, <3>3 DEF MainLine, ChannelsLine
  <2>4. QED
    BY <2>1, <2>2, <2>3 DEF Next, Manager
\* The list.
<1>3. ASSUME NEW c \in Campaigns, campaigns'[c] # NotListed
      PROVE  server'[c] # Nothing /\ Within(campaigns'[c], server'[c])
  <2>a. server[c] \in States /\ server'[c] \in After[server[c]]
    BY <1>a DEF ServerType
  <2>1. ASSUME campaigns'[c] = campaigns[c]
        PROVE  server'[c] # Nothing /\ Within(campaigns'[c], server'[c])
    <3>1. server[c] # Nothing /\ Within(campaigns[c], server[c])
      BY <1>3, <2>1 DEF ShownInv, Exists
    <3>2. campaigns[c] \in Entries
      BY DEF Typed
    <3>3. Within(campaigns[c], server'[c]) /\ server'[c] # Nothing
      BY <2>a, <3>1, <3>2, WithinLater, RankOrder
    <3>4. QED
      BY <2>1, <3>3
  \* An entry made of what was heard.
  <2>2. ASSUME NEW s \in States \ {Nothing}, NEW g \in States,
               server[c] \in After[s], server[c] \in After[g],
               Shows(campaigns'[c], s, g)
        PROVE  server'[c] # Nothing /\ Within(campaigns'[c], server'[c])
    <3>1. server'[c] \in After[s] /\ server'[c] \in After[g]
      BY <2>2, StillHeard
    <3>2. StatusRank(s) <= StatusRank(server'[c]) /\ server'[c] # Nothing
      BY <3>1, RankOrder
    <3>3. Delivered(g) <= Delivered(server'[c])
      <4>1. CASE g = Nothing
        <5>1. Delivered(g) = 0
          BY <4>1 DEF Delivered, Nothing, NoTasks, Counters
        <5>2. Delivered(server'[c]) \in Nat
          BY <1>a, DeliveredIsNat DEF ServerType
        <5>3. QED
          BY <5>1, <5>2
      <4>2. CASE g # Nothing
        BY <3>1, <4>2, RankOrder
      <4>3. QED
        BY <4>1, <4>2
    <3>4. QED
      BY <2>2, <3>2, <3>3 DEF Within, StatusRank, Shows
  <2>3. ASSUME NEW o \in Slots
        PROVE  /\ op[o].base[c] \in States /\ server[c] \in After[op[o].base[c]]
               /\ op[o].got[c] \in States /\ server[c] \in After[op[o].got[c]]
    BY DEF OpsInv, Operations, HeardInv, Heard
  <2>4. CASE UNCHANGED campaigns
    BY <2>1, <2>4
  <2>5. CASE Reload
    BY <1>3, <2>5 DEF Reload
  <2>6. ASSUME NEW o \in Slots, StatsAnswered(o)
        PROVE  server'[c] # Nothing /\ Within(campaigns'[c], server'[c])
    <3>1. /\ op[o].base[c] # Nothing
          /\ Shows(campaigns'[c], op[o].base[c], op[o].got[c])
      BY <1>3, <2>6, LoadedShows
    <3>2. QED
      BY <2>2, <2>3, <3>1
  <2>7. ASSUME NEW o \in Slots, DetailsAnswered(o) \/ PollAnswered(o)
        PROVE  server'[c] # Nothing /\ Within(campaigns'[c], server'[c])
    <3>1. CASE campaigns'[c] = campaigns[c]
      BY <2>1, <3>1
    <3>2. CASE campaigns'[c] # campaigns[c]
      <4>1. /\ op[o].got[c] # Nothing
            /\ Shows(campaigns'[c], op[o].got[c], op[o].got[c])
        BY <2>7, <3>2, EntryWritten
      <4>2. QED
        BY <2>2, <2>3, <4>1
    <3>3. QED
      BY <3>1, <3>2
  <2>8. QED
    BY <2>4, <2>5, <2>6, <2>7, ListSteps
<1>4. selected' # 0 => server'[selected'] # Nothing
  BY <1>c, <1>1
<1>5. detailsTimer' # 0 => server'[detailsTimer'] # Nothing
  BY <1>c, <1>2, <1>4
<1>6. QED
  BY <1>3, <1>4, <1>5 DEF ShownInv, Exists


\* The operations that write the list, at last.
ListKinds == {"refresh", "details", "create", "cancel"}
Holder(o) == kind[o] \in ListKinds /\ op[o].at # "idle"

\* What o is going to write is not older than what is there.
Fresh(o) ==
  /\ op[o].at = "stats" => \A c \in Listed : op[o].base[c] # Nothing =>
       /\ Rank(campaigns[c].status) <= StatusRank(op[o].base[c])
       /\ op[o].read => campaigns[c].stats.delivered <= Delivered(op[o].got[c])
  /\ /\ op[o].at \in {"poll", "details"} /\ op[o].read
     /\ op[o].camp \in Listed /\ op[o].got[op[o].camp] # Nothing
     => Within(campaigns[op[o].camp], op[o].got[op[o].camp])

\* Without a clash one operation at most is going to write the list.
HolderInv ==
  "list" \notin clashes =>
    /\ \A o, p \in Slots : Holder(o) /\ Holder(p) => o = p
    /\ \A o \in Slots : Fresh(o)

\* When no clash of the list is left after an operation started.
LEMMA BeginList ==
  ASSUME OpsInv, NEW k \in Kinds, NEW at, NEW camp, Begins(k, at, camp),
         "list" \notin clashes'
  PROVE  /\ k \in ListKinds => \A o \in Slots : ~Holder(o)
         /\ k \notin ListKinds => "list" \notin clashes
<1>1. PICK sel, taken : Begin(k, at, camp, sel, taken)
  BY DEF Begins
<1>2. clashes' = {w \in Resources :
                    IF Held(w) THEN w \in clashes \cup Writes[k] \cup taken
                    ELSE w \in (clashes \ (Writes[k] \cup {"busy"}))
                                 \cup Stray(k, camp)}
  BY <1>1 DEF Begin
<1>3. "list" \in Resources /\ "list" # "busy"
  BY DEF Resources
<1>4. "list" \in Writes[k] <=> k \in ListKinds
  BY DEF Kinds, Writes, ListKinds
<1>5. /\ Held("list") => "list" \notin clashes /\ "list" \notin Writes[k]
      /\ ~Held("list") => "list" \in Writes[k] \/ "list" \notin clashes
  BY <1>2, <1>3
<1>6. Held("list") <=> \E o \in Slots : Holder(o)
  BY HeldWhat DEF Holder, ListKinds
<1>7. QED
  BY <1>4, <1>5, <1>6

LEMMA NextHolder ==
  ASSUME OpsInv, Typed, HeardInv, ShownInv, HolderInv, [Next]_vars
  PROVE  HolderInv'
<1> USE DEF screenVars, opVars
<1>a. OpsInv' /\ HeardInv' /\ ShownInv'
  BY NextOps, NextHeard, NextShown
<1>b. ServerType /\ ServerType' /\ \A c \in Campaigns : server'[c] \in After[server[c]]
  BY ServerMoves DEF Typed
\* Only an operation that writes the list awaits stats, details or polls.
<1>c. ASSUME NEW o \in Slots, op[o].at \in {"stats", "poll", "details"}
      PROVE  Holder(o)
  BY <1>c, AwaitedBy DEF Holder, ListKinds
<1>d. ASSUME NEW o \in Slots, op'[o].at \notin {"stats", "poll", "details"}
      PROVE  Fresh(o)'
  BY <1>d DEF Fresh
<1>e. ASSUME NEW o \in Slots, op'[o].at # "stats", ~op'[o].read
      PROVE  Fresh(o)'
  BY <1>e DEF Fresh
\* What is on the screen after the step was true then.
<1>f. ASSUME NEW c \in Listed'
      PROVE  c \in Campaigns /\ Within(campaigns'[c], server'[c])
  BY <1>a, <1>f DEF Listed, ShownInv
\* The list is as it was, and so are all operations but o.
<1>1. ASSUME NEW o \in Slots, OthersKept(o), UNCHANGED campaigns,
             "list" \notin clashes' => "list" \notin clashes,
             Holder(o)' => Holder(o), "list" \notin clashes' => Fresh(o)'
      PROVE  HolderInv'
  <2> SUFFICES ASSUME "list" \notin clashes'
               PROVE  /\ \A p, q \in Slots : Holder(p)' /\ Holder(q)' => p = q
                      /\ \A p \in Slots : Fresh(p)'
    BY DEF HolderInv
  <2>1. /\ \A p, q \in Slots : Holder(p) /\ Holder(q) => p = q
        /\ \A p \in Slots : Fresh(p)
    BY <1>1 DEF HolderInv
  <2>2. ASSUME NEW p \in Slots \ {o} PROVE (Holder(p)' <=> Holder(p)) /\ Fresh(p)'
    <3>1. op'[p] = op[p] /\ kind'[p] = kind[p] /\ Listed' = Listed
      BY <1>1 DEF OthersKept, Listed
    <3>2. Fresh(p)
      BY <2>1
    <3>3. QED
      BY <1>1, <3>1, <3>2 DEF Holder, Fresh
  <2>3. QED
    BY <1>1, <2>1, <2>2
\* The list is written by o, which awaits no answer then: nothing else is
\* going to write it.
<1>2. ASSUME NEW o \in Slots, OthersKept(o), UNCHANGED clashes, Holder(o),
             op'[o].at # "stats", ~op'[o].read
      PROVE  HolderInv'
  <2> SUFFICES ASSUME "list" \notin clashes'
               PROVE  /\ \A p, q \in Slots : Holder(p)' /\ Holder(q)' => p = q
                      /\ \A p \in Slots : Fresh(p)'
    BY DEF HolderInv
  <2>1. \A p \in Slots \ {o} : ~Holder(p)
    BY <1>2 DEF HolderInv
  <2>2. ASSUME NEW p \in Slots \ {o} PROVE ~Holder(p)' /\ Fresh(p)'
    <3>1. op'[p] = op[p] /\ kind'[p] = kind[p] /\ ~Holder(p)
      BY <1>2, <2>1 DEF OthersKept
    <3>2. op'[p].at \notin {"stats", "poll", "details"}
      BY <1>c, <3>1
    <3>3. QED
      BY <1>d, <3>1, <3>2 DEF Holder
  <2>3. Fresh(o)'
    BY <1>2, <1>e
  <2>4. QED
    BY <2>2, <2>3
<1>3. ASSUME UNCHANGED <<op, kind, campaigns, clashes>> PROVE HolderInv'
  BY <1>3 DEF HolderInv, Holder, Fresh, Listed
\* An operation starts.
<1>4. ASSUME NEW k \in Kinds, NEW at \in Awaits \ {"stats"},
             NEW camp \in Campaigns \cup {0},
             Begins(k, at, camp), UNCHANGED campaigns
      PROVE  HolderInv'
  <2>1. PICK o \in Slots : Added(o, k, at, camp)
    <3>1. PICK sel, taken : Begin(k, at, camp, sel, taken)
      BY <1>4 DEF Begins
    <3>2. stored \in Tokens
      BY DEF Typed
    <3>3. QED
      BY <3>1, <3>2, BeginShape
  <2>2. /\ kind'[o] = k /\ op'[o].at # "stats" /\ ~op'[o].read /\ OthersKept(o)
    BY <1>4, <2>1 DEF Added
  <2>3. Fresh(o)'
    BY <1>e, <2>2
  <2>4. CASE k \in ListKinds
    <3> SUFFICES ASSUME "list" \notin clashes'
                 PROVE  /\ \A p, q \in Slots : Holder(p)' /\ Holder(q)' => p = q
                        /\ \A p \in Slots : Fresh(p)'
      BY DEF HolderInv
    <3>1. \A p \in Slots : ~Holder(p)
      BY <1>4, <2>4, BeginList
    <3>2. ASSUME NEW p \in Slots \ {o} PROVE ~Holder(p)' /\ Fresh(p)'
      <4>1. op'[p] = op[p] /\ kind'[p] = kind[p] /\ ~Holder(p)
        BY <2>2, <3>1 DEF OthersKept
      <4>2. op'[p].at \notin {"stats", "poll", "details"}
        BY <1>c, <4>1
      <4>3. QED
        BY <1>d, <4>1, <4>2 DEF Holder
    <3>3. QED
      BY <2>3, <3>2
  <2>5. CASE k \notin ListKinds
    <3>1. ~Holder(o)'
      BY <2>2, <2>5 DEF Holder
    <3>2. "list" \notin clashes' => "list" \notin clashes
      BY <1>4, <2>5, BeginList
    <3>3. QED
      BY <1>1, <1>4, <2>2, <2>3, <3>1, <3>2
  <2>6. QED
    BY <2>4, <2>5
<1>5. ASSUME \/ Login \/ Refresh \/ Create \/ Import \/ Cancel \/ Toggle
             \/ Replay \/ FireRefresh \/ FireDetails
      PROVE  HolderInv'
  <2>1. /\ {"login", "refresh", "create", "post", "cancel", "toggle", "details"} \subseteq Kinds
        /\ {"login", "health", "post", "details"} \subseteq Awaits \ {"stats"}
    BY DEF Kinds, Awaits
  <2>2. /\ detailsTimer \in Campaigns \cup {0} /\ SelectedCampaign \in Campaigns \cup {0}
        /\ 0 \in Campaigns \cup {0}
    BY SelectedIsOne DEF Typed
  <2>3. UNCHANGED campaigns
    BY <1>5 DEF Login, Refresh, Create, Import, Cancel, Toggle, Replay, Press,
                FireRefresh, FireDetails
  <2>4. QED
    BY <1>4, <1>5, <2>1, <2>2, <2>3, BeginActions
<1>6. CASE \/ \E c \in Campaigns : Open(c)
           \/ Logout \/ GoToCreate \/ LeaveCreate \/ EditForm \/ FireEstimate
           \/ Estimate \/ UNCHANGED vars
  <2>1. UNCHANGED <<op, kind, campaigns, clashes>>
    BY <1>6 DEF Open, Logout, GoToCreate, LeaveCreate, EditForm, FireEstimate,
                Estimate, vars
  <2>2. QED
    BY <1>3, <2>1
<1>7. CASE Reload
  <2>1. \A o \in Slots : op'[o] = NoOp
    BY <1>7 DEF Reload
  <2>2. \A o \in Slots : op'[o].at = "idle"
    BY <2>1, NoOpShape
  <2>3. QED
    BY <1>d, <2>2 DEF HolderInv, Holder
\* An answer is read, or lost, or the clock runs.
<1>8. ASSUME NEW o \in Slots, ServeRead(o) \/ Lose(o) \/ PollClock(o)
      PROVE  HolderInv'
  <2>1. /\ OthersKept(o) /\ op'[o].at = op[o].at
        /\ op'[o].camp = op[o].camp /\ op'[o].base = op[o].base
    BY <1>8, NextOpsWait
  <2>2. UNCHANGED <<kind, campaigns>>
    BY <1>8 DEF ServeRead, Lose, PollClock
  <2>3. /\ clashes' \in {clashes, clashes \cup {"list"}}
        /\ Lose(o) /\ op[o].at = "stats" => "list" \in clashes'
    BY <1>8 DEF ServeRead, Lose, PollClock
  <2>4. Holder(o)' => Holder(o)
    BY <2>1, <2>2 DEF Holder
  <2>5. ASSUME "list" \notin clashes' PROVE Fresh(o)'
    <3>1. Fresh(o)
      BY <2>3, <2>5 DEF HolderInv
    <3>2. CASE PollClock(o)
      <4>1. op'[o].got = op[o].got /\ op'[o].read = op[o].read
        BY <3>2 DEF PollClock, OpsInv, Operations
      <4>2. Listed' = Listed
        BY <2>2 DEF Listed
      <4>3. QED
        BY <2>1, <2>2, <3>1, <4>1, <4>2 DEF Fresh
    <3>3. CASE ServeRead(o) \/ Lose(o)
      <4>1. ASSUME op[o].at = "stats", NEW c \in Listed', op'[o].base[c] # Nothing
            PROVE  /\ Rank(campaigns'[c].status) <= StatusRank(op'[o].base[c])
                   /\ campaigns'[c].stats.delivered <= Delivered(op'[o].got[c])
        <5>1. ServeRead(o) /\ c \in Listed /\ c \in Campaigns
          BY <2>2, <2>3, <2>5, <3>3, <4>1 DEF Listed
        <5>2. Rank(campaigns[c].status) <= StatusRank(op[o].base[c])
          BY <2>1, <3>1, <4>1, <5>1 DEF Fresh
        <5>3. c \in AsksFor(o)
          BY <2>1, <4>1, <5>1 DEF AsksFor
        <5>4. op'[o].got[c] = server'[c]
          BY <5>1, <5>3, AnswersRead
        <5>5. campaigns'[c].stats.delivered <= Delivered(server'[c])
          BY <1>f, <4>1 DEF Within
        <5>6. QED
          BY <2>1, <2>2, <5>2, <5>4, <5>5
      <4>2. ASSUME op[o].at \in {"poll", "details"}, op[o].camp \in Listed',
                   op'[o].got[op[o].camp] # Nothing
            PROVE  Within(campaigns'[op[o].camp], op'[o].got[op[o].camp])
        <5> DEFINE c == op[o].camp
        <5>1. c \in Campaigns
          BY <4>2 DEF Listed
        <5>2. op'[o].got[c] \in {server[c], server'[c]}
          BY <3>3, <4>2, <5>1, AnswersRead
        <5>3. CASE op'[o].got[c] = server'[c]
          BY <1>f, <4>2, <5>3
        <5>4. CASE op'[o].got[c] = server[c]
          <6>1. campaigns'[c] = campaigns[c] /\ c \in Listed
            BY <2>2, <4>2 DEF Listed
          <6>2. Within(campaigns[c], server[c])
            BY <5>1, <6>1 DEF ShownInv, Listed
          <6>3. QED
            BY <5>4, <6>1, <6>2
        <5>5. QED
          BY <5>2, <5>3, <5>4
      <4>3. QED
        BY <2>1, <4>1, <4>2 DEF Fresh
    <3>4. QED
      BY <1>8, <3>2, <3>3
  <2>6. "list" \notin clashes' => "list" \notin clashes
    BY <2>3
  <2>7. QED
    BY <1>1, <2>1, <2>2, <2>4, <2>5, <2>6
\* The list is written.
<1>9. ASSUME NEW o \in Slots, StatsAnswered(o) \/ DetailsAnswered(o) \/ PollAnswered(o)
      PROVE  HolderInv'
  <2>1. /\ UNCHANGED clashes /\ op[o].at \in {"stats", "poll", "details"}
    BY <1>9 DEF StatsAnswered, DetailsAnswered, PollAnswered
  <2>2. PICK r \in Operations : Advance(o, r) /\ (Over(r) \/ MainNext(o, r))
    BY <1>9, <1>b, MainAnswered
  <2>3. GoesOn(o, r) /\ Finally(o, Over(r)) /\ Over(r) \in BOOLEAN
    BY <2>2 DEF Advance, Over
  <2>4. /\ Over(r) => op'[o] = NoOp
        /\ ~Over(r) => op'[o] = r
        /\ OthersKept(o)
    BY <2>3, GoesOnShape
  <2>5. op'[o].at # "stats" /\ ~op'[o].read
    BY <2>1, <2>2, <2>4, NoOpShape DEF MainNext
  <2>6. QED
    BY <1>2, <1>c, <2>1, <2>4, <2>5
\* Another answer.
<1>10. ASSUME NEW o \in Slots,
              LoginAnswered(o) \/ HealthAnswered(o) \/ PostAnswered(o) \/ ListAnswered(o)
       PROVE  HolderInv'
  <2>1. UNCHANGED <<campaigns, clashes>>
    BY <1>10 DEF LoginAnswered, HealthAnswered, PostAnswered, ListAnswered
  <2>2. PICK r \in Operations : Advance(o, r) /\ (Over(r) \/ MainNext(o, r))
    BY <1>10, <1>b, MainAnswered
  <2>3. GoesOn(o, r) /\ Finally(o, Over(r)) /\ Over(r) \in BOOLEAN
    BY <2>2 DEF Advance, Over
  <2>4. /\ Over(r) => kind'[o] = "free" /\ op'[o] = NoOp
        /\ ~Over(r) => kind'[o] = kind[o] /\ op'[o] = r
        /\ OthersKept(o)
    BY <2>3, GoesOnShape
  <2>5. Holder(o)' => Holder(o)
    <3>1. op[o].at # "idle"
      BY <1>10 DEF LoginAnswered, HealthAnswered, PostAnswered, ListAnswered
    <3>2. QED
      BY <2>4, <3>1 DEF Holder, ListKinds
  <2>6. Fresh(o)'
    <3>1. CASE op'[o].at # "stats"
      <4>1. ~op'[o].read
        BY <2>2, <2>4, NoOpShape DEF MainNext
      <4>2. QED
        BY <1>e, <3>1, <4>1
    <3>2. CASE op'[o].at = "stats"
      <4>1. op'[o].base = server' /\ ~op'[o].read
        BY <2>2, <2>4, <3>2, NoOpShape DEF MainNext
      <4>2. ASSUME NEW c \in Listed'
            PROVE  Rank(campaigns'[c].status) <= StatusRank(op'[o].base[c])
        BY <1>f, <4>1, <4>2 DEF Within
      <4>3. QED
        BY <3>2, <4>1, <4>2 DEF Fresh
    <3>3. QED
      BY <3>1, <3>2
  <2>7. QED
    BY <1>1, <2>1, <2>4, <2>5, <2>6
\* A part of o is over, or rejected.
<1>11. ASSUME NEW o \in Slots, NEW r, NEW done \in BOOLEAN,
              GoesOn(o, r), Finally(o, done), Left(o, r),
              UNCHANGED <<campaigns, clashes>>
       PROVE  HolderInv'
  <2>1. /\ Over(r) => kind'[o] = "free" /\ op'[o] = NoOp
        /\ ~Over(r) => kind'[o] = kind[o] /\ op'[o] = r
        /\ OthersKept(o)
    BY <1>11, GoesOnShape DEF Left
  <2>2. \/ op'[o].at = "idle"
        \/ /\ op'[o].at = op[o].at /\ op'[o].read = op[o].read
           /\ op'[o].base = op[o].base /\ op'[o].got = op[o].got
           /\ op'[o].camp = op[o].camp /\ kind'[o] = kind[o]
    BY <1>11, <2>1, NoOpShape DEF Left
  <2>3. Holder(o)' => Holder(o)
    BY <2>2 DEF Holder
  <2>4. Listed' = Listed
    BY <1>11 DEF Listed
  <2>5. Fresh(o) => Fresh(o)'
    BY <1>11, <2>2, <2>4 DEF Fresh
  <2>6. "list" \notin clashes => Fresh(o)
    BY DEF HolderInv
  <2>7. QED
    BY <1>1, <1>11, <2>1, <2>3, <2>5, <2>6
<1>12. ASSUME NEW o \in Slots, ChannelsAnswered(o) PROVE HolderInv'
  <2>1. PICK r \in Operations : Advance(o, r) /\ Left(o, r)
    BY <1>12, PartAnswered
  <2>2. GoesOn(o, r) /\ Finally(o, Over(r)) /\ Over(r) \in BOOLEAN
    BY <2>1 DEF Advance, Over
  <2>3. UNCHANGED <<campaigns, clashes>>
    BY <1>12 DEF ChannelsAnswered
  <2>4. QED
    BY <1>11, <2>1, <2>2, <2>3
<1>13. ASSUME NEW o \in Slots, MainRejected(o) \/ PostRejected(o) \/ ChannelsRejected(o)
       PROVE  HolderInv'
  <2>1. PICK r \in Operations : GoesOn(o, r) /\ Finally(o, TRUE) /\ Left(o, r)
    BY <1>13, PartRejected
  <2>2. UNCHANGED <<campaigns, clashes>>
    BY <1>13 DEF MainRejected, PostRejected, ChannelsRejected, Rejected
  <2>3. QED
    BY <1>11, <2>1, <2>2
<1>14. QED
  BY <1>5, <1>6, <1>7, <1>8, <1>9, <1>10, <1>12, <1>13
     DEF Next, Manager, MainLine, ChannelsLine

\* What a step may do to the list.
NotBack ==
  \A c \in Campaigns :
    c \in Listed /\ c \in Listed' /\ "list" \notin clashes
    => /\ Rank(campaigns'[c].status) >= Rank(campaigns[c].status)
       /\ campaigns'[c].stats.delivered >= campaigns[c].stats.delivered

LEMMA NextNotBack ==
  ASSUME OpsInv, Typed, HeardInv, HolderInv, [Next]_vars
  PROVE  NotBack
<1> SUFFICES ASSUME NEW c \in Campaigns, c \in Listed, c \in Listed',
                    "list" \notin clashes
             PROVE  /\ Rank(campaigns'[c].status) >= Rank(campaigns[c].status)
                    /\ campaigns'[c].stats.delivered >= campaigns[c].stats.delivered
  BY DEF NotBack
<1> DEFINE P == /\ Rank(campaigns'[c].status) >= Rank(campaigns[c].status)
                /\ campaigns'[c].stats.delivered >= campaigns[c].stats.delivered
<1>a. \A o \in Slots : Fresh(o)
  BY DEF HolderInv
<1>1. ASSUME campaigns'[c] = campaigns[c] PROVE P
  <2>1. campaigns[c].stats.delivered \in Nat /\ Rank(campaigns[c].status) \in 0 .. 2
    BY EntryFacts DEF Typed, Rank
  <2>2. QED
    BY <1>1, <2>1
\* Numbers only.
<1>b. ASSUME NEW s \in States, NEW g \in States,
             Shows(campaigns'[c], s, g),
             Rank(campaigns[c].status) <= StatusRank(s),
             campaigns[c].stats.delivered <= Delivered(g)
      PROVE  P
  <2>1. campaigns[c].stats.delivered \in Nat /\ Rank(campaigns[c].status) \in 0 .. 2
    BY EntryFacts DEF Typed, Rank
  <2>2. Rank(campaigns'[c].status) = StatusRank(s) /\ StatusRank(s) \in 0 .. 2
    BY <1>b DEF StatusRank, Rank, Shows
  <2>3. Delivered(g) \in Nat /\ campaigns'[c].stats.delivered = Delivered(g)
    BY <1>b, DeliveredIsNat DEF Shows
  <2>4. QED
    BY <1>b, <2>1, <2>2, <2>3
<1>2. CASE UNCHANGED campaigns
  BY <1>1, <1>2
<1>3. CASE Reload
  <2>1. campaigns'[c] = NotListed
    BY <1>3 DEF Reload
  <2>2. QED
    BY <2>1 DEF Listed
<1>4. ASSUME NEW o \in Slots, StatsAnswered(o) PROVE P
  <2>1. op[o].base[c] \in States /\ op[o].got[c] \in States
    BY DEF OpsInv, Operations
  <2>2. op[o].base[c] # Nothing
    <3>1. campaigns'[c] # NotListed
      BY DEF Listed
    <3>2. QED
      BY <1>4, <3>1, LoadedShows
  <2>3. Shows(campaigns'[c], op[o].base[c], op[o].got[c])
    BY <1>4, <2>2, LoadedShows
  <2>4. op[o].at = "stats" /\ op[o].read
    BY <1>4 DEF StatsAnswered
  <2>5. /\ Rank(campaigns[c].status) <= StatusRank(op[o].base[c])
        /\ campaigns[c].stats.delivered <= Delivered(op[o].got[c])
    BY <1>a, <2>2, <2>4 DEF Fresh
  <2>6. QED
    BY <1>b, <2>1, <2>3, <2>5
<1>5. ASSUME NEW o \in Slots, DetailsAnswered(o) \/ PollAnswered(o) PROVE P
  <2>1. CASE campaigns'[c] = campaigns[c]
    BY <1>1, <2>1
  <2>2. CASE campaigns'[c] # campaigns[c]
    <3>1. op[o].got[c] \in States
      BY DEF OpsInv, Operations
    <3>2. /\ c = op[o].camp /\ c \in Listed /\ op[o].read
          /\ op[o].at \in {"details", "poll"} /\ op[o].got[c] # Nothing
          /\ Shows(campaigns'[c], op[o].got[c], op[o].got[c])
      BY <1>5, <2>2, EntryWritten
    <3>3. Within(campaigns[c], op[o].got[c])
      BY <1>a, <3>2 DEF Fresh
    <3>4. QED
      BY <1>b, <3>1, <3>2, <3>3 DEF Within
  <2>3. QED
    BY <2>1, <2>2
<1>6. QED
  BY <1>2, <1>3, <1>4, <1>5, ListSteps

\* What the manager sees of a campaign never goes back, for any number of
\* campaigns and operations, as long as one operation at a time writes the
\* list and no stats are lost.
THEOREM CampaignsNeverGoBack == Spec => ShownNeverGoesBack
<1> DEFINE I == ConsoleInv /\ HeardInv /\ ShownInv /\ HolderInv
<1>1. Init => I
  <2> SUFFICES ASSUME Init PROVE I
    OBVIOUS
  <2>1. ConsoleInv
    BY InitConsole
  <2>2. \A o \in Slots : op[o] = NoOp
    BY DEF Init
  <2>3. /\ \A o \in Slots : op[o].at = "idle" /\ op[o].camp = 0
        /\ \A o \in Slots : op[o].base = NoData /\ op[o].got = NoData
    BY <2>2, NoOpShape
  <2>4. \A c \in Campaigns : server[c] \in After[NoData[c]]
    BY <2>1, AfterOrder DEF ConsoleInv, Typed, ServerType, NoData
  <2>5. HeardInv
    BY <2>3, <2>4 DEF HeardInv, Heard
  <2>6. HolderInv
    BY <2>3 DEF HolderInv, Holder, Fresh
  <2>7. ShownInv
    BY DEF Init, ShownInv
  <2>8. QED
    BY <2>1, <2>5, <2>6, <2>7
<1>2. I /\ [Next]_vars => I'
  BY NextConsole, NextHeard, NextShown, NextHolder DEF ConsoleInv
<1>3. I /\ [Next]_vars => [NotBack]_vars
  BY NextNotBack DEF ConsoleInv
<1>4. Spec => [][NotBack]_vars
  BY <1>1, <1>2, <1>3, PTL DEF Spec
<1>5. ShownNeverGoesBack <=> [][NotBack]_vars
  BY DEF ShownNeverGoesBack, NotBack
<1>6. QED
  BY <1>4, <1>5
=============================================================================
