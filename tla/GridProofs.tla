----------------------------- MODULE GridProofs -----------------------------
(* The grid, and the two specifications that have one. What its methods return *)
(* for every grid, price and configuration; then TickEngine, for any number of *)
(* market threads, with the events list; then GridTrading, for any number of   *)
(* working orders.                                                             *)
EXTENDS GridTrading, TickEngine, FoldLemmas, SequenceTheorems

Level == [buy: Int, sell: Int, state: LevelStates]
SaneConfig == {c \in GridConfig : c.levels >= 2 /\ c.qty > 0 /\ c.recenter > 0}
Grid == [cfg: SaneConfig, anchor: Int, rebuilds: Nat, levels: Seq(Level)]

-----------------------------------------------------------------------------
(* A sanitized configuration has the two levels the grid's steps divide by, a *)
(* quantity, and a threshold.                                                 *)
LEMMA SanitizeType ==
    ASSUME NEW cfg \in GridConfig
    PROVE  Sanitize(cfg) \in SaneConfig
<1> DEFINE levels   == IF cfg.levels < 2 THEN 2 ELSE cfg.levels
           qty      == IF cfg.qty <= 0 THEN 1 ELSE cfg.qty
           profit   == IF cfg.profit <= 0 THEN 2 ELSE cfg.profit
           recenter == IF cfg.recenter <= 0 THEN 4 ELSE cfg.recenter
           band     == IF cfg.band <= 2 THEN 60 ELSE cfg.band
<1>1. /\ levels \in Int /\ levels >= 2 /\ qty \in Int /\ qty > 0 /\ profit \in Int
      /\ recenter \in Int /\ recenter > 0 /\ band \in Int
  BY DEF GridConfig
<1>2. Sanitize(cfg) = [cfg EXCEPT !.levels = levels, !.qty = qty, !.profit = profit,
                                  !.recenter = recenter, !.band = band]
  BY DEF Sanitize
<1> HIDE DEF levels, qty, profit, recenter, band
<1>3. Sanitize(cfg) \in GridConfig
  BY <1>1, <1>2 DEF GridConfig
<1>4. /\ Sanitize(cfg).levels = levels
      /\ Sanitize(cfg).qty = qty /\ Sanitize(cfg).recenter = recenter
  BY <1>2 DEF GridConfig
<1> QED BY <1>1, <1>3, <1>4 DEF SaneConfig

(* Rounding a fraction gives a whole number.                                  *)
LEMMA RoundDivType ==
    ASSUME NEW n \in Int, NEW d \in Nat \ {0}
    PROVE  RoundDiv(n, d) \in Int
<1>1. 2 * n + d \in Int /\ 2 * d \in Nat /\ 2 * d > 0
  OBVIOUS
<1> QED BY <1>1 DEF RoundDiv

(* The levels of a new grid have prices.                                      *)
LEMMA NewLevelType ==
    ASSUME NEW cfg \in SaneConfig, NEW anchor \in Int, NEW i \in Int
    PROVE  NewLevel(cfg, anchor, i) \in Level
<1> DEFINE buy  == LevelNum(cfg, anchor, i)
           sell == LevelNum(cfg, anchor, i) * (1000 + cfg.profit)
           d    == LevelDen(cfg)
           e    == LevelDen(cfg) * 1000
<1>1. cfg.levels \in Int /\ cfg.band \in Int /\ cfg.profit \in Int /\ cfg.levels - 1 >= 1
  BY DEF GridConfig, SaneConfig
<1>2. buy \in Int
  BY <1>1 DEF LevelNum
<1>3. d \in Nat \ {0} /\ e \in Nat \ {0}
  BY <1>1 DEF LevelDen
<1>4. sell \in Int
  BY <1>1, <1>2
<1>5. NewLevel(cfg, anchor, i) =
        [buy |-> RoundDiv(buy, d), sell |-> RoundDiv(sell, e), state |-> "Idle"]
  BY DEF NewLevel
<1> HIDE DEF buy, sell, d, e
<1>6. RoundDiv(buy, d) \in Int
  BY <1>2, <1>3, RoundDivType
<1>7. RoundDiv(sell, e) \in Int
  BY <1>3, <1>4, RoundDivType
<1> QED BY <1>5, <1>6, <1>7 DEF Level, LevelStates

(* A rebuilt grid is a grid.                                                  *)
LEMMA RebuildType ==
    ASSUME NEW g \in Grid, NEW anchor \in Int
    PROVE  Rebuild(g, anchor) \in Grid
<1> DEFINE ls == [i \in 1..g.cfg.levels |-> NewLevel(g.cfg, anchor, i)]
<1>1. g.cfg \in SaneConfig /\ g.cfg.levels \in Nat /\ g.rebuilds + 1 \in Nat
  BY DEF Grid, SaneConfig, GridConfig
<1> HIDE DEF ls
<1>2. ASSUME NEW i \in 1..g.cfg.levels
      PROVE  NewLevel(g.cfg, anchor, i) \in Level
  <2>1. i \in Int
    BY <1>1
  <2> QED BY <1>1, <2>1, NewLevelType
<1>3. ls \in Seq(Level)
  <2> DEFINE n == g.cfg.levels
             f == [i \in 1..n |-> NewLevel(g.cfg, anchor, i)]
  <2>1. n \in Nat /\ f \in [1..n -> Level]
    BY <1>1, <1>2
  <2> QED BY <2>1 DEF ls
<1>4. [g EXCEPT !.anchor = anchor, !.rebuilds = @ + 1, !.levels = ls] \in Grid
  BY <1>1, <1>3 DEF Grid
<1> QED BY <1>4 DEF Rebuild, ls

(* So is the grid a price is matched against.                                 *)
LEMMA SettleType ==
    ASSUME NEW g \in Grid, NEW price \in Int
    PROVE  Settle(g, price) \in Grid
<1> DEFINE anchored == IF g.anchor <= 0 THEN Rebuild(g, price) ELSE g
<1>1. anchored \in Grid
  BY RebuildType
<1>2. Rebuild(anchored, price) \in Grid
  BY <1>1, RebuildType
<1> QED BY <1>1, <1>2 DEF Settle

(* When a price reaches some level, there is a nearest one, and it is reached. *)
LEMMA NearestReached ==
    ASSUME NEW g \in Grid, NEW price \in Int, Reached(g, price) # {}
    PROVE  Nearest(g, price) \in Reached(g, price)
<1> DEFINE R == Reached(g, price)
           Away(i) == Distance(g.levels[i].buy, price)
           Ds == {Away(i) : i \in R}
<1>1. R \subseteq Nat /\ \A i \in R : Away(i) \in Nat
  <2> SUFFICES ASSUME NEW i \in R PROVE i \in Nat /\ Away(i) \in Nat
    OBVIOUS
  <2>1. i \in 1..Len(g.levels) /\ g.levels \in Seq(Level)
    BY DEF Reached, Grid
  <2>2. i \in Nat /\ g.levels[i] \in Level
    BY <2>1
  <2>3. g.levels[i].buy \in Int
    BY <2>2 DEF Level
  <2> HIDE DEF R
  <2> QED BY <2>2, <2>3 DEF Distance
<1>2. PICK d \in Ds : \A e \in Ds : d <= e
  <2>1. Ds \subseteq Nat /\ Ds # {}
    BY <1>1
  <2> HIDE DEF Ds
  <2> QED BY <2>1, LeastNat
<1> DEFINE Best == {i \in R : Away(i) = d}
<1>3. PICK n \in Best : \A m \in Best : n <= m
  <2>1. Best \subseteq Nat /\ Best # {}
    BY <1>1, <1>2
  <2> HIDE DEF Best
  <2> QED BY <2>1, LeastNat
<1>4. n \in R /\ \A j \in R : Away(n) < Away(j) \/ (Away(n) = Away(j) /\ n <= j)
  <2> SUFFICES ASSUME NEW j \in R
               PROVE  Away(n) < Away(j) \/ (Away(n) = Away(j) /\ n <= j)
    BY <1>3
  <2>1. Away(n) = d /\ d <= Away(j) /\ d \in Nat /\ Away(j) \in Nat
    BY <1>1, <1>2, <1>3
  <2>2. CASE Away(j) = d
    BY <1>3, <2>1, <2>2
  <2>3. CASE Away(j) # d
    BY <2>1, <2>3
  <2> QED BY <2>2, <2>3
<1> HIDE DEF R, Away
<1>5. (CHOOSE i \in R : \A j \in R : Away(i) < Away(j) \/ (Away(i) = Away(j) /\ i <= j)) \in R
  BY <1>4
<1> QED BY <1>5 DEF Nearest, R, Away

-----------------------------------------------------------------------------
(* A price leaves a grid, and at most one intent, with a level's number.      *)
LEMMA TickOutcome ==
    ASSUME NEW g \in Grid, NEW price \in Int
    PROVE  LET out == OnPriceTick(g, price)
           IN  /\ out.grid \in Grid
               /\ \/ out.intents = <<>>
                  \/ \E it : out.intents = <<it>> /\ it.id \in Nat
<1> DEFINE h == Settle(g, price)
<1>1. h \in Grid
  BY SettleType
<1>2. price > 0 => OnPriceTick(g, price) = MatchLevels(h, price)
  BY DEF OnPriceTick
<1>3. CASE price <= 0
  BY <1>3 DEF OnPriceTick, Outcome
<1> HIDE DEF h
<1>4. CASE price > 0 /\ Reached(h, price) = {}
  BY <1>1, <1>2, <1>4 DEF MatchLevels, Outcome
<1>5. CASE price > 0 /\ Reached(h, price) # {}
  <2> DEFINE i == Nearest(h, price)
  <2>1. i \in Reached(h, price)
    BY <1>1, <1>5, NearestReached
  <2> HIDE DEF i
  <2>2. i \in 1..Len(h.levels) /\ h.levels \in Seq(Level) /\ h.levels[i] \in Level
    BY <1>1, <2>1 DEF Reached, Grid
  <2>3. SetState(h, i, "BuyPlaced") \in Grid
    <3>1. [h.levels[i] EXCEPT !.state = "BuyPlaced"] \in Level
      BY <2>2 DEF Level, LevelStates
    <3>2. [h.levels EXCEPT ![i].state = "BuyPlaced"] \in Seq(Level)
      BY <2>2, <3>1
    <3> QED BY <1>1, <3>2 DEF SetState, Grid
  <2>4. OnPriceTick(g, price) = Outcome(SetState(h, i, "BuyPlaced"), <<BuyIntent(h, i)>>)
    BY <1>2, <1>5 DEF MatchLevels, i
  <2>5. BuyIntent(h, i).id \in Nat
    BY <2>2 DEF BuyIntent
  <2> QED BY <2>3, <2>4, <2>5 DEF Outcome
<1> QED BY <1>3, <1>4, <1>5

(* A posted configuration leaves a grid.                                      *)
LEMMA UpdateConfigType ==
    ASSUME NEW g \in Grid, NEW cfg \in GridConfig
    PROVE  UpdateConfig(g, cfg) \in Grid
<1> DEFINE next == [g EXCEPT !.cfg = Sanitize(cfg)]
<1>1. next \in Grid /\ g.anchor \in Int
  BY SanitizeType DEF Grid
<1>2. Rebuild(next, g.anchor) \in Grid
  BY <1>1, RebuildType
<1> QED BY <1>1, <1>2 DEF UpdateConfig

(* The engine starts with a grid.                                             *)
LEMMA EmptyGridType ==
    ASSUME NEW cfg \in GridConfig
    PROVE  EmptyGrid(Sanitize(cfg)) \in Grid
BY SanitizeType DEF EmptyGrid, Grid

-----------------------------------------------------------------------------
NoteRec == [kind: {"intent"} \union Jobs, id: Nat]

\* The entries a thread carries, and the grid they come from.
Carried ==
    /\ grid \in Grid
    /\ todo \in [Threads -> NoteSeq]
    /\ \A t \in Threads : pc[t] \in {"lockState", "push"} => todo[t] # <<>>

EngineInv == EngineTypeOK /\ Carried

\* The market threads past the check that have not used the grid yet.
Past == {f \in Feeds : pc[f] \in {"lockGrid", "useGrid"}}

\* While a reply's word stands nobody passes the check; each thread that passed before says one thing.
LateInv ==
    /\ job = "disable" => ~enabled
    /\ off => ~enabled
    /\ ~off => late = 0
    /\ late + Cardinality(Past) <= Cardinality(Feeds)

-----------------------------------------------------------------------------
(* The entries for at most one intent are entries, one for each.              *)
LEMMA NotesOf ==
    ASSUME NEW intents, \/ intents = <<>>
                        \/ \E it : intents = <<it>> /\ it.id \in Nat
    PROVE  /\ Notes(intents) \in NoteSeq
           /\ intents # <<>> => Notes(intents) # <<>>
           /\ Len(intents) \in 0..1
<1>1. PICK n \in 0..1 : DOMAIN intents = 1..n /\ Len(intents) = n /\ (n = 0 <=> intents = <<>>)
  <2>1. CASE intents = <<>>
    BY <2>1, 0 \in 0..1
  <2>2. CASE \E it : intents = <<it>> /\ it.id \in Nat
    <3>1. PICK it : intents = <<it>>
      BY <2>2
    <3>2. intents \in Seq({it}) /\ Len(intents) = 1
      BY <3>1
    <3>3. DOMAIN intents = 1..1 /\ intents # <<>>
      BY <3>2, EmptySeq, SMTT(60)
    <3> QED BY <3>2, <3>3, 1 \in 0..1
  <2> QED BY <2>1, <2>2
<1>2. \A k \in 1..n : Note("intent", intents[k].id) \in NoteRec
  <2> SUFFICES ASSUME NEW k \in 1..n PROVE intents[k].id \in Nat
    BY DEF Note, NoteRec
  <2>1. k = 1 /\ n = 1
    OBVIOUS
  <2>2. PICK it : intents = <<it>> /\ it.id \in Nat
    BY <1>1, <2>1
  <2> QED BY <2>1, <2>2
<1>3. Notes(intents) \in [1..n -> NoteRec]
  BY <1>1, <1>2 DEF Notes
<1>4. Notes(intents) \in Seq(NoteRec) /\ Len(Notes(intents)) = n
  BY <1>3, LenProperties, IsASeq
<1>5. intents # <<>> => Notes(intents) # <<>>
  BY <1>1, <1>4, EmptySeq
<1> QED BY <1>1, <1>4, <1>5 DEF NoteSeq, NoteRec

(* The capped list is a list of entries within the cap.                       *)
LEMMA CappedType ==
    ASSUME NEW es \in NoteSeq, Len(es) <= MaxEvents, NEW e \in NoteRec
    PROVE  Capped(Append(es, e)) \in NoteSeq /\ Len(Capped(Append(es, e))) <= MaxEvents
<1>1. Append(es, e) \in NoteSeq /\ Len(Append(es, e)) = Len(es) + 1 /\ Len(es) \in Nat
  BY DEF NoteSeq, NoteRec
<1>2. MaxEvents \in Nat
  BY EventsAssumption
<1>3. CASE Len(Append(es, e)) > MaxEvents
  <2>1. Append(es, e) # <<>>
    BY <1>1, EmptySeq DEF NoteSeq
  <2>2. Tail(Append(es, e)) \in NoteSeq /\ Len(Tail(Append(es, e))) = Len(Append(es, e)) - 1
    BY <1>1, <2>1, HeadTailProperties DEF NoteSeq
  <2> QED BY <1>1, <1>2, <1>3, <2>2 DEF Capped
<1>4. CASE ~(Len(Append(es, e)) > MaxEvents)
  BY <1>1, <1>2, <1>4 DEF Capped
<1> QED BY <1>3, <1>4

-----------------------------------------------------------------------------
(* Nobody holds anything at the start.                                        *)
LEMMA EngineInvInit == EngineInit => EngineInv /\ LateInv
<1> SUFFICES ASSUME EngineInit PROVE EngineInv /\ LateInv
  OBVIOUS
<1>1. EngineTypeOK
  <2>1. /\ pc \in [Threads -> Steps] /\ seen \in [Feeds -> Prices \union {0}]
        /\ job \in Jobs \union {"none"} /\ enabled \in BOOLEAN /\ off \in BOOLEAN /\ late \in Nat
    BY DEF EngineInit, Steps
  <2>2. events \in NoteSeq /\ Len(events) <= MaxEvents
    <3>1. events = <<>>
      BY DEF EngineInit
    <3>2. events \in NoteSeq /\ Len(events) = 0
      BY <3>1, EmptySeq DEF NoteSeq
    <3> QED BY <3>2, EventsAssumption
  <2>3. \A t \in Threads : pc[t] = "idle" /\ grid_mu # t /\ state_mu # t
    BY ThreadsAssumption DEF EngineInit
  <2> QED BY <2>1, <2>2, <2>3 DEF EngineTypeOK
<1>2. Carried
  <2>1. grid \in Grid
    BY ConfigAssumption, EmptyGridType DEF EngineInit
  <2> QED BY <2>1 DEF EngineInit, Carried, NoteSeq
<1>3. LateInv
  <2>1. Past = {}
    BY DEF EngineInit, Past, Threads
  <2> QED BY <2>1, ThreadsAssumption, FS_EmptySet, FS_CardinalityType DEF EngineInit, LateInv
<1> QED BY <1>1, <1>2, <1>3 DEF EngineInv

-----------------------------------------------------------------------------
(* Who is a thread.                                                           *)
LEMMA ThreadFacts ==
    /\ Control \in Threads
    /\ \A f \in Feeds : f \in Threads /\ f # Control
    /\ \A t \in Threads : t # Free /\ (t # Control => t \in Feeds)
BY ThreadsAssumption DEF Threads

(* The steps any thread takes to get and to give back the two mutexes.        *)
LEMMA LockGridInv ==
    ASSUME EngineInv, NEW t \in Threads, LockGrid(t) PROVE EngineInv'
<1>1. EngineTypeOK'
  BY ThreadFacts DEF EngineInv, EngineTypeOK, LockGrid, Go, Steps
<1>2. Carried'
  BY DEF EngineInv, EngineTypeOK, Carried, LockGrid, Go
<1> QED BY <1>1, <1>2 DEF EngineInv

(* Taking state_mu keeps the engine's invariant.                              *)
LEMMA LockStateInv ==
    ASSUME EngineInv, NEW t \in Threads, LockState(t) PROVE EngineInv'
<1>1. EngineTypeOK'
  BY ThreadFacts DEF EngineInv, EngineTypeOK, LockState, Go, Steps
<1>2. Carried'
  BY DEF EngineInv, EngineTypeOK, Carried, LockState, Go
<1> QED BY <1>1, <1>2 DEF EngineInv

(* Releasing grid_mu keeps it.                                                *)
LEMMA UnlockGridInv ==
    ASSUME EngineInv, NEW t \in Threads, UnlockGrid(t) PROVE EngineInv'
<1>1. EngineTypeOK'
  BY ThreadFacts DEF EngineInv, EngineTypeOK, UnlockGrid, Go, Steps
<1>2. Carried'
  BY DEF EngineInv, EngineTypeOK, Carried, UnlockGrid, Go
<1> QED BY <1>1, <1>2 DEF EngineInv

(* An entry is added to the events list and the list's mutex is given back.   *)
LEMMA PushInv ==
    ASSUME EngineInv, NEW t \in Threads, Push(t) PROVE EngineInv'
<1>1. todo[t] \in NoteSeq /\ todo[t] # <<>>
  BY DEF EngineInv, Carried, Push
<1>2. Head(todo[t]) \in NoteRec /\ Tail(todo[t]) \in NoteSeq
  BY <1>1, HeadTailProperties DEF NoteSeq, NoteRec
<1>3. events' \in NoteSeq /\ Len(events') <= MaxEvents
  BY <1>2, CappedType DEF EngineInv, EngineTypeOK, Push
<1>4. EngineTypeOK'
  BY <1>3, ThreadFacts DEF EngineInv, EngineTypeOK, Push, Go, Steps
<1>5. Carried'
  BY <1>2 DEF EngineInv, EngineTypeOK, Carried, Push, Go
<1> QED BY <1>4, <1>5 DEF EngineInv

(* A market thread uses the grid.                                             *)
LEMMA MatchOutcome ==
    ASSUME EngineInv, NEW f \in Feeds, Match(f)
    PROVE  /\ grid' \in Grid
           /\ \E notes \in NoteSeq :
                 /\ todo' = [todo EXCEPT ![f] = notes]
                 /\ pc' = [pc EXCEPT ![f] = "unlockGrid"]
                    \/ (pc' = [pc EXCEPT ![f] = "lockState"] /\ notes # <<>>)
           /\ \E n \in 0..1 : late' = IF off THEN late + n ELSE late
<1> DEFINE out == OnPriceTick(grid, seen[f])
<1>1. grid \in Grid /\ seen[f] \in Int
  <2>1. grid \in Grid
    BY DEF EngineInv, Carried
  <2>2. seen[f] \in Prices \union {0}
    BY DEF EngineInv, EngineTypeOK
  <2>3. Prices \union {0} \subseteq Int
    BY PricesAssumption
  <2> QED BY <2>1, <2>2, <2>3
<1>2. out.grid \in Grid /\ (out.intents = <<>> \/ \E it : out.intents = <<it>> /\ it.id \in Nat)
  BY <1>1, TickOutcome
<1>3. /\ grid' = out.grid
      /\ todo' = [todo EXCEPT ![f] = Notes(out.intents)]
      /\ late' = IF off THEN late + Len(out.intents) ELSE late
      /\ pc' = [pc EXCEPT ![f] = IF out.intents = <<>> THEN "unlockGrid" ELSE "lockState"]
  BY DEF Match, Go
<1> HIDE DEF out
<1>4. /\ Notes(out.intents) \in NoteSeq
      /\ out.intents # <<>> => Notes(out.intents) # <<>>
      /\ Len(out.intents) \in 0..1
  BY <1>2, NotesOf
<1>5. /\ todo' = [todo EXCEPT ![f] = Notes(out.intents)]
      /\ pc' = [pc EXCEPT ![f] = "unlockGrid"]
         \/ (pc' = [pc EXCEPT ![f] = "lockState"] /\ Notes(out.intents) # <<>>)
  BY <1>3, <1>4
<1>6. \E n \in 0..1 : late' = IF off THEN late + n ELSE late
  BY <1>3, <1>4
<1>7. grid' \in Grid
  BY <1>2, <1>3
<1> QED BY <1>4, <1>5, <1>6, <1>7

(* on_price_tick under grid_mu keeps it: the new grid is a grid, what is to   *)
(* be told is an entry.                                                       *)
LEMMA MatchInv ==
    ASSUME EngineInv, NEW f \in Feeds, Match(f) PROVE EngineInv'
<1>1. PICK notes \in NoteSeq :
        /\ todo' = [todo EXCEPT ![f] = notes]
        /\ pc' = [pc EXCEPT ![f] = "unlockGrid"]
           \/ (pc' = [pc EXCEPT ![f] = "lockState"] /\ notes # <<>>)
  BY MatchOutcome
<1>2. grid' \in Grid /\ late' \in Nat
  BY MatchOutcome DEF EngineInv, EngineTypeOK
<1>3. EngineTypeOK'
  BY <1>1, <1>2, ThreadFacts, SMTT(60) DEF EngineInv, EngineTypeOK, Match, Steps
<1>4. Carried'
  BY <1>1, <1>2, ThreadFacts DEF EngineInv, EngineTypeOK, Carried, Match
<1> QED BY <1>3, <1>4 DEF EngineInv

(* A tick arrives, and its thread reads the flag.                             *)
LEMMA ReceiveInv ==
    ASSUME EngineInv, NEW f \in Feeds, NEW price \in Prices, Receive(f, price)
    PROVE  EngineInv'
<1>1. EngineTypeOK'
  BY ThreadFacts DEF EngineInv, EngineTypeOK, Receive, Go, Steps
<1>2. Carried'
  BY ThreadFacts DEF EngineInv, EngineTypeOK, Carried, Receive, Go
<1> QED BY <1>1, <1>2 DEF EngineInv

(* Reading the flag keeps it: it moves the thread on, with nothing held.      *)
LEMMA CheckEnabledInv ==
    ASSUME EngineInv, NEW f \in Feeds, CheckEnabled(f) PROVE EngineInv'
<1>1. EngineTypeOK'
  BY ThreadFacts DEF EngineInv, EngineTypeOK, CheckEnabled, Go, Steps
<1>2. Carried'
  BY ThreadFacts DEF EngineInv, EngineTypeOK, Carried, CheckEnabled, Go
<1> QED BY <1>1, <1>2 DEF EngineInv

(* The control thread takes a request, uses the grid, and answers.            *)
LEMMA NoteOf ==
    ASSUME NEW j \in Jobs PROVE <<Note(j, 0)>> \in NoteSeq /\ <<Note(j, 0)>> # <<>>
<1>1. Note(j, 0) \in NoteRec
  BY DEF Note, NoteRec
<1>2. <<Note(j, 0)>> \in NoteSeq /\ Len(<<Note(j, 0)>>) = 1
  BY <1>1 DEF NoteSeq, NoteRec
<1> QED BY <1>2, EmptySeq

(* A request of the control thread keeps it, whatever it asks for.            *)
LEMMA RequestInv ==
    ASSUME EngineInv, NEW j \in Jobs, Request(j) PROVE EngineInv'
<1> DEFINE notes == <<Note(j, 0)>>
<1>1. notes \in NoteSeq /\ notes # <<>>
  BY NoteOf
<1>2. \/ todo' = [todo EXCEPT ![Control] = notes] /\ pc' = [pc EXCEPT ![Control] = "lockState"]
      \/ todo' = todo /\ pc' = [pc EXCEPT ![Control] = "lockGrid"]
  BY DEF Request, Go
<1> HIDE DEF notes
<1>3. EngineTypeOK'
  BY <1>2, ThreadFacts DEF EngineInv, EngineTypeOK, Request, Steps
<1>4. Carried'
  BY <1>1, <1>2, ThreadFacts DEF EngineInv, EngineTypeOK, Carried, Request
<1> QED BY <1>3, <1>4 DEF EngineInv

(* A handler's use of the grid, under grid_mu, keeps it.                      *)
LEMMA UseGridInv ==
    ASSUME EngineInv, UseGrid PROVE EngineInv'
<1> DEFINE notes == <<Note("configure", 0)>>
           next  == UpdateConfig(grid, NextConfig)
<1>1. notes \in NoteSeq /\ notes # <<>>
  BY NoteOf DEF Jobs
<1>2. next \in Grid
  BY ConfigAssumption, UpdateConfigType DEF EngineInv, Carried
<1>3. \/ /\ todo' = [todo EXCEPT ![Control] = notes] /\ grid' = next
         /\ pc' = [pc EXCEPT ![Control] = "lockState"]
      \/ /\ todo' = todo /\ grid' = grid
         /\ pc' = [pc EXCEPT ![Control] = "unlockGrid"]
  BY DEF UseGrid, Go
<1> HIDE DEF notes, next
<1>4. EngineTypeOK'
  BY <1>3, ThreadFacts DEF EngineInv, EngineTypeOK, UseGrid, Steps
<1>5. Carried'
  BY <1>1, <1>2, <1>3, ThreadFacts DEF EngineInv, EngineTypeOK, Carried, UseGrid
<1> QED BY <1>4, <1>5 DEF EngineInv

(* A reply keeps it: the control thread carries nothing on.                   *)
LEMMA ReplyInv ==
    ASSUME EngineInv, Reply PROVE EngineInv'
<1>1. EngineTypeOK'
  BY ThreadFacts DEF EngineInv, EngineTypeOK, Reply, Go, Steps
<1>2. Carried'
  BY ThreadFacts DEF EngineInv, EngineTypeOK, Carried, Reply, Go
<1> QED BY <1>1, <1>2 DEF EngineInv

(* Every step keeps the types, the mutexes' holders and what is carried.      *)
LEMMA EngineInvNext == EngineInv /\ [EngineNext]_engineVars => EngineInv'
<1> SUFFICES ASSUME EngineInv, [EngineNext]_engineVars PROVE EngineInv'
  OBVIOUS
<1>1. ASSUME NEW f \in Feeds, NEW price \in Prices, Receive(f, price) PROVE EngineInv'
  BY <1>1, ReceiveInv
<1>2. ASSUME NEW f \in Feeds, Handle(f) PROVE EngineInv'
  BY <1>2, ThreadFacts, CheckEnabledInv, LockGridInv, MatchInv, LockStateInv, PushInv,
     UnlockGridInv DEF Handle
<1>3. ASSUME NEW j \in Jobs, Request(j) PROVE EngineInv'
  BY <1>3, RequestInv
<1>4. CASE Serve
  BY <1>4, ThreadFacts, LockGridInv, UseGridInv, LockStateInv, PushInv, UnlockGridInv,
     ReplyInv DEF Serve
<1>5. CASE UNCHANGED engineVars
  <2>1. EngineTypeOK'
    BY <1>5 DEF EngineInv, EngineTypeOK, engineVars
  <2>2. Carried'
    BY <1>5 DEF EngineInv, Carried, engineVars
  <2> QED BY <2>1, <2>2 DEF EngineInv
<1> QED BY <1>1, <1>2, <1>3, <1>4, <1>5 DEF EngineNext

-----------------------------------------------------------------------------
(* While the word of a reply stands, no step adds a thread past the check, and *)
(* the one that lets the grid speak takes its thread away from there.          *)
LEMMA PastShrinks ==
    ASSUME EngineInv, LateInv, off, off', [EngineNext]_engineVars
    PROVE  \/ late' = late /\ Past' \subseteq Past
           \/ \E f \in Past : late' \in {late, late + 1} /\ Past' = Past \ {f}
<1>1. ~enabled
  BY DEF LateInv
<1>2. ASSUME NEW f \in Feeds, NEW price \in Prices, Receive(f, price)
      PROVE  late' = late /\ Past' \subseteq Past
  BY <1>2 DEF EngineInv, EngineTypeOK, Receive, Go, Past
<1>3. ASSUME NEW f \in Feeds, CheckEnabled(f) PROVE late' = late /\ Past' \subseteq Past
  BY <1>1, <1>3, ThreadFacts DEF EngineInv, EngineTypeOK, CheckEnabled, Go, Past
<1>4. ASSUME NEW f \in Feeds, Match(f)
      PROVE  \E g \in Past : late' \in {late, late + 1} /\ Past' = Past \ {g}
  <2>1. f \in Past /\ late \in Nat
    BY <1>4 DEF EngineInv, EngineTypeOK, Match, Past
  <2>2. late' \in {late, late + 1}
    <3>1. PICK n \in 0..1 : late' = IF off THEN late + n ELSE late
      BY <1>4, MatchOutcome
    <3> QED BY <2>1, <3>1
  <2>3. pc' = [pc EXCEPT ![f] = "unlockGrid"] \/ pc' = [pc EXCEPT ![f] = "lockState"]
    BY <1>4, MatchOutcome
  <2>4. Past' = Past \ {f}
    BY <2>3, ThreadFacts DEF EngineInv, EngineTypeOK, Past
  <2> QED BY <2>1, <2>2, <2>4
<1>5. ASSUME NEW t \in Threads, LockGrid(t) \/ LockState(t) \/ Push(t) \/ UnlockGrid(t)
      PROVE  late' = late /\ Past' \subseteq Past
  BY <1>5, ThreadFacts DEF EngineInv, EngineTypeOK, LockGrid, LockState, Push, UnlockGrid, Go, Past
<1>6. ASSUME NEW j \in Jobs, Request(j) PROVE late' = late /\ Past' \subseteq Past
  BY <1>6, ThreadFacts DEF EngineInv, EngineTypeOK, Request, Go, Past
<1>7. CASE UseGrid \/ Reply
  BY <1>7, ThreadFacts DEF EngineInv, EngineTypeOK, UseGrid, Reply, Go, Past
<1>8. CASE UNCHANGED engineVars
  BY <1>8 DEF engineVars, Past
<1> QED BY <1>2, <1>3, <1>4, <1>5, <1>6, <1>7, <1>8, ThreadFacts DEF EngineNext, Handle, Serve

(* What the flag, the request and the word of a reply have to do with one     *)
(* another.                                                                   *)
LEMMA WordNext ==
    ASSUME EngineInv, LateInv, [EngineNext]_engineVars
    PROVE  /\ (job = "disable" => ~enabled)'
           /\ (off => ~enabled)'
           /\ (~off => late = 0)'
           /\ off' /\ ~off => late' = 0
<1>1. ASSUME NEW f \in Feeds, Match(f)
      PROVE  job' = job /\ enabled' = enabled /\ off' = off /\ (~off => late' = late)
  BY <1>1 DEF Match
<1>2. ASSUME NEW t \in Threads, LockGrid(t) \/ LockState(t) \/ Push(t) \/ UnlockGrid(t)
      PROVE  job' = job /\ enabled' = enabled /\ off' = off /\ late' = late
  BY <1>2 DEF LockGrid, LockState, Push, UnlockGrid
<1>3. ASSUME NEW f \in Feeds, CheckEnabled(f) \/ \E price \in Prices : Receive(f, price)
      PROVE  job' = job /\ enabled' = enabled /\ off' = off /\ late' = late
  BY <1>3 DEF CheckEnabled, Receive
<1>4. ASSUME NEW j \in Jobs, Request(j)
      PROVE  /\ job' = "disable" => ~enabled'
             /\ off' => off /\ ~enabled'
             /\ ~off' => late' = 0
  BY <1>4 DEF Request, LateInv
<1>5. CASE UseGrid \/ UNCHANGED engineVars
  BY <1>5 DEF UseGrid, engineVars, LateInv
<1>6. CASE Reply
  BY <1>6 DEF Reply, LateInv
<1> QED BY <1>1, <1>2, <1>3, <1>4, <1>5, <1>6, ThreadFacts
        DEF EngineNext, Handle, Serve, LateInv

(* So the bound stands.                                                       *)
LEMMA LateInvNext == EngineInv /\ LateInv /\ [EngineNext]_engineVars => LateInv'
<1> SUFFICES ASSUME EngineInv, LateInv, [EngineNext]_engineVars PROVE LateInv'
  OBVIOUS
<1>1. IsFiniteSet(Feeds) /\ Cardinality(Feeds) \in Nat
  BY ThreadsAssumption, FS_CardinalityType
<1>2. \A P : P \subseteq Feeds =>
        IsFiniteSet(P) /\ Cardinality(P) \in Nat /\ Cardinality(P) <= Cardinality(Feeds)
  BY <1>1, FS_Subset, FS_CardinalityType
<1>3. Past \subseteq Feeds /\ Past' \subseteq Feeds
  BY DEF Past
<1>4. late \in Nat /\ late + Cardinality(Past) <= Cardinality(Feeds)
  BY DEF EngineInv, EngineTypeOK, LateInv
<1>5. late' + Cardinality(Past') <= Cardinality(Feeds)
  <2>1. CASE late' = 0
    BY <1>1, <1>2, <1>3, <2>1
  <2>2. CASE late' # 0
    <3>1. off /\ off'
      BY <2>2, WordNext
    <3>2. CASE late' = late /\ Past' \subseteq Past
      <4>1. Cardinality(Past') <= Cardinality(Past)
        BY <1>2, <1>3, <3>2, FS_Subset
      <4> QED BY <1>1, <1>2, <1>3, <1>4, <3>2, <4>1
    <3>3. CASE \E f \in Past : late' \in {late, late + 1} /\ Past' = Past \ {f}
      <4>1. PICK f \in Past : late' \in {late, late + 1} /\ Past' = Past \ {f}
        BY <3>3
      <4>2. Cardinality(Past') = Cardinality(Past) - 1
        BY <1>2, <1>3, <4>1, FS_RemoveElement
      <4> QED BY <1>1, <1>2, <1>3, <1>4, <4>1, <4>2
    <3> QED BY <3>1, <3>2, <3>3, PastShrinks
  <2> QED BY <2>1, <2>2
<1> QED BY <1>5, WordNext DEF LateInv

-----------------------------------------------------------------------------
(* Type correctness: the grid and the lists are used by one thread at a time, *)
(* and the events list stays within its cap.                                  *)
THEOREM EngineTypeCorrect == EngineSpec => []EngineTypeOK
<1>1. EngineInit => EngineInv
  BY EngineInvInit
<1>2. EngineInv /\ [EngineNext]_engineVars => EngineInv'
  BY EngineInvNext
<1>3. EngineInv => EngineTypeOK
  BY DEF EngineInv
<1> QED BY <1>1, <1>2, <1>3, PTL DEF EngineSpec, EngineSafety

(* After the reply to a disable the strategy speaks at most once for each     *)
(* market thread, until it is enabled again.                                  *)
THEOREM LateBounded == EngineSpec => []LateIntents
<1>1. EngineInit => EngineInv /\ LateInv
  BY EngineInvInit
<1>2. EngineInv /\ LateInv /\ [EngineNext]_engineVars => (EngineInv /\ LateInv)'
  BY EngineInvNext, LateInvNext
<1>3. EngineInv /\ LateInv => LateIntents
  <2> SUFFICES ASSUME EngineInv, LateInv PROVE LateIntents
    OBVIOUS
  <2>1. Cardinality(Past) \in Nat /\ Cardinality(Feeds) \in Nat
    BY ThreadsAssumption, FS_CardinalityType, FS_Subset DEF Past
  <2> QED BY <2>1 DEF EngineInv, EngineTypeOK, LateInv, LateIntents
<1> QED BY <1>1, <1>2, <1>3, PTL DEF EngineSpec, EngineSafety

-----------------------------------------------------------------------------
KeepNext(kept, note) == IF note.kind = "intent" THEN Append(kept, note) ELSE kept

\* k[n] are the intents among the first n entries.
Kept(es, k) ==
    /\ k = [n \in 0..Len(es) |-> k[n]] /\ k[0] = <<>>
    /\ \A n \in 1..Len(es) : k[n] = KeepNext(k[n - 1], es[n])

(* The recursive definition has at most one solution, and any is the one.     *)
LEMMA KeptIs ==
    ASSUME NEW es \in NoteSeq, NEW k, Kept(es, k)
    PROVE  IntentsOf(es) = k[Len(es)]
<1> DEFINE L == Len(es)
           j == CHOOSE f : f = [n \in 0..L |->
                                  IF n = 0 THEN <<>>
                                  ELSE IF es[n].kind = "intent" THEN Append(f[n - 1], es[n])
                                  ELSE f[n - 1]]
<1>1. L \in Nat
  BY LenProperties DEF NoteSeq
<1>2. IntentsOf(es) = j[L]
  BY DEF IntentsOf
<1>3. k = [n \in 0..L |->
             IF n = 0 THEN <<>>
             ELSE IF es[n].kind = "intent" THEN Append(k[n - 1], es[n])
             ELSE k[n - 1]]
  <2> HIDE DEF L
  <2>1. ASSUME NEW n \in 0..L
        PROVE  k[n] = IF n = 0 THEN <<>>
                      ELSE IF es[n].kind = "intent" THEN Append(k[n - 1], es[n])
                      ELSE k[n - 1]
    <3>1. n = 0 \/ n \in 1..L
      BY <1>1
    <3> QED BY <3>1 DEF Kept, KeepNext, L
  <2>2. k = [n \in 0..L |-> k[n]]
    BY DEF Kept, L
  <2> QED BY <2>1, <2>2
<1>4. j = [n \in 0..L |->
             IF n = 0 THEN <<>>
             ELSE IF es[n].kind = "intent" THEN Append(j[n - 1], es[n])
             ELSE j[n - 1]]
  <2> HIDE DEF L
  <2> QED BY <1>3
<1> HIDE DEF j, L
<1> DEFINE G == {n \in Nat : n <= L => k[n] = j[n]}
<1>5. 0 \in G
  <2>1. 0 \in 0..L
    BY <1>1
  <2>2. k[0] = <<>> /\ j[0] = <<>>
    BY <1>3, <1>4, <2>1
  <2> QED BY <2>2
<1>6. ASSUME NEW n \in Nat, n \in G PROVE n + 1 \in G
  <2> SUFFICES ASSUME n + 1 <= L PROVE k[n + 1] = j[n + 1]
    OBVIOUS
  <2>1. k[n] = j[n] /\ n + 1 \in 0..L /\ n + 1 # 0 /\ (n + 1) - 1 = n
    BY <1>1, <1>6
  <2> DEFINE m == n + 1
  <2>2. m \in 0..L /\ m # 0 /\ m - 1 = n
    BY <2>1
  <2> HIDE DEF m
  <2>3. /\ k[m] = IF es[m].kind = "intent" THEN Append(k[m - 1], es[m]) ELSE k[m - 1]
        /\ j[m] = IF es[m].kind = "intent" THEN Append(j[m - 1], es[m]) ELSE j[m - 1]
    BY <1>3, <1>4, <2>2
  <2>4. k[m] = j[m]
    BY <2>1, <2>2, <2>3
  <2> QED BY <2>4 DEF m
<1> HIDE DEF G
<1>7. L \in G
  BY <1>1, <1>5, <1>6, InductionOnNat
<1>8. k[L] = j[L]
  BY <1>1, <1>7 DEF G
<1> QED BY <1>2, <1>8 DEF L

(* One entry more, and with it the solution.                                  *)
LEMMA KeptAppend ==
    ASSUME NEW es \in NoteSeq, NEW e \in NoteRec, NEW k, Kept(es, k)
    PROVE  \E j : /\ Kept(Append(es, e), j)
                  /\ j[Len(es) + 1] = KeepNext(k[Len(es)], e)
                  /\ \A n \in 0..Len(es) : j[n] = k[n]
<1> DEFINE L == Len(es)
           s == Append(es, e)
           j == [n \in 0..(L + 1) |-> IF n <= L THEN k[n] ELSE KeepNext(k[L], e)]
<1>1. L \in Nat /\ Len(s) = L + 1 /\ s[L + 1] = e /\ \A n \in 1..L : s[n] = es[n]
  BY LenProperties, AppendProperties DEF NoteSeq, NoteRec
<1>2. /\ k[0] = <<>> /\ \A n \in 1..L : k[n] = KeepNext(k[n - 1], es[n])
  BY DEF Kept
<1> HIDE DEF L, s
<1>3. /\ DOMAIN j = 0..(L + 1) /\ j = [n \in 0..(L + 1) |-> j[n]]
      /\ \A n \in 0..L : j[n] = k[n]
      /\ j[L + 1] = KeepNext(k[L], e)
  BY <1>1
<1> HIDE DEF j
<1>4. ASSUME NEW n \in 1..(L + 1) PROVE j[n] = KeepNext(j[n - 1], s[n])
  <2>1. CASE n = L + 1
    <3>1. n - 1 = L /\ L \in 0..L
      BY <1>1, <2>1
    <3> QED BY <1>1, <1>3, <2>1, <3>1
  <2>2. CASE n # L + 1
    <3>1. n \in 1..L /\ n \in 0..L /\ n - 1 \in 0..L
      BY <1>1, <2>2
    <3> QED BY <1>1, <1>2, <1>3, <3>1
  <2> QED BY <2>1, <2>2
<1>5. j[0] = <<>>
  <2>1. 0 \in 0..L
    BY <1>1
  <2> QED BY <1>2, <1>3, <2>1
<1>6. Kept(s, j)
  BY <1>1, <1>3, <1>4, <1>5 DEF Kept
<1> QED BY <1>3, <1>6 DEF L, s

(* Intents kept so far, and the next entry's, are a list of entries.          *)
LEMMA KeepNextType ==
    ASSUME NEW kept \in NoteSeq, NEW e \in NoteRec PROVE KeepNext(kept, e) \in NoteSeq
BY AppendProperties DEF KeepNext, NoteSeq, NoteRec

(* Every list has its intents.                                                *)
LEMMA KeptExists ==
    ASSUME NEW es \in NoteSeq
    PROVE  \E k : Kept(es, k) /\ \A n \in 0..Len(es) : k[n] \in NoteSeq
<1> DEFINE Solved(s) == \E k : Kept(s, k) /\ \A n \in 0..Len(s) : k[n] \in NoteSeq
           G == {n \in Nat : \A s \in NoteSeq : Len(s) = n => Solved(s)}
<1>1. 0 \in G
  <2> SUFFICES ASSUME NEW s \in NoteSeq, Len(s) = 0 PROVE Solved(s)
    OBVIOUS
  <2> DEFINE k == [n \in 0..0 |-> <<>>]
  <2>1. Kept(s, k)
    BY DEF Kept
  <2>2. \A n \in 0..Len(s) : k[n] \in NoteSeq
    BY DEF NoteSeq
  <2> QED BY <2>1, <2>2
<1>2. ASSUME NEW n \in Nat, n \in G PROVE n + 1 \in G
  <2> SUFFICES ASSUME NEW s \in NoteSeq, Len(s) = n + 1 PROVE Solved(s)
    OBVIOUS
  <2>1. s # <<>> /\ NoteSeq = Seq(NoteRec)
    BY EmptySeq DEF NoteSeq, NoteRec
  <2>2. PICK t \in NoteSeq, e \in NoteRec : s = Append(t, e)
    BY <2>1, SequenceEmptyOrAppend
  <2>3. Len(s) = Len(t) + 1 /\ Len(t) \in Nat
    BY <2>1, <2>2, AppendProperties, LenProperties
  <2>4. Len(t) = n
    BY <2>3
  <2>5. PICK k : Kept(t, k) /\ \A i \in 0..n : k[i] \in NoteSeq
    BY <1>2, <2>4
  <2>6. PICK j : /\ Kept(s, j) /\ j[n + 1] = KeepNext(k[n], e)
                 /\ \A i \in 0..n : j[i] = k[i]
    BY <2>2, <2>4, <2>5, KeptAppend
  <2>7. j[n + 1] \in NoteSeq
    BY <2>5, <2>6, KeepNextType
  <2>8. \A i \in 0..(n + 1) : i \in 0..n \/ i = n + 1
    OBVIOUS
  <2>9. \A i \in 0..Len(s) : j[i] \in NoteSeq
    BY <2>5, <2>6, <2>7, <2>8
  <2> QED BY <2>6, <2>9
<1> HIDE DEF G
<1>3. Len(es) \in G
  <2>1. Len(es) \in Nat
    BY LenProperties DEF NoteSeq
  <2> QED BY <1>1, <1>2, <2>1, InductionOnNat
<1>4. Solved(es)
  BY <1>3 DEF G
<1> QED BY <1>4

(* The intents of a list, with an entry added, and with the oldest dropped.   *)
LEMMA IntentsGrow ==
    ASSUME NEW es \in NoteSeq, NEW e \in NoteRec
    PROVE  IntentsOf(es) \in NoteSeq /\ IntentsOf(Append(es, e)) = KeepNext(IntentsOf(es), e)
<1>1. PICK k : Kept(es, k) /\ \A n \in 0..Len(es) : k[n] \in NoteSeq
  BY KeptExists
<1>2. PICK j : Kept(Append(es, e), j) /\ j[Len(es) + 1] = KeepNext(k[Len(es)], e)
  BY <1>1, KeptAppend
<1>3. IntentsOf(es) = k[Len(es)]
  BY <1>1, KeptIs
<1>4. Append(es, e) \in NoteSeq /\ Len(Append(es, e)) = Len(es) + 1 /\ Len(es) \in Nat
  BY AppendProperties, LenProperties DEF NoteSeq, NoteRec
<1>5. IntentsOf(Append(es, e)) = j[Len(es) + 1]
  BY <1>2, <1>4, KeptIs
<1>6. k[Len(es)] \in NoteSeq
  BY <1>1, <1>4
<1> QED BY <1>2, <1>3, <1>5, <1>6

(* Whether an entry is kept does not depend on those before it.               *)
LEMMA KeepNextAfter ==
    ASSUME NEW a \in NoteSeq, NEW b \in NoteSeq, NEW e \in NoteRec
    PROVE  KeepNext(a \o b, e) = a \o KeepNext(b, e)
<1>1. NoteSeq = Seq(NoteRec)
  BY DEF NoteSeq, NoteRec
<1>2. Append(a \o b, e) = (a \o b) \o <<e>> /\ Append(b, e) = b \o <<e>>
  BY <1>1, AppendIsConcat, ConcatProperties
<1>3. (a \o b) \o <<e>> = a \o (b \o <<e>>)
  <2>1. <<e>> \in Seq(NoteRec)
    OBVIOUS
  <2> QED BY <1>1, <2>1, ConcatAssociative
<1> QED BY <1>2, <1>3 DEF KeepNext

(* Without its oldest entry a list has the intents but that entry's own.      *)
LEMMA IntentsShrink ==
    ASSUME NEW es \in NoteSeq, es # <<>>
    PROVE  /\ IntentsOf(Tail(es)) \in NoteSeq
           /\ IntentsOf(es) = KeepNext(<<>>, es[1]) \o IntentsOf(Tail(es))
<1> DEFINE L == Len(es)
           t == Tail(es)
           x == KeepNext(<<>>, es[1])
<1>1. NoteSeq = Seq(NoteRec)
  BY DEF NoteSeq, NoteRec
<1>2. /\ L \in Nat /\ L >= 1 /\ t \in NoteSeq /\ Len(t) = L - 1
      /\ \A n \in 1..(L - 1) : t[n] = es[n + 1]
      /\ \A n \in 1..L : es[n] \in NoteRec
  BY <1>1, EmptySeq, HeadTailProperties, LenProperties
<1> HIDE DEF L, t
<1>3. PICK j : Kept(t, j) /\ \A n \in 0..(L - 1) : j[n] \in NoteSeq
  BY <1>2, KeptExists
<1>4. j[0] = <<>> /\ \A n \in 1..(L - 1) : j[n] = KeepNext(j[n - 1], t[n])
  BY <1>2, <1>3 DEF Kept
<1>5. x \in NoteSeq
  <2>1. <<>> \in NoteSeq /\ es[1] \in NoteRec
    BY <1>1, <1>2
  <2> QED BY <2>1, KeepNextType
<1> DEFINE k == [n \in 0..L |-> IF n = 0 THEN <<>> ELSE x \o j[n - 1]]
<1> HIDE DEF x
<1>6. /\ k = [n \in 0..L |-> k[n]] /\ k[0] = <<>>
      /\ \A n \in 1..L : k[n] = x \o j[n - 1]
  BY <1>2
<1> HIDE DEF k
<1>7. ASSUME NEW n \in 1..L PROVE k[n] = KeepNext(k[n - 1], es[n])
  <2>1. CASE n = 1
    <3>1. n - 1 = 0
      BY <2>1
    <3>2. k[n] = x \o <<>> /\ k[n - 1] = <<>>
      BY <1>4, <1>6, <3>1
    <3>3. x \o <<>> = x
      BY <1>1, <1>5, ConcatEmptySeq
    <3> QED BY <2>1, <3>2, <3>3 DEF x
  <2>2. CASE n # 1
    <3> DEFINE m == n - 1
    <3>1. m \in 1..(L - 1) /\ m \in 1..L /\ m - 1 \in 0..(L - 1) /\ m + 1 = n
      BY <1>2, <2>2
    <3>2. k[n] = x \o j[m]
      BY <1>6
    <3> HIDE DEF m
    <3>3. j[m] = KeepNext(j[m - 1], es[n]) /\ k[m] = x \o j[m - 1]
      BY <1>2, <1>4, <1>6, <3>1
    <3>4. KeepNext(x \o j[m - 1], es[n]) = x \o KeepNext(j[m - 1], es[n])
      BY <1>2, <1>3, <1>5, <3>1, KeepNextAfter
    <3> QED BY <3>2, <3>3, <3>4 DEF m
  <2> QED BY <2>1, <2>2
<1>8. Kept(es, k)
  BY <1>6, <1>7 DEF Kept, L
<1>9. IntentsOf(es) = k[L] /\ IntentsOf(t) = j[L - 1]
  BY <1>2, <1>3, <1>8, KeptIs DEF L
<1>10. k[L] = x \o j[L - 1] /\ j[L - 1] \in NoteSeq
  <2>1. L \in 1..L /\ L - 1 \in 0..(L - 1)
    BY <1>2
  <2> QED BY <1>3, <1>6, <2>1
<1> QED BY <1>9, <1>10 DEF x, t

-----------------------------------------------------------------------------
\* Only the market thread that holds the grid has an intent to tell.
OneTells ==
    /\ \A f \in Feeds :
          /\ pc[f] \in {"lockState", "push"} =>
                /\ grid_mu = f
                /\ \E note \in NoteRec : note.kind = "intent" /\ todo[f] = <<note>>
          /\ pc[f] \notin {"lockState", "push"} => todo[f] = <<>>
    /\ pc[Control] \in {"lockState", "push"} =>
          \E note \in NoteRec : note.kind # "intent" /\ todo[Control] = <<note>>

\* The grid's intents: older ones, those of the events list, the one to be told.
ToldInOrder ==
    /\ matched \in NoteSeq
    /\ \E older \in NoteSeq :
          /\ matched = older \o (Recorded \o Pending)
          /\ Len(events) < MaxEvents => older = <<>>

ListInv == OneTells /\ ToldInOrder

(* What is pending is what the one thread carries.                            *)
LEMMA PendingIs ==
    ASSUME OneTells
    PROVE  /\ \A f \in Feeds : pc[f] \in {"lockState", "push"} => Pending = todo[f]
           /\ (\A f \in Feeds : pc[f] \notin {"lockState", "push"}) => Pending = <<>>
           /\ Pending \in NoteSeq
<1>1. ASSUME NEW f \in Feeds, pc[f] \in {"lockState", "push"}
      PROVE  Pending = todo[f] /\ todo[f] \in NoteSeq
  <2>1. PICK note \in NoteRec : todo[f] = <<note>> /\ grid_mu = f
    BY <1>1 DEF OneTells
  <2>2. todo[f] # <<>> /\ todo[f] \in NoteSeq
    BY <2>1 DEF NoteSeq, NoteRec
  <2>3. \A g \in Feeds : todo[g] # <<>> => g = f
    BY <2>1 DEF OneTells
  <2>4. (CHOOSE g \in Feeds : todo[g] # <<>>) = f
    BY <2>2, <2>3
  <2> QED BY <2>2, <2>4 DEF Pending
<1>2. ASSUME \A f \in Feeds : pc[f] \notin {"lockState", "push"}
      PROVE  Pending = <<>> /\ <<>> \in NoteSeq
  BY <1>2 DEF OneTells, Pending, NoteSeq
<1> QED BY <1>1, <1>2

(* The same of the state after a step.                                        *)
LEMMA PendingIsNext ==
    ASSUME OneTells'
    PROVE  /\ \A f \in Feeds : pc'[f] \in {"lockState", "push"} => Pending' = todo'[f]
           /\ (\A f \in Feeds : pc'[f] \notin {"lockState", "push"}) => Pending' = <<>>
           /\ Pending' \in NoteSeq
<1>1. ASSUME NEW f \in Feeds, pc'[f] \in {"lockState", "push"}
      PROVE  Pending' = todo'[f] /\ todo'[f] \in NoteSeq
  <2>1. PICK note \in NoteRec : todo'[f] = <<note>> /\ grid_mu' = f
    BY <1>1 DEF OneTells
  <2>2. todo'[f] # <<>> /\ todo'[f] \in NoteSeq
    BY <2>1 DEF NoteSeq, NoteRec
  <2>3. \A g \in Feeds : todo'[g] # <<>> => g = f
    BY <2>1 DEF OneTells
  <2>4. (CHOOSE g \in Feeds : todo'[g] # <<>>) = f
    BY <2>2, <2>3
  <2> QED BY <2>2, <2>4 DEF Pending
<1>2. ASSUME \A f \in Feeds : pc'[f] \notin {"lockState", "push"}
      PROVE  Pending' = <<>> /\ <<>> \in NoteSeq
  BY <1>2 DEF OneTells, Pending, NoteSeq
<1> QED BY <1>1, <1>2

(* Steps that neither touch the list nor change what is to be told of intents.*)
LEMMA ListFrame ==
    ASSUME EngineInv, ListInv, OneTells', events' = events, matched' = matched,
           \A f \in Feeds : /\ pc'[f] \in {"lockState", "push"} <=> pc[f] \in {"lockState", "push"}
                            /\ todo'[f] = todo[f]
    PROVE  ListInv'
<1>1. Pending' = Pending
  <2>1. CASE \E f \in Feeds : pc[f] \in {"lockState", "push"}
    BY <2>1, PendingIs, PendingIsNext DEF ListInv
  <2>2. CASE ~ \E f \in Feeds : pc[f] \in {"lockState", "push"}
    BY <2>2, PendingIs, PendingIsNext DEF ListInv
  <2> QED BY <2>1, <2>2
<1>2. Recorded' = Recorded
  BY DEF Recorded
<1> QED BY <1>1, <1>2 DEF ListInv, ToldInOrder

(* No market thread tells anything while another holds the grid.              *)
LEMMA NobodyTells ==
    ASSUME EngineInv, OneTells, NEW f \in Feeds, pc[f] = "useGrid"
    PROVE  \A g \in Feeds : pc[g] \notin {"lockState", "push"}
BY ThreadFacts DEF EngineInv, EngineTypeOK, OneTells

(* A tick leaves its thread with one intent to tell, or with none and on its  *)
(* way out.                                                                   *)
LEMMA MatchTells ==
    ASSUME EngineInv, NEW f \in Feeds, Match(f)
    PROVE  \E notes \in NoteSeq :
              /\ todo' = [todo EXCEPT ![f] = notes] /\ matched' = matched \o notes
              /\ \/ notes = <<>> /\ pc' = [pc EXCEPT ![f] = "unlockGrid"]
                 \/ /\ \E note \in NoteRec : note.kind = "intent" /\ notes = <<note>>
                    /\ pc' = [pc EXCEPT ![f] = "lockState"]
<1> DEFINE out == OnPriceTick(grid, seen[f])
<1>1. grid \in Grid /\ seen[f] \in Int
  <2>1. grid \in Grid
    BY DEF EngineInv, Carried
  <2>2. seen[f] \in Prices \union {0}
    BY DEF EngineInv, EngineTypeOK
  <2>3. Prices \union {0} \subseteq Int
    BY PricesAssumption
  <2> QED BY <2>1, <2>2, <2>3
<1>2. out.intents = <<>> \/ \E it : out.intents = <<it>> /\ it.id \in Nat
  BY <1>1, TickOutcome
<1>3. /\ todo' = [todo EXCEPT ![f] = Notes(out.intents)]
      /\ matched' = matched \o Notes(out.intents)
      /\ pc' = [pc EXCEPT ![f] = IF out.intents = <<>> THEN "unlockGrid" ELSE "lockState"]
  BY DEF Match, Go
<1> HIDE DEF out
<1>4. Notes(out.intents) \in NoteSeq
  BY <1>2, NotesOf
<1>5. CASE out.intents = <<>>
  <2>1. Notes(out.intents) = <<>>
    BY <1>5 DEF Notes
  <2> QED BY <1>3, <1>4, <1>5, <2>1
<1>6. CASE out.intents # <<>>
  <2>1. PICK it : out.intents = <<it>> /\ it.id \in Nat
    BY <1>2, <1>6
  <2>2. Notes(out.intents) = <<Note("intent", it.id)>>
    BY <2>1 DEF Notes
  <2>3. Note("intent", it.id) \in NoteRec /\ Note("intent", it.id).kind = "intent"
    BY <2>1 DEF Note, NoteRec
  <2> QED BY <1>3, <1>4, <1>6, <2>2, <2>3
<1> QED BY <1>5, <1>6

(* A tick's intent is added to what is pending, and to the grid's intents.    *)
LEMMA MatchListed ==
    ASSUME EngineInv, ListInv, NEW f \in Feeds, Match(f) PROVE ListInv'
<1>1. PICK notes \in NoteSeq :
        /\ todo' = [todo EXCEPT ![f] = notes] /\ matched' = matched \o notes
        /\ \/ notes = <<>> /\ pc' = [pc EXCEPT ![f] = "unlockGrid"]
           \/ /\ \E note \in NoteRec : note.kind = "intent" /\ notes = <<note>>
              /\ pc' = [pc EXCEPT ![f] = "lockState"]
  BY MatchTells
<1>2. /\ pc[f] = "useGrid" /\ grid_mu = f /\ grid_mu' = grid_mu /\ events' = events
      /\ pc \in [Threads -> Steps] /\ todo \in [Threads -> NoteSeq]
      /\ f \in Threads /\ f # Control
  BY ThreadFacts DEF Match, EngineInv, EngineTypeOK, Carried
<1>3. \A g \in Feeds : pc[g] \notin {"lockState", "push"}
  BY <1>2, NobodyTells DEF ListInv
<1>4. OneTells'
  <2>1. pc'[f] \in {"lockState", "push"} =>
           \E note \in NoteRec : note.kind = "intent" /\ todo'[f] = <<note>>
    BY <1>1, <1>2
  <2>2. pc'[f] \notin {"lockState", "push"} => todo'[f] = <<>>
    BY <1>1, <1>2
  <2>3. \A g \in Threads : g # f => pc'[g] = pc[g] /\ todo'[g] = todo[g]
    BY <1>1, <1>2
  <2> QED BY <1>2, <1>3, <2>1, <2>2, <2>3, ThreadFacts DEF OneTells, ListInv
<1>5. Pending = <<>> /\ Pending' = notes
  <2>1. Pending = <<>>
    BY <1>3, PendingIs DEF ListInv
  <2>2. \A g \in Feeds : g # f => pc'[g] = pc[g]
    BY <1>1, <1>2, ThreadFacts
  <2>3. CASE notes = <<>> /\ pc' = [pc EXCEPT ![f] = "unlockGrid"]
    <3>1. \A g \in Feeds : pc'[g] \notin {"lockState", "push"}
      BY <1>2, <1>3, <2>2, <2>3
    <3> QED BY <1>4, <2>1, <2>3, <3>1, PendingIsNext
  <2>4. CASE pc' = [pc EXCEPT ![f] = "lockState"]
    <3>1. pc'[f] \in {"lockState", "push"} /\ todo'[f] = notes
      BY <1>1, <1>2, <2>4
    <3> QED BY <1>4, <2>1, <3>1, PendingIsNext
  <2> QED BY <1>1, <2>3, <2>4
<1>6. ToldInOrder'
  <2>1. PICK older \in NoteSeq :
           /\ matched = older \o (Recorded \o Pending)
           /\ Len(events) < MaxEvents => older = <<>>
    BY DEF ListInv, ToldInOrder
  <2>2. NoteSeq = Seq(NoteRec) /\ Recorded \in Seq(NoteRec) /\ older \in Seq(NoteRec)
        /\ notes \in Seq(NoteRec)
    <3>1. NoteSeq = Seq(NoteRec)
      BY DEF NoteSeq, NoteRec
    <3>2. events \in NoteSeq
      BY DEF EngineInv, EngineTypeOK
    <3>3. Recorded \in NoteSeq
      <4>1. \E e : e \in NoteRec
        <5>1. Note("intent", 0) \in NoteRec
          BY DEF Note, NoteRec
        <5> QED BY <5>1
      <4> QED BY <3>2, <4>1, IntentsGrow DEF Recorded
    <3> QED BY <3>1, <3>3
  <2>3. Recorded' = Recorded
    BY <1>2 DEF Recorded
  <2>4. matched = older \o Recorded
    BY <1>5, <2>1, <2>2, ConcatEmptySeq
  <2>5. matched' = older \o (Recorded \o notes)
    BY <1>1, <2>2, <2>4, ConcatAssociative, SMTT(60)
  <2>6. matched' \in NoteSeq
    BY <2>2, <2>5, ConcatProperties
  <2> QED BY <1>2, <1>5, <2>1, <2>3, <2>5, <2>6 DEF ToldInOrder
<1> QED BY <1>4, <1>6 DEF ListInv

\* The list before it is capped tells the same as list and pending entry together.
LEMMA PushTells ==
    ASSUME EngineInv, ListInv, NEW t \in Threads, Push(t)
    PROVE  \E note \in NoteRec :
              /\ events' = Capped(Append(events, note)) /\ OneTells'
              /\ IntentsOf(Append(events, note)) \o Pending' = Recorded \o Pending
<1>1. PICK note \in NoteRec : todo[t] = <<note>> /\ (note.kind = "intent" <=> t # Control)
  <2>1. CASE t = Control
    BY <2>1 DEF Push, ListInv, OneTells
  <2>2. CASE t # Control
    <3>1. t \in Feeds
      BY <2>2, ThreadFacts
    <3> QED BY <2>2, <3>1 DEF Push, ListInv, OneTells
  <2> QED BY <2>1, <2>2
<1>2. /\ pc[t] = "push" /\ events' = Capped(Append(events, note))
      /\ todo' = [todo EXCEPT ![t] = <<>>]
      /\ pc' = [pc EXCEPT ![t] = IF grid_mu = t THEN "unlockGrid" ELSE "reply"]
      /\ grid_mu' = grid_mu
  <2>1. Head(<<note>>) = note /\ Tail(<<note>>) = <<>>
    OBVIOUS
  <2>2. todo \in [Threads -> NoteSeq]
    BY DEF EngineInv, Carried
  <2>3. todo' = [todo EXCEPT ![t] = Tail(todo[t])] /\ events' = Capped(Append(events, Head(todo[t])))
    BY DEF Push
  <2> QED BY <1>1, <2>1, <2>2, <2>3 DEF Push, Go
<1>3. pc \in [Threads -> Steps] /\ todo \in [Threads -> NoteSeq] /\ events \in NoteSeq
  BY DEF EngineInv, EngineTypeOK, Carried
<1>4. /\ pc'[t] \notin {"lockState", "push"} /\ todo'[t] = <<>>
      /\ \A g \in Threads : g # t => pc'[g] = pc[g] /\ todo'[g] = todo[g]
  BY <1>2, <1>3
<1>5. OneTells'
  BY <1>2, <1>4, ThreadFacts DEF ListInv, OneTells
<1>6. IntentsOf(Append(events, note)) = KeepNext(Recorded, note) /\ Recorded \in NoteSeq
  BY <1>3, IntentsGrow DEF Recorded
<1>7. NoteSeq = Seq(NoteRec)
  BY DEF NoteSeq, NoteRec
<1>8. CASE t = Control
  <2>1. Pending' = Pending
    <3>1. \A f \in Feeds : pc'[f] = pc[f] /\ todo'[f] = todo[f]
      BY <1>4, <1>8, ThreadFacts
    <3>2. CASE \E f \in Feeds : pc[f] \in {"lockState", "push"}
      BY <1>5, <3>1, <3>2, PendingIs, PendingIsNext DEF ListInv
    <3>3. CASE ~ \E f \in Feeds : pc[f] \in {"lockState", "push"}
      BY <1>5, <3>1, <3>3, PendingIs, PendingIsNext DEF ListInv
    <3> QED BY <3>2, <3>3
  <2>2. KeepNext(Recorded, note) = Recorded
    BY <1>1, <1>8 DEF KeepNext
  <2> QED BY <1>2, <1>5, <1>6, <2>1, <2>2
<1>9. CASE t # Control
  <2>1. t \in Feeds
    BY <1>9, ThreadFacts
  <2>2. Pending = <<note>>
    BY <1>1, <1>2, <2>1, PendingIs DEF ListInv
  <2>3. Pending' = <<>>
    <3>1. \A f \in Feeds : f # t => pc[f] \notin {"lockState", "push"}
      BY <1>2, <2>1 DEF ListInv, OneTells
    <3>2. \A f \in Feeds : pc'[f] \notin {"lockState", "push"}
      BY <1>4, <3>1, ThreadFacts
    <3> QED BY <1>5, <3>2, PendingIsNext
  <2>4. KeepNext(Recorded, note) = Recorded \o <<note>>
    BY <1>1, <1>6, <1>7, <1>9, AppendIsConcat DEF KeepNext
  <2>5. KeepNext(Recorded, note) \in Seq(NoteRec)
    BY <1>6, <1>7, KeepNextType
  <2>6. KeepNext(Recorded, note) \o <<>> = KeepNext(Recorded, note)
    BY <2>5, ConcatEmptySeq
  <2> QED BY <1>2, <1>5, <1>6, <2>2, <2>3, <2>4, <2>6
<1> QED BY <1>8, <1>9

(* push_event moves an intent from what is pending to the list, and may drop  *)
(* the oldest entry.                                                          *)
LEMMA PushListed ==
    ASSUME EngineInv, ListInv, NEW t \in Threads, Push(t) PROVE ListInv'
<1>1. PICK note \in NoteRec :
        /\ events' = Capped(Append(events, note)) /\ OneTells'
        /\ IntentsOf(Append(events, note)) \o Pending' = Recorded \o Pending
  BY PushTells
<1> DEFINE s == Append(events, note)
           P == Pending'
<1>2. NoteSeq = Seq(NoteRec)
  BY DEF NoteSeq, NoteRec
<1>3. /\ events \in NoteSeq /\ s \in NoteSeq /\ s # <<>> /\ Len(s) = Len(events) + 1
      /\ Len(events) \in Nat /\ s[1] \in NoteRec
  <2>1. events \in NoteSeq
    BY DEF EngineInv, EngineTypeOK
  <2>2. s \in NoteSeq /\ s # <<>> /\ Len(s) = Len(events) + 1 /\ Len(events) \in Nat
    BY <1>2, <2>1, AppendProperties, LenProperties
  <2> HIDE DEF s
  <2>3. 1 \in 1..Len(s)
    BY <2>2
  <2> QED BY <1>2, <2>1, <2>2, <2>3, ElementOfSeq
<1>4. PICK older \in NoteSeq :
        /\ matched = older \o (Recorded \o Pending) /\ matched \in NoteSeq
        /\ Len(events) < MaxEvents => older = <<>>
  BY DEF ListInv, ToldInOrder
<1>5. P \in NoteSeq /\ matched' = matched
  BY <1>1, PendingIsNext DEF Push
<1>6. matched = older \o (IntentsOf(s) \o P)
  BY <1>1, <1>4
<1>7. MaxEvents \in Nat
  BY EventsAssumption
<1> HIDE DEF s, P
<1>8. CASE Len(s) > MaxEvents
  <2> DEFINE X == KeepNext(<<>>, s[1])
             R == IntentsOf(Tail(s))
  <2>1. events' = Tail(s) /\ Recorded' = R /\ Len(Tail(s)) = Len(s) - 1
    <3>1. Capped(s) = Tail(s)
      BY <1>8 DEF Capped
    <3>2. Len(Tail(s)) = Len(s) - 1
      BY <1>2, <1>3, HeadTailProperties
    <3> QED BY <1>1, <3>1, <3>2 DEF Recorded, s
  <2>2. X \in NoteSeq
    <3>1. <<>> \in NoteSeq
      BY <1>2
    <3> QED BY <1>3, <3>1, KeepNextType
  <2>3. R \in NoteSeq /\ IntentsOf(s) = X \o R
    BY <1>3, IntentsShrink
  <2> HIDE DEF X, R
  <2>4. (X \o R) \o P = X \o (R \o P) /\ R \o P \in Seq(NoteRec)
    BY <1>2, <1>5, <2>2, <2>3, ConcatAssociative, ConcatProperties
  <2>5. older \o (X \o (R \o P)) = (older \o X) \o (R \o P) /\ older \o X \in Seq(NoteRec)
    <3> DEFINE T == R \o P
    <3>1. T \in Seq(NoteRec)
      BY <2>4
    <3> HIDE DEF T
    <3>2. older \o (X \o T) = (older \o X) \o T /\ older \o X \in Seq(NoteRec)
      BY <1>2, <2>2, <3>1, ConcatAssociative, ConcatProperties
    <3> QED BY <3>2 DEF T
  <2>6. matched' = (older \o X) \o (Recorded' \o Pending')
    <3>1. matched' = older \o (IntentsOf(s) \o P) /\ Pending' = P
      BY <1>5, <1>6 DEF P
    <3>2. IntentsOf(s) \o P = X \o (R \o P)
      BY <2>3, <2>4, Zenon
    <3> QED BY <2>1, <2>5, <3>1, <3>2, Zenon
  <2>7. ~(Len(events') < MaxEvents)
    BY <1>3, <1>7, <1>8, <2>1
  <2> QED BY <1>1, <1>2, <1>4, <1>5, <2>5, <2>6, <2>7 DEF ListInv, ToldInOrder
<1>9. CASE ~(Len(s) > MaxEvents)
  <2>1. events' = s /\ Recorded' = IntentsOf(s)
    BY <1>1, <1>9 DEF Capped, Recorded, s
  <2>2. matched' = older \o (Recorded' \o Pending')
    BY <1>5, <1>6, <2>1 DEF P
  <2>3. Len(events') < MaxEvents => older = <<>>
    BY <1>3, <1>4, <1>7, <2>1
  <2> QED BY <1>1, <1>4, <1>5, <2>2, <2>3 DEF ListInv, ToldInOrder
<1> QED BY <1>8, <1>9

-----------------------------------------------------------------------------
(* Initially nothing was told and nothing is to be told.                      *)
LEMMA ListInvInit == EngineInit => ListInv
<1> SUFFICES ASSUME EngineInit PROVE ListInv
  OBVIOUS
<1>1. OneTells
  BY ThreadFacts DEF EngineInit, OneTells
<1>2. NoteSeq = Seq(NoteRec) /\ <<>> \in NoteSeq
  BY DEF NoteSeq, NoteRec
<1>3. Recorded = <<>>
  <2> DEFINE k == [n \in 0..0 |-> <<>>]
  <2>1. Kept(<<>>, k)
    BY DEF Kept
  <2>2. IntentsOf(<<>>) = k[Len(<<>>)]
    BY <1>2, <2>1, KeptIs
  <2> QED BY <2>2 DEF Recorded, EngineInit
<1>4. Pending = <<>>
  BY <1>1, ThreadFacts, PendingIs DEF EngineInit
<1>5. <<>> \o (<<>> \o <<>>) = <<>>
  BY <1>2, ConcatEmptySeq
<1>6. matched = <<>> /\ matched \in NoteSeq
  BY <1>2 DEF EngineInit
<1>7. ToldInOrder
  BY <1>2, <1>3, <1>4, <1>5, <1>6 DEF ToldInOrder
<1> QED BY <1>1, <1>7 DEF ListInv

(* The other steps of a market thread, and of the control thread.             *)
LEMMA LockListed ==
    ASSUME EngineInv, ListInv, NEW t \in Threads,
           LockGrid(t) \/ LockState(t) \/ UnlockGrid(t)
    PROVE  ListInv'
<1>1. pc \in [Threads -> Steps] /\ todo' = todo /\ events' = events /\ matched' = matched
  BY DEF EngineInv, EngineTypeOK, LockGrid, LockState, UnlockGrid
<1>2. /\ \A g \in Threads : g # t => pc'[g] = pc[g]
      /\ pc'[t] \in {"lockState", "push"} <=> pc[t] \in {"lockState", "push"}
  BY <1>1 DEF LockGrid, LockState, UnlockGrid, Go
<1>3. \A f \in Feeds : pc[f] \in {"lockState", "push"} => grid_mu' = f
  <2>1. CASE LockGrid(t)
    <3>1. \A f \in Feeds : pc[f] \notin {"lockState", "push"}
      BY <2>1, ThreadFacts DEF LockGrid, ListInv, OneTells
    <3> QED BY <3>1
  <2>2. CASE LockState(t)
    BY <2>2 DEF LockState, ListInv, OneTells
  <2>3. CASE UnlockGrid(t)
    <3>1. pc[t] = "unlockGrid" /\ grid_mu = t
      BY <2>3 DEF UnlockGrid, EngineInv, EngineTypeOK
    <3>2. \A f \in Feeds : pc[f] \notin {"lockState", "push"}
      BY <3>1 DEF ListInv, OneTells
    <3> QED BY <3>2
  <2> QED BY <2>1, <2>2, <2>3
<1>4. OneTells'
  BY <1>1, <1>2, <1>3, ThreadFacts DEF ListInv, OneTells
<1> QED BY <1>1, <1>2, <1>4, ThreadFacts, ListFrame

(* The steps of a market thread before the grid tell nothing.                 *)
LEMMA FeedListed ==
    ASSUME EngineInv, ListInv, NEW f \in Feeds,
           CheckEnabled(f) \/ \E price \in Prices : Receive(f, price)
    PROVE  ListInv'
<1>1. /\ pc \in [Threads -> Steps] /\ todo' = todo /\ events' = events /\ matched' = matched
      /\ grid_mu' = grid_mu /\ f \in Threads
  BY ThreadFacts DEF EngineInv, EngineTypeOK, CheckEnabled, Receive
<1>2. /\ \A g \in Threads : g # f => pc'[g] = pc[g]
      /\ pc[f] \notin {"lockState", "push"} /\ pc'[f] \notin {"lockState", "push"}
  BY <1>1 DEF CheckEnabled, Receive, Go
<1>3. OneTells'
  BY <1>1, <1>2, ThreadFacts DEF ListInv, OneTells
<1> QED BY <1>1, <1>2, <1>3, ThreadFacts, ListFrame

(* The control thread's entries are no intents.                               *)
LEMMA NotesOfControl ==
    ASSUME NEW j \in Jobs PROVE Note(j, 0) \in NoteRec /\ Note(j, 0).kind # "intent"
BY DEF Note, NoteRec, Jobs

(* The steps of the control thread tell no intent.                            *)
LEMMA ControlListed ==
    ASSUME EngineInv, ListInv, UseGrid \/ Reply \/ \E j \in Jobs : Request(j)
    PROVE  ListInv'
<1>1. /\ pc \in [Threads -> Steps] /\ todo \in [Threads -> NoteSeq] /\ Control \in Threads
      /\ events' = events /\ matched' = matched /\ grid_mu' = grid_mu
  BY ThreadFacts DEF EngineInv, EngineTypeOK, Carried, UseGrid, Reply, Request
<1>2. \/ pc' = [pc EXCEPT ![Control] = "lockGrid"] /\ todo' = todo
      \/ pc' = [pc EXCEPT ![Control] = "unlockGrid"] /\ todo' = todo
      \/ pc' = [pc EXCEPT ![Control] = "idle"] /\ todo' = todo
      \/ \E j \in Jobs : /\ pc' = [pc EXCEPT ![Control] = "lockState"]
                         /\ todo' = [todo EXCEPT ![Control] = <<Note(j, 0)>>]
  <2>1. CASE UseGrid
    <3>1. CASE job = "configure"
      <4>1. "configure" \in Jobs
        BY DEF Jobs
      <4> QED BY <2>1, <3>1, <4>1 DEF UseGrid, Go
    <3>2. CASE job # "configure"
      BY <2>1, <3>2 DEF UseGrid, Go
    <3> QED BY <3>1, <3>2
  <2>2. CASE Reply
    BY <2>2 DEF Reply, Go
  <2>3. ASSUME NEW j \in Jobs, Request(j)
        PROVE  \/ pc' = [pc EXCEPT ![Control] = "lockGrid"] /\ todo' = todo
               \/ /\ pc' = [pc EXCEPT ![Control] = "lockState"]
                  /\ todo' = [todo EXCEPT ![Control] = <<Note(j, 0)>>]
    BY <2>3 DEF Request, Go
  <2> QED BY <2>1, <2>2, <2>3
<1>3. \A g \in Threads : g # Control => pc'[g] = pc[g] /\ todo'[g] = todo[g]
  BY <1>1, <1>2
<1>4. pc'[Control] \in {"lockState", "push"} =>
        \E note \in NoteRec : note.kind # "intent" /\ todo'[Control] = <<note>>
  BY <1>1, <1>2, NotesOfControl
<1>5. OneTells'
  BY <1>1, <1>3, <1>4, ThreadFacts DEF ListInv, OneTells
<1> QED BY <1>1, <1>3, <1>5, ThreadFacts, ListFrame

(* Every step keeps the list's invariant.                                     *)
LEMMA ListInvNext == EngineInv /\ ListInv /\ [EngineNext]_engineVars => ListInv'
<1> SUFFICES ASSUME EngineInv, ListInv, [EngineNext]_engineVars PROVE ListInv'
  OBVIOUS
<1>1. CASE \E f \in Feeds, price \in Prices : Receive(f, price)
  BY <1>1, FeedListed
<1>2. ASSUME NEW f \in Feeds, Handle(f) PROVE ListInv'
  BY <1>2, FeedListed, LockListed, MatchListed, PushListed, ThreadFacts DEF Handle
<1>3. CASE (\E j \in Jobs : Request(j)) \/ Serve
  BY <1>3, ControlListed, LockListed, PushListed, ThreadFacts DEF Serve
<1>4. CASE UNCHANGED engineVars
  <2>1. OneTells'
    BY <1>4 DEF engineVars, ListInv, OneTells
  <2> QED BY <1>4, <2>1, ListFrame DEF engineVars
<1> QED BY <1>1, <1>2, <1>3, <1>4 DEF EngineNext

(* The later part of a list is a suffix of it.                                *)
LEMMA LaterPart ==
    ASSUME NEW S, NEW a \in Seq(S), NEW b \in Seq(S) PROVE IsSuffix(b, a \o b)
<1> DEFINE n == Len(b)
           c == a \o b
           m == Len(c)
           rb == Reverse(b)
           rc == Reverse(c)
<1>1. /\ n \in Nat /\ m \in Nat /\ Len(a) \in Nat /\ m = Len(a) + n /\ n <= m
      /\ \A i \in 1..m : c[i] = IF i <= Len(a) THEN a[i] ELSE b[i - Len(a)]
  BY LenProperties, ConcatProperties
<1> HIDE DEF c, n, m
<1>2. /\ rb = [i \in 1..n |-> b[(n - i) + 1]] /\ rc = [i \in 1..m |-> c[(m - i) + 1]]
  BY DEF Reverse, n, m
<1>3. \A i \in 1..n : rb[i] \in S /\ rc[i] = rb[i]
  <2> SUFFICES ASSUME NEW i \in 1..n PROVE rb[i] \in S /\ rc[i] = rb[i]
    OBVIOUS
  <2>1. /\ i \in 1..m /\ (m - i) + 1 \in 1..m /\ ~((m - i) + 1 <= Len(a))
        /\ ((m - i) + 1) - Len(a) = (n - i) + 1 /\ (n - i) + 1 \in 1..n
    BY <1>1
  <2>2. rb[i] = b[(n - i) + 1] /\ rc[i] = c[(m - i) + 1]
    BY <1>2, <2>1
  <2>3. b[(n - i) + 1] \in S
    BY <2>1, ElementOfSeq DEF n
  <2> QED BY <1>1, <2>1, <2>2, <2>3
<1>4. Len(rb) = n /\ Len(rc) = m
  BY <1>1, <1>2
<1> HIDE DEF rb, rc
<1>5. SubSeq(rb, 1, n) = SubSeq(rc, 1, n)
  <2>1. \A i \in 1..n : rb[i] \in S /\ rc[i] \in S
    BY <1>3
  <2>2. /\ SubSeq(rb, 1, n) \in Seq(S) /\ SubSeq(rc, 1, n) \in Seq(S)
        /\ Len(SubSeq(rb, 1, n)) = IF 1 <= n THEN n - 1 + 1 ELSE 0
        /\ Len(SubSeq(rc, 1, n)) = IF 1 <= n THEN n - 1 + 1 ELSE 0
        /\ \A i \in 1..(n - 1 + 1) : SubSeq(rb, 1, n)[i] = rb[1 + i - 1]
        /\ \A i \in 1..(n - 1 + 1) : SubSeq(rc, 1, n)[i] = rc[1 + i - 1]
    BY <1>1, <2>1, SubSeqProperties
  <2>3. \A i \in 1..n : SubSeq(rb, 1, n)[i] = SubSeq(rc, 1, n)[i]
    BY <1>1, <1>3, <2>2
  <2> QED BY <1>1, <2>2, <2>3, SeqEqual
<1>6. IsPrefix(rb, rc)
  BY <1>1, <1>4, <1>5 DEF IsPrefix
<1> QED BY <1>6 DEF IsSuffix, rb, rc, c

(* The invariant has the list's intents a suffix of the grid's, all of them   *)
(* while the list is short.                                                   *)
LEMMA OrderFromInv == EngineInv /\ ListInv => IntentsInOrder
<1> SUFFICES ASSUME EngineInv, ListInv PROVE IntentsInOrder
  OBVIOUS
<1> DEFINE L == Recorded \o Pending
<1>1. L \in Seq(NoteRec)
  <2>1. NoteSeq = Seq(NoteRec)
    BY DEF NoteSeq, NoteRec
  <2>2. Recorded \in NoteSeq
    <3>1. events \in NoteSeq /\ Note("intent", 0) \in NoteRec
      BY DEF EngineInv, EngineTypeOK, Note, NoteRec
    <3> QED BY <3>1, IntentsGrow DEF Recorded
  <2>3. Pending \in NoteSeq
    BY PendingIs DEF ListInv
  <2> QED BY <2>1, <2>2, <2>3, ConcatProperties
<1>2. PICK older \in Seq(NoteRec) : matched = older \o L /\ (Len(events) < MaxEvents => older = <<>>)
  BY DEF ListInv, ToldInOrder, NoteSeq, NoteRec
<1> HIDE DEF L
<1>3. IsSuffix(L, matched)
  BY <1>1, <1>2, LaterPart
<1>4. Len(events) < MaxEvents => L = matched
  BY <1>1, <1>2, ConcatEmptySeq
<1> QED BY <1>3, <1>4 DEF IntentsInOrder, L

(* IntentsInOrder (the tick handler's events, push_event): for any number of  *)
(* market threads, any prices and any cap, the events list has the grid's     *)
(* intents in their order, and all of them until it is full.                  *)
THEOREM IntentsListed == EngineSpec => []IntentsInOrder
<1>1. EngineInv /\ [EngineNext]_engineVars => EngineInv'
  BY EngineInvNext
<1> QED BY <1>1, EngineInvInit, ListInvInit, ListInvNext, OrderFromInv, PTL
        DEF EngineSpec, EngineSafety

-----------------------------------------------------------------------------
\* h is a grid that was built after a grid with n rebuilds: every level starts over.
Rebuilt(n, h) ==
    /\ h \in Grid /\ h.anchor > 0 /\ h.rebuilds > n
    /\ \A i \in 1..Len(h.levels) : h.levels[i].state = "Idle"

\* The recentering threshold leaves price p above the edge of the grid g.
Inside(g, p) == g.cfg.dynamic => p * 1000 > g.anchor * (1000 - g.cfg.recenter)

(* What a rebuild does.                                                       *)
LEMMA RebuildEffect ==
    ASSUME NEW g \in Grid, NEW anchor \in Int, anchor > 0
    PROVE  LET h == Rebuild(g, anchor)
           IN  /\ Rebuilt(g.rebuilds, h)
               /\ h.cfg = g.cfg /\ h.anchor = anchor
<1> DEFINE h == Rebuild(g, anchor)
           ls == [i \in 1..g.cfg.levels |-> NewLevel(g.cfg, anchor, i)]
<1>1. h \in Grid
  BY RebuildType
<1>2. /\ g.cfg.levels \in Nat /\ g.rebuilds \in Nat
      /\ h = [g EXCEPT !.anchor = anchor, !.rebuilds = @ + 1, !.levels = ls]
  BY DEF Grid, SaneConfig, GridConfig, Rebuild
<1>3. Len(ls) = g.cfg.levels /\ \A i \in 1..g.cfg.levels : ls[i].state = "Idle"
  BY <1>2 DEF NewLevel
<1> HIDE DEF ls
<1>4. /\ h.levels = ls /\ h.rebuilds = g.rebuilds + 1 /\ h.cfg = g.cfg /\ h.anchor = anchor
  BY <1>2 DEF Grid
<1> HIDE DEF h
<1> QED BY <1>1, <1>2, <1>3, <1>4 DEF Rebuilt, h

(* A positive price is matched against the grid as it is or against one       *)
(* rebuilt, and lies inside of it.                                            *)
LEMMA SettleEffect ==
    ASSUME NEW g \in Grid, NEW price \in Nat, price > 0
    PROVE  LET h == Settle(g, price)
           IN  /\ h.cfg = g.cfg
               /\ (h = g /\ g.anchor > 0) \/ Rebuilt(g.rebuilds, h)
               /\ Inside(h, price)
<1> DEFINE a == IF g.anchor <= 0 THEN Rebuild(g, price) ELSE g
           b == Rebuild(a, price)
           h == Settle(g, price)
<1>1. /\ a \in Grid /\ a.cfg = g.cfg /\ a.anchor \in Int /\ a.anchor > 0
      /\ g.rebuilds \in Nat /\ a.rebuilds \in Nat /\ a.rebuilds >= g.rebuilds
      /\ a = g \/ Rebuilt(g.rebuilds, a)
  <2>1. g.anchor \in Int /\ g.rebuilds \in Nat
    BY DEF Grid
  <2>2. CASE g.anchor <= 0
    <3>1. Rebuilt(g.rebuilds, Rebuild(g, price)) /\ Rebuild(g, price).cfg = g.cfg
      BY RebuildEffect
    <3> QED BY <2>1, <2>2, <3>1 DEF Rebuilt, Grid
  <2>3. CASE ~(g.anchor <= 0)
    BY <2>1, <2>3
  <2> QED BY <2>2, <2>3
<1>2. h = IF Drifted(a, price) THEN b ELSE a
  BY DEF Settle
<1>3. Rebuilt(a.rebuilds, b) /\ b.cfg = a.cfg /\ b.anchor = price
  <2> HIDE DEF a
  <2> QED BY <1>1, RebuildEffect
<1>4. a.cfg.recenter \in Int /\ a.cfg.recenter > 0
  BY <1>1 DEF Grid, SaneConfig, GridConfig
<1> HIDE DEF a, b, h
<1>5. CASE Drifted(a, price)
  <2>1. h = b
    BY <1>2, <1>5
  <2>2. Rebuilt(g.rebuilds, b)
    BY <1>1, <1>3 DEF Rebuilt, Grid
  <2>3. price * 1000 > price * (1000 - a.cfg.recenter)
    BY <1>4
  <2> QED BY <1>1, <1>3, <2>1, <2>2, <2>3 DEF Inside, h
<1>6. CASE ~Drifted(a, price)
  <2>1. h = a
    BY <1>2, <1>6
  <2>2. a.cfg.dynamic => price * 1000 > a.anchor * (1000 - a.cfg.recenter)
    <3> DEFINE r == a.cfg.recenter
               x == a.anchor
    <3>1. r \in Int /\ x \in Int
      BY <1>1, <1>4
    <3>2. a.cfg.dynamic => Distance(price, x) * 1000 < r * x
      <4>1. Distance(price, x) \in Int /\ r * x \in Int
        BY <3>1 DEF Distance
      <4> QED BY <1>6, <4>1 DEF Drifted
    <3> HIDE DEF r, x
    <3>3. Distance(price, x) >= x - price
      BY <3>1 DEF Distance
    <3>4. x * (1000 - r) = x * 1000 - r * x /\ r * x \in Int /\ Distance(price, x) \in Int
      BY <3>1 DEF Distance
    <3>5. a.cfg.dynamic => price * 1000 > x * (1000 - r)
      BY <3>1, <3>2, <3>3, <3>4
    <3> QED BY <3>5 DEF r, x
  <2> QED BY <1>1, <2>1, <2>2 DEF Inside, h
<1> QED BY <1>5, <1>6

(* What changing one level's state does.                                      *)
LEMMA SetStateEffect ==
    ASSUME NEW g \in Grid, NEW i \in 1..Len(g.levels), NEW state \in LevelStates
    PROVE  LET h == SetState(g, i, state)
           IN  /\ h \in Grid /\ h.cfg = g.cfg /\ h.anchor = g.anchor /\ h.rebuilds = g.rebuilds
               /\ Len(h.levels) = Len(g.levels) /\ Len(g.levels) \in Nat
               /\ h.levels[i].state = state
               /\ \A j \in 1..Len(g.levels) :
                     /\ h.levels[j].buy = g.levels[j].buy /\ h.levels[j].sell = g.levels[j].sell
                     /\ j # i => h.levels[j] = g.levels[j]
<1> DEFINE new == [g.levels[i] EXCEPT !.state = state]
           ls == [g.levels EXCEPT ![i] = new]
           h == SetState(g, i, state)
<1>1. g.levels \in Seq(Level) /\ g.levels[i] \in Level /\ DOMAIN g.levels = 1..Len(g.levels)
      /\ Len(g.levels) \in Nat
  BY DEF Grid
<1>2. new \in Level /\ new.state = state /\ new.buy = g.levels[i].buy /\ new.sell = g.levels[i].sell
  BY <1>1 DEF Level
<1> HIDE DEF new
<1>3. ls \in Seq(Level) /\ Len(ls) = Len(g.levels) /\ ls[i] = new
      /\ \A j \in 1..Len(g.levels) : j # i => ls[j] = g.levels[j]
  BY <1>1, <1>2
<1>4. h = [g EXCEPT !.levels = ls]
  BY DEF SetState, new
<1> HIDE DEF ls, h
<1>5. h \in Grid /\ h.levels = ls /\ h.cfg = g.cfg /\ h.anchor = g.anchor /\ h.rebuilds = g.rebuilds
  BY <1>3, <1>4 DEF Grid
<1> QED BY <1>1, <1>2, <1>3, <1>5 DEF h

(* A tick settles the grid and then, at most, places a buy at an idle level.  *)
LEMMA TickEffect ==
    ASSUME NEW g \in Grid, NEW price \in Nat, price > 0
    PROVE  LET h == Settle(g, price)
           IN  \/ OnPriceTick(g, price) = Outcome(h, <<>>)
               \/ \E i \in 1..Len(h.levels) :
                     /\ h.levels[i].state = "Idle" /\ price <= h.levels[i].buy
                     /\ OnPriceTick(g, price) =
                          Outcome(SetState(h, i, "BuyPlaced"), <<BuyIntent(h, i)>>)
<1> DEFINE h == Settle(g, price)
<1>1. h \in Grid /\ OnPriceTick(g, price) = MatchLevels(h, price)
  BY SettleType DEF OnPriceTick
<1> HIDE DEF h
<1>2. CASE Reached(h, price) = {}
  BY <1>1, <1>2 DEF MatchLevels, h
<1>3. CASE Reached(h, price) # {}
  <2> DEFINE i == Nearest(h, price)
  <2>1. i \in Reached(h, price)
    BY <1>1, <1>3, NearestReached
  <2>2. OnPriceTick(g, price) = Outcome(SetState(h, i, "BuyPlaced"), <<BuyIntent(h, i)>>)
    BY <1>1, <1>3 DEF MatchLevels
  <2> HIDE DEF i
  <2> QED BY <2>1, <2>2 DEF Reached, h
<1> QED BY <1>2, <1>3

-----------------------------------------------------------------------------
Intent == [id: Int, side: {"Buy", "Sell"}, qty: Int, price: Int]
WorkingOrder == [order: Intent, gen: Int]

\* The orders of w that are the grid g's own, and its levels in use.
Current(g, w) == {k \in DOMAIN w : w[k].gen = g.rebuilds}
InUse(g) == {i \in 1..Len(g.levels) : g.levels[i].state # "Idle"}

\* Orders of the grid beyond one for each level in use.
Spare(g, w) == Cardinality(Current(g, w)) - Cardinality(InUse(g))

\* Contracts the working sells are for.
Offer(w) == [k \in DOMAIN w |-> IF w[k].order.side = "Sell" THEN w[k].order.qty ELSE 0]
Offered(w) == SumFunction(Offer(w))

\* x is no further from 0 than n of the largest orders.
Near(x, n) == -(MaxQty * n) <= x /\ x <= MaxQty * n

SideOf(state) == IF state = "BuyPlaced" THEN "Buy" ELSE "Sell"

\* A grid has an anchor once it was built; its quantity is one that was configured.
GridOK(g) ==
    /\ MaxQty \in Nat /\ g.anchor \in Nat /\ g.cfg.qty \in 1..MaxQty
    /\ g.anchor = 0 <=> g.rebuilds = 0
    /\ g.anchor = 0 => g.levels = <<>>
    /\ \A i \in 1..Len(g.levels) : g.levels[i].state # "BuyFilled"

\* No order is from a later grid; those of the grid itself are for its levels and quantity.
OrdersOK(g, w) ==
    \A k \in DOMAIN w :
       /\ w[k].order.qty \in 1..MaxQty /\ w[k].gen \in 1..g.rebuilds
       /\ w[k].gen = g.rebuilds =>
             w[k].order.id \in 1..Len(g.levels) /\ w[k].order.qty = g.cfg.qty

\* Each level in use has an order of the grid on its side.
Backed(g, w) ==
    \A i \in InUse(g) : \E k \in Current(g, w) :
       w[k].order.id = i /\ w[k].order.side = SideOf(g.levels[i].state)

\* What EdgeNeverBought says of a grid.
EdgeClear(g) ==
    g.cfg.dynamic =>
       \A i \in InUse(g) : g.levels[i].buy * 1000 > g.anchor * (1000 - g.cfg.recenter)

\* Contracts held h and not offered, also when each spare order is filled: near 0.
Balanced(g, w, h, n) ==
    Near(h - Offered(w), n) /\ Near(h - Offered(w) + g.cfg.qty * Spare(g, w), n)

\* What LevelsMirrorMarket says of a level with number i.
MirroredAt(level, w, i) ==
    /\ level.state = "Idle" => \A k \in DOMAIN w : w[k].order.id # i
    /\ level.state # "Idle" =>
          \E k \in DOMAIN w :
             /\ \A j \in DOMAIN w : w[j].order.id = i <=> j = k
             /\ w[k].order.side = SideOf(level.state)
             /\ w[k].order.price = IF level.state = "BuyPlaced" THEN level.buy ELSE level.sell

Mirrored(g, w) == \A i \in 1..Len(g.levels) : MirroredAt(g.levels[i], w, i)

BookOK(g, w) ==
    /\ g \in Grid /\ w \in Seq(WorkingOrder)
    /\ GridOK(g) /\ OrdersOK(g, w) /\ Backed(g, w) /\ EdgeClear(g)
    /\ g.rebuilds <= 1 => Mirrored(g, w)

AccountOK(g, w, h, n) ==
    /\ h \in Int /\ n \in Nat /\ Balanced(g, w, h, n)
    /\ n > 0 => g.rebuilds >= 2

\* The grid, the orders of all grids, and what is held, in every state.
TradeInv == BookOK(grid, working) /\ AccountOK(grid, working, held, lateFills)

-----------------------------------------------------------------------------
(* A configured quantity is at most the largest.                              *)
LEMMA QtyBound ==
    ASSUME NEW cfg \in StartConfigs \union ApiConfigs
    PROVE  MaxQty \in Nat /\ Sanitize(cfg).qty \in 1..MaxQty
<1> DEFINE C == StartConfigs \union ApiConfigs
           f == [c \in C |-> Sanitize(c).qty]
           Q == {Sanitize(c).qty : c \in C}
<1>1. \A c \in C : Sanitize(c).qty \in Int /\ Sanitize(c).qty > 0
  <2> SUFFICES ASSUME NEW c \in C PROVE Sanitize(c).qty \in Int /\ Sanitize(c).qty > 0
    OBVIOUS
  <2>1. Sanitize(c) \in SaneConfig
    BY ConfigsAssumption, SanitizeType
  <2> QED BY <2>1 DEF SaneConfig, GridConfig
<1>2. IsFiniteSet(C)
  BY ConfigsAssumption, FS_Union
<1>3. f \in Surjection(C, Q)
  BY DEF Surjection
<1>4. IsFiniteSet(Q)
  <2> HIDE DEF C, f, Q
  <2> QED BY <1>2, <1>3, FS_Surjection
<1>5. Sanitize(cfg).qty \in Q /\ Q \subseteq Int
  BY <1>1
<1>6. MaxQty = CHOOSE x \in Q : \A y \in Q : x >= y
  BY DEF MaxQty, Max
<1> HIDE DEF Q
<1>7. PICK m \in Q : \A x \in Q : x <= m
  BY <1>4, <1>5, LargestOf
<1>8. m \in Int /\ \A x \in Q : x \in Int /\ m >= x
  BY <1>5, <1>7
<1>9. MaxQty \in Q /\ \A y \in Q : MaxQty >= y
  BY <1>6, <1>8
<1>10. MaxQty \in Int /\ Sanitize(cfg).qty \in Int /\ Sanitize(cfg).qty > 0
       /\ MaxQty >= Sanitize(cfg).qty
  BY <1>1, <1>5, <1>9
<1> QED BY <1>10

(* Near 0, with one fill more, and in between.                                *)
LEMMA NearMore ==
    ASSUME MaxQty \in Nat, NEW x \in Int, NEW n \in Nat, Near(x, n),
           NEW e \in Int, -MaxQty <= e, e <= MaxQty
    PROVE  Near(x + e, n + 1)
<1> DEFINE M == MaxQty
           P == MaxQty * n
<1>1. MaxQty * (n + 1) = P + M /\ P \in Int /\ M \in Int
  OBVIOUS
<1>2. -P <= x /\ x <= P /\ -M <= e /\ e <= M
  BY DEF Near
<1> HIDE DEF M, P
<1>3. -(P + M) <= x + e /\ x + e <= P + M
  BY <1>1, <1>2
<1> QED BY <1>1, <1>3 DEF Near

(* What lies between two amounts near zero is near zero.                      *)
LEMMA NearBetween ==
    ASSUME MaxQty \in Nat, NEW n \in Nat, NEW x \in Int, NEW y \in Int, NEW z \in Int,
           Near(x, n), Near(z, n), x <= y, y <= z
    PROVE  Near(y, n)
<1> DEFINE P == MaxQty * n
<1>1. P \in Int /\ -P <= x /\ z <= P
  BY DEF Near
<1> HIDE DEF P
<1>2. -P <= y /\ y <= P
  BY <1>1
<1> QED BY <1>2 DEF Near, P

(* A sequence with one order taken out: where the others are.                 *)
LEMMA DropEffect ==
    ASSUME NEW w \in Seq(WorkingOrder), NEW k \in DOMAIN w
    PROVE  LET d == Drop(w, k)
           IN  /\ d \in Seq(WorkingOrder) /\ DOMAIN d = 1..(Len(w) - 1) /\ Len(d) = Len(w) - 1
               /\ Len(w) \in Nat /\ DOMAIN w = 1..Len(w) /\ k \in 1..Len(w)
               /\ \A i \in DOMAIN d : IF i < k THEN i \in DOMAIN w /\ d[i] = w[i]
                                      ELSE i + 1 \in DOMAIN w /\ d[i] = w[i + 1]
               /\ \A i \in DOMAIN d : \E j \in DOMAIN w : j # k /\ d[i] = w[j]
               /\ \A j \in DOMAIN w : j # k => \E i \in DOMAIN d :
                     /\ d[i] = w[j]
                     /\ \A m \in DOMAIN d : m # i => \E l \in DOMAIN w : l # j /\ l # k /\ d[m] = w[l]
<1> DEFINE d == Drop(w, k)
           n == Len(w)
<1>1. n \in Nat /\ DOMAIN w = 1..n /\ k \in 1..n /\ \A i \in 1..n : w[i] \in WorkingOrder
  BY LenProperties
<1>2. d = [i \in 1..(n - 1) |-> IF i < k THEN w[i] ELSE w[i + 1]]
  BY DEF Drop
<1> HIDE DEF d, n
<1>3. \A i \in 1..(n - 1) : IF i < k THEN i \in 1..n /\ d[i] = w[i]
                            ELSE i + 1 \in 1..n /\ d[i] = w[i + 1]
  BY <1>1, <1>2
<1>4. d \in [1..(n - 1) -> WorkingOrder]
  BY <1>1, <1>2
<1>5. n - 1 \in Nat
  BY <1>1
<1>6. d \in Seq(WorkingOrder) /\ DOMAIN d = 1..(n - 1)
  BY <1>4, <1>5, IsASeq
<1>7. Len(d) = n - 1
  BY <1>5, <1>6, LenProperties
<1>8. \A i \in 1..(n - 1) : \E j \in 1..n : j # k /\ d[i] = w[j]
  <2> SUFFICES ASSUME NEW i \in 1..(n - 1) PROVE \E j \in 1..n : j # k /\ d[i] = w[j]
    OBVIOUS
  <2>1. CASE i < k
    <3>1. i \in 1..n /\ i # k /\ d[i] = w[i]
      BY <1>1, <1>3, <2>1
    <3> QED BY <3>1
  <2>2. CASE ~(i < k)
    <3>1. i + 1 \in 1..n /\ i + 1 # k /\ d[i] = w[i + 1]
      BY <1>1, <1>3, <2>2
    <3> QED BY <3>1
  <2> QED BY <2>1, <2>2
<1>9. ASSUME NEW j \in 1..n, j # k
      PROVE  \E i \in 1..(n - 1) :
                /\ d[i] = w[j]
                /\ \A m \in 1..(n - 1) : m # i => \E l \in 1..n : l # j /\ l # k /\ d[m] = w[l]
  <2> DEFINE i == IF j < k THEN j ELSE j - 1
  <2>1. i \in 1..(n - 1) /\ d[i] = w[j]
    <3>1. CASE j < k
      <4>1. j \in 1..(n - 1) /\ i = j
        BY <1>1, <3>1
      <4> QED BY <1>3, <3>1, <4>1
    <3>2. CASE ~(j < k)
      <4>1. j - 1 \in 1..(n - 1) /\ ~(j - 1 < k) /\ i = j - 1 /\ i + 1 = j
        BY <1>1, <1>9, <3>2
      <4> HIDE DEF i
      <4>2. d[i] = w[i + 1]
        BY <1>3, <4>1
      <4> QED BY <4>1, <4>2
    <3> QED BY <3>1, <3>2
  <2>2. ASSUME NEW m \in 1..(n - 1), m # i
        PROVE  \E l \in 1..n : l # j /\ l # k /\ d[m] = w[l]
    <3>1. CASE m < k
      <4>1. m \in 1..n /\ m # k /\ m # j
        BY <1>1, <1>9, <2>2, <3>1
      <4> QED BY <1>3, <3>1, <4>1
    <3>2. CASE ~(m < k)
      <4>1. m + 1 \in 1..n /\ m + 1 # k /\ m + 1 # j
        BY <1>1, <1>9, <2>2, <3>2
      <4>2. d[m] = w[m + 1]
        BY <1>3, <3>2
      <4> QED BY <4>1, <4>2
    <3> QED BY <3>1, <3>2
  <2> HIDE DEF i
  <2> QED BY <2>1, <2>2
<1>10. \A j \in DOMAIN w : j # k => \E i \in DOMAIN d :
         /\ d[i] = w[j]
         /\ \A m \in DOMAIN d : m # i => \E l \in DOMAIN w : l # j /\ l # k /\ d[m] = w[l]
  <2>1. DOMAIN w = 1..n /\ DOMAIN d = 1..(n - 1)
    BY <1>1, <1>6
  <2>2. ASSUME NEW j \in 1..n, j # k
        PROVE  \E i \in DOMAIN d :
                  /\ d[i] = w[j]
                  /\ \A m \in DOMAIN d : m # i => \E l \in DOMAIN w : l # j /\ l # k /\ d[m] = w[l]
    <3>1. PICK i \in 1..(n - 1) :
             /\ d[i] = w[j]
             /\ \A m \in 1..(n - 1) : m # i => \E l \in 1..n : l # j /\ l # k /\ d[m] = w[l]
      BY <1>9, <2>2
    <3>2. i \in DOMAIN d
      BY <2>1
    <3>3. \A m \in DOMAIN d : m # i => \E l \in DOMAIN w : l # j /\ l # k /\ d[m] = w[l]
      BY <2>1, <3>1
    <3> QED BY <3>1, <3>2, <3>3
  <2> QED BY <2>1, <2>2
<1>11. \A i \in DOMAIN d : \E j \in DOMAIN w : j # k /\ d[i] = w[j]
  BY <1>1, <1>6, <1>8, Zenon
<1>12. \A i \in DOMAIN d : IF i < k THEN i \in DOMAIN w /\ d[i] = w[i]
                            ELSE i + 1 \in DOMAIN w /\ d[i] = w[i + 1]
  BY <1>1, <1>3, <1>6, Zenon
<1> QED BY <1>1, <1>6, <1>7, <1>10, <1>11, <1>12, Zenon DEF d, n


-----------------------------------------------------------------------------
(* The orders of a grid, and its levels in use, are finitely many.            *)
LEMMA Countable ==
    ASSUME NEW g \in Grid, NEW w \in Seq(WorkingOrder)
    PROVE  /\ IsFiniteSet(Current(g, w)) /\ Cardinality(Current(g, w)) \in Nat
           /\ IsFiniteSet(InUse(g)) /\ Cardinality(InUse(g)) \in Nat
           /\ Spare(g, w) \in Int
<1>1. Current(g, w) \subseteq 1..Len(w) /\ InUse(g) \subseteq 1..Len(g.levels)
  BY LenProperties DEF Current, InUse
<1>2. Len(w) \in Nat /\ Len(g.levels) \in Nat
  BY LenProperties DEF Grid
<1>3. IsFiniteSet(1..Len(w)) /\ IsFiniteSet(1..Len(g.levels))
  BY <1>2, FS_Interval
<1>4. IsFiniteSet(Current(g, w)) /\ IsFiniteSet(InUse(g))
  BY <1>1, <1>3, FS_Subset
<1>5. Cardinality(Current(g, w)) \in Nat /\ Cardinality(InUse(g)) \in Nat
  BY <1>4, FS_CardinalityType
<1> QED BY <1>4, <1>5 DEF Spare

(* Levels in use have orders of their own: none of the grid's orders is       *)
(* missing, and one that stands for no level is a spare.                      *)
LEMMA BackedLevels ==
    ASSUME NEW g \in Grid, NEW w \in Seq(WorkingOrder), Backed(g, w),
           NEW T, T \subseteq Current(g, w),
           \A i \in InUse(g) : \E k \in T :
              w[k].order.id = i /\ w[k].order.side = SideOf(g.levels[i].state)
    PROVE  IsFiniteSet(T) /\ Cardinality(InUse(g)) <= Cardinality(T)
<1> DEFINE f == [i \in InUse(g) |->
                   CHOOSE k \in T : w[k].order.id = i /\ w[k].order.side = SideOf(g.levels[i].state)]
<1>1. \A i \in InUse(g) : f[i] \in T /\ w[f[i]].order.id = i
  OBVIOUS
<1>2. f \in [InUse(g) -> T]
  BY <1>1
<1>3. \A i, j \in InUse(g) : f[i] = f[j] => i = j
  BY <1>1
<1> HIDE DEF f
<1>4. f \in Injection(InUse(g), T)
  BY <1>2, <1>3 DEF Injection, IsInjective
<1>5. IsFiniteSet(T)
  BY Countable, FS_Subset
<1> QED BY <1>4, <1>5, FS_Injection

(* Orders are at least as many as the levels that wait for them.              *)
LEMMA SpareNat ==
    ASSUME NEW g \in Grid, NEW w \in Seq(WorkingOrder), Backed(g, w)
    PROVE  Spare(g, w) \in Nat
<1>1. Cardinality(InUse(g)) <= Cardinality(Current(g, w))
  BY BackedLevels DEF Backed
<1> QED BY <1>1, Countable DEF Spare

(* A current order that no level in use waits for leaves one to spare.        *)
LEMMA SpareOrder ==
    ASSUME NEW g \in Grid, NEW w \in Seq(WorkingOrder), Backed(g, w),
           NEW k \in Current(g, w),
           \A i \in InUse(g) : w[k].order.id # i \/ w[k].order.side # SideOf(g.levels[i].state)
    PROVE  Spare(g, w) \in Nat /\ Spare(g, w) >= 1
<1> DEFINE T == Current(g, w) \ {k}
<1>1. \A i \in InUse(g) : \E j \in T :
         w[j].order.id = i /\ w[j].order.side = SideOf(g.levels[i].state)
  BY DEF Backed
<1>2. T \subseteq Current(g, w)
  OBVIOUS
<1>3. Cardinality(T) = Cardinality(Current(g, w)) - 1
  BY Countable, FS_RemoveElement
<1> HIDE DEF T
<1>4. Cardinality(InUse(g)) <= Cardinality(T)
  BY <1>1, <1>2, BackedLevels
<1> QED BY <1>3, <1>4, Countable DEF Spare

(* What an order more, or one less, does to the counts.                       *)
LEMMA AppendCounts ==
    ASSUME NEW g \in Grid, NEW w \in Seq(WorkingOrder), NEW o \in WorkingOrder,
           o.gen = g.rebuilds
    PROVE  /\ Append(w, o) \in Seq(WorkingOrder)
           /\ Cardinality(Current(g, Append(w, o))) = Cardinality(Current(g, w)) + 1
           /\ Offered(w) \in Int
           /\ Offered(Append(w, o)) =
                Offered(w) + (IF o.order.side = "Sell" THEN o.order.qty ELSE 0)
<1> DEFINE n == Len(w)
           v == Append(w, o)
<1>1. /\ n \in Nat /\ DOMAIN w = 1..n /\ v \in Seq(WorkingOrder) /\ DOMAIN v = 1..(n + 1)
      /\ v[n + 1] = o /\ \A i \in 1..n : v[i] = w[i] /\ w[i] \in WorkingOrder
  BY LenProperties
<1>2. Current(g, v) = Current(g, w) \union {n + 1} /\ n + 1 \notin Current(g, w)
  <2> HIDE DEF v, n
  <2> QED BY <1>1 DEF Current
<1>3. Cardinality(Current(g, v)) = Cardinality(Current(g, w)) + 1
  BY <1>2, Countable, FS_AddElement
<1>4. Offer(w) \in [1..n -> Int]
  BY <1>1 DEF Offer, WorkingOrder, Intent
<1>5. Offer(v) \in [1..(n + 1) -> Int]
  <2> HIDE DEF v, n
  <2>1. \A i \in 1..(n + 1) : v[i] \in WorkingOrder
    BY <1>1
  <2> QED BY <1>1, <2>1 DEF Offer, WorkingOrder, Intent
<1>6. (\A i \in 1..n : Offer(v)[i] = Offer(w)[i])
      /\ Offer(v)[n + 1] = IF o.order.side = "Sell" THEN o.order.qty ELSE 0
  <2> HIDE DEF v, n
  <2>1. DOMAIN v = 1..(n + 1) /\ DOMAIN w = 1..n /\ n + 1 \in 1..(n + 1)
        /\ \A i \in 1..n : i \in 1..(n + 1)
    BY <1>1
  <2> QED BY <1>1, <2>1 DEF Offer
<1>7. Offered(w) \in Int
  <2> HIDE DEF n
  <2>1. IsFiniteSet(1..n)
    BY <1>1, FS_Interval
  <2> QED BY <1>4, <2>1, SumFunctionType DEF Offered
<1>8. SumFunction(Offer(v)) = SumFunction(Offer(w)) + Offer(v)[n + 1]
  <2> HIDE DEF v, n
  <2> QED BY <1>1, <1>4, <1>5, <1>6, SumSequenceGrow
<1> QED BY <1>1, <1>3, <1>6, <1>7, <1>8 DEF Offered

(* An order that leaves the market leaves the counts of orders and of offered *)
(* quantities.                                                                *)
LEMMA DropCounts ==
    ASSUME NEW g \in Grid, NEW w \in Seq(WorkingOrder), NEW k \in DOMAIN w
    PROVE  /\ Cardinality(Current(g, Drop(w, k))) =
                Cardinality(Current(g, w)) - (IF w[k].gen = g.rebuilds THEN 1 ELSE 0)
           /\ Offered(w) \in Int
           /\ Offered(Drop(w, k)) =
                Offered(w) - (IF w[k].order.side = "Sell" THEN w[k].order.qty ELSE 0)
<1> DEFINE n == Len(w)
           d == Drop(w, k)
<1>1. /\ n \in Nat /\ DOMAIN w = 1..n /\ k \in 1..n /\ d \in Seq(WorkingOrder)
      /\ DOMAIN d = 1..(n - 1)
      /\ \A i \in DOMAIN d : IF i < k THEN i \in DOMAIN w /\ d[i] = w[i]
                             ELSE i + 1 \in DOMAIN w /\ d[i] = w[i + 1]
  BY DropEffect, Zenon
<1> HIDE DEF d, n
<1>2. DOMAIN w = 1..n /\ \A i \in 1..n : w[i] \in WorkingOrder
  BY <1>1
<1>3. Cardinality(Current(g, d)) =
        Cardinality(Current(g, w)) - (IF w[k].gen = g.rebuilds THEN 1 ELSE 0)
  <2> DEFINE S == Current(g, w)
             T == Current(g, d)
  <2>1. S \subseteq 1..n /\ (k \in S <=> w[k].gen = g.rebuilds)
    BY <1>1 DEF Current
  <2>2. T = Shifted(n, k, S)
    BY <1>1 DEF Current, Shifted
  <2> HIDE DEF S, T
  <2>3. Cardinality(T) = Cardinality(S) - (IF k \in S THEN 1 ELSE 0)
    BY <1>1, <2>1, <2>2, PlacesDrop
  <2> QED BY <2>1, <2>3 DEF S, T
<1>4. Offer(w) \in [1..n -> Int]
  BY <1>2 DEF Offer, WorkingOrder, Intent
<1>5. \A i \in 1..(n - 1) : Offer(d)[i] = IF i < k THEN Offer(w)[i] ELSE Offer(w)[i + 1]
  BY <1>1 DEF Offer
<1>6. Offer(d) \in [1..(n - 1) -> Int]
  <2>1. \A i \in 1..(n - 1) : d[i] \in WorkingOrder
    BY <1>1
  <2> QED BY <1>1, <2>1 DEF Offer, WorkingOrder, Intent
<1>7. Offered(w) \in Int
  <2>1. IsFiniteSet(1..n)
    BY <1>1, FS_Interval
  <2> QED BY <1>4, <2>1, SumFunctionType DEF Offered
<1>8. SumFunction(Offer(d)) = SumFunction(Offer(w)) - Offer(w)[k]
  <2>1. Without(Offer(w), n, k, Offer(d))
    BY <1>1, <1>4, <1>5, <1>6 DEF Without
  <2> QED BY <2>1, SumSequenceDrop
<1>9. Offer(w)[k] = IF w[k].order.side = "Sell" THEN w[k].order.qty ELSE 0
  BY <1>1 DEF Offer
<1> QED BY <1>3, <1>7, <1>8, <1>9 DEF Offered, d

(* What changing one level's state does to the levels in use.                 *)
LEMMA InUseCounts ==
    ASSUME NEW g \in Grid, NEW i \in 1..Len(g.levels), NEW state \in LevelStates
    PROVE  LET h == SetState(g, i, state)
           IN  /\ InUse(h) = IF state = "Idle" THEN InUse(g) \ {i} ELSE InUse(g) \union {i}
               /\ Cardinality(InUse(h)) =
                    Cardinality(InUse(g)) + (IF i \in InUse(g) THEN 0 ELSE 1)
                                          - (IF state = "Idle" THEN 1 ELSE 0)
<1> DEFINE h == SetState(g, i, state)
<1>1. /\ Len(h.levels) = Len(g.levels) /\ h.levels[i].state = state
      /\ \A j \in 1..Len(g.levels) : j # i => h.levels[j] = g.levels[j]
  BY SetStateEffect
<1>2. InUse(h) = IF state = "Idle" THEN InUse(g) \ {i} ELSE InUse(g) \union {i}
  <2> HIDE DEF h
  <2> QED BY <1>1 DEF InUse
<1>3. IsFiniteSet(InUse(g)) /\ Cardinality(InUse(g)) \in Nat
  <2>1. <<>> \in Seq(WorkingOrder)
    OBVIOUS
  <2> QED BY <2>1, Countable
<1> HIDE DEF h
<1>4. Cardinality(InUse(h)) =
        Cardinality(InUse(g)) + (IF i \in InUse(g) THEN 0 ELSE 1) - (IF state = "Idle" THEN 1 ELSE 0)
  <2>1. CASE i \in InUse(g) /\ state = "Idle"
    <3>1. Cardinality(InUse(g) \ {i}) = Cardinality(InUse(g)) - 1
      BY <1>3, <2>1, FS_RemoveElement
    <3> QED BY <1>2, <1>3, <2>1, <3>1
  <2>2. CASE i \notin InUse(g) /\ state = "Idle"
    <3>1. InUse(h) = InUse(g)
      BY <1>2, <2>2
    <3> QED BY <1>3, <2>2, <3>1
  <2>3. CASE i \in InUse(g) /\ state # "Idle"
    <3>1. InUse(h) = InUse(g)
      BY <1>2, <2>3
    <3> QED BY <1>3, <2>3, <3>1
  <2>4. CASE i \notin InUse(g) /\ state # "Idle"
    <3>1. Cardinality(InUse(g) \union {i}) = Cardinality(InUse(g)) + 1
      BY <1>3, <2>4, FS_AddElement
    <3> QED BY <1>2, <1>3, <2>4, <3>1
  <2> QED BY <2>1, <2>2, <2>3, <2>4
<1> QED BY <1>2, <1>4 DEF h


-----------------------------------------------------------------------------
(* A rebuild leaves every order to an older grid.                             *)
LEMMA RebuildKeeps ==
    ASSUME NEW g, NEW w, NEW m, NEW n, BookOK(g, w), AccountOK(g, w, m, n),
           NEW h, Rebuilt(g.rebuilds, h), h.cfg.qty \in 1..MaxQty
    PROVE  BookOK(h, w) /\ AccountOK(h, w, m, n)
<1>1. /\ g \in Grid /\ h \in Grid /\ w \in Seq(WorkingOrder) /\ g.rebuilds \in Nat
      /\ h.rebuilds \in Nat /\ h.rebuilds > g.rebuilds /\ h.anchor \in Int /\ h.anchor > 0
      /\ \A k \in DOMAIN w : w[k].gen \in 1..g.rebuilds /\ w[k].order.qty \in 1..MaxQty
  BY DEF BookOK, Rebuilt, Grid, OrdersOK
<1>2. InUse(h) = {} /\ Current(h, w) = {}
  <2>1. InUse(h) = {}
    BY DEF Rebuilt, InUse
  <2>2. \A k \in DOMAIN w : w[k].gen # h.rebuilds
    BY <1>1
  <2> QED BY <2>1, <2>2 DEF Current
<1>3. GridOK(h)
  BY <1>1 DEF GridOK, BookOK, Rebuilt
<1>4. OrdersOK(h, w)
  <2>1. \A k \in DOMAIN w : w[k].gen \in 1..h.rebuilds /\ w[k].gen # h.rebuilds
    BY <1>1
  <2> QED BY <1>1, <2>1 DEF OrdersOK
<1>5. Backed(h, w) /\ EdgeClear(h)
  BY <1>2 DEF Backed, EdgeClear
<1>6. h.rebuilds <= 1 => Mirrored(h, w)
  <2> SUFFICES ASSUME h.rebuilds <= 1 PROVE Mirrored(h, w)
    OBVIOUS
  <2>1. g.rebuilds = 0
    BY <1>1
  <2>2. \A k \in DOMAIN w : FALSE
    BY <1>1, <2>1
  <2> QED BY <2>2 DEF Mirrored, MirroredAt, Rebuilt
<1>7. AccountOK(h, w, m, n)
  <2>1. Spare(h, w) = 0
    BY <1>2, FS_EmptySet DEF Spare
  <2>2. h.cfg.qty * Spare(h, w) = 0 /\ n > 0 => h.rebuilds >= 2
    BY <1>1, <2>1 DEF AccountOK
  <2>3. Offered(w) \in Int
    <3>1. \A k \in DOMAIN w : w[k] \in WorkingOrder
      BY <1>1
    <3>2. Offer(w) \in [DOMAIN w -> Int]
      BY <3>1 DEF Offer, WorkingOrder, Intent
    <3>3. IsFiniteSet(DOMAIN w)
      <4>1. DOMAIN w = 1..Len(w) /\ Len(w) \in Nat
        BY <1>1, LenProperties
      <4> QED BY <4>1, FS_Interval
    <3> QED BY <3>2, <3>3, SumFunctionType DEF Offered
  <2>4. m - Offered(w) + h.cfg.qty * Spare(h, w) = m - Offered(w)
    <3>1. m \in Int
      BY DEF AccountOK
    <3> DEFINE x == h.cfg.qty * Spare(h, w)
               y == Offered(w)
    <3>2. x = 0 /\ y \in Int
      BY <2>1, <2>3
    <3> HIDE DEF x, y
    <3>3. m - y + x = m - y
      BY <3>1, <3>2
    <3> QED BY <3>3 DEF x, y
  <2>5. n > 0 => h.rebuilds >= 2
    BY <1>1 DEF AccountOK
  <2> QED BY <2>4, <2>5 DEF AccountOK, Balanced
<1> QED BY <1>1, <1>3, <1>4, <1>5, <1>6, <1>7 DEF BookOK

(* What is said of orders, when a level's state changes, an order of the grid *)
(* is added, one is taken out.                                                *)
LEMMA OrdersKeep ==
    ASSUME NEW g \in Grid, NEW w \in Seq(WorkingOrder), OrdersOK(g, w), GridOK(g)
    PROVE  /\ \A i \in 1..Len(g.levels), state \in LevelStates : OrdersOK(SetState(g, i, state), w)
           /\ \A o \in WorkingOrder :
                 /\ o.order.qty = g.cfg.qty /\ o.gen = g.rebuilds /\ g.rebuilds # 0
                 /\ o.order.id \in 1..Len(g.levels)
                 => OrdersOK(g, Append(w, o))
           /\ \A k \in DOMAIN w : OrdersOK(g, Drop(w, k))
<1>1. ASSUME NEW i \in 1..Len(g.levels), NEW state \in LevelStates
      PROVE  OrdersOK(SetState(g, i, state), w)
  <2> DEFINE h == SetState(g, i, state)
  <2>1. h.cfg = g.cfg /\ h.rebuilds = g.rebuilds /\ Len(h.levels) = Len(g.levels)
    BY SetStateEffect
  <2> HIDE DEF h
  <2>2. OrdersOK(h, w)
    BY <2>1 DEF OrdersOK
  <2> QED BY <2>2 DEF h
<1>2. ASSUME NEW o \in WorkingOrder, o.order.qty = g.cfg.qty, o.gen = g.rebuilds,
             g.rebuilds # 0, o.order.id \in 1..Len(g.levels)
      PROVE  OrdersOK(g, Append(w, o))
  <2>1. \A k \in DOMAIN Append(w, o) :
           (k \in DOMAIN w /\ Append(w, o)[k] = w[k]) \/ Append(w, o)[k] = o
    BY LenProperties
  <2>2. g.cfg.qty \in 1..MaxQty /\ g.rebuilds \in 1..g.rebuilds
    BY <1>2 DEF GridOK, Grid
  <2> QED BY <1>2, <2>1, <2>2 DEF OrdersOK
<1>3. ASSUME NEW k \in DOMAIN w PROVE OrdersOK(g, Drop(w, k))
  <2> DEFINE d == Drop(w, k)
  <2>1. \A i \in DOMAIN d : \E j \in DOMAIN w : d[i] = w[j]
    BY DropEffect
  <2> HIDE DEF d
  <2>2. OrdersOK(g, d)
    BY <2>1 DEF OrdersOK
  <2> QED BY <2>2 DEF d
<1> QED BY <1>1, <1>2, <1>3

(* An order of the grid stays when another is added or taken out.             *)
LEMMA OrderStays ==
    ASSUME NEW g \in Grid, NEW w \in Seq(WorkingOrder), NEW j \in Current(g, w)
    PROVE  /\ \A o \in WorkingOrder :
                 \E p \in Current(g, Append(w, o)) : Append(w, o)[p] = w[j]
           /\ \A k \in DOMAIN w :
                 k # j => \E p \in Current(g, Drop(w, k)) : Drop(w, k)[p] = w[j]
<1>1. j \in DOMAIN w /\ w[j].gen = g.rebuilds
  BY DEF Current
<1>2. ASSUME NEW o \in WorkingOrder
      PROVE  \E p \in Current(g, Append(w, o)) : Append(w, o)[p] = w[j]
  <2>1. j \in DOMAIN Append(w, o) /\ Append(w, o)[j] = w[j]
    BY <1>1, LenProperties
  <2>2. j \in Current(g, Append(w, o))
    BY <1>1, <2>1 DEF Current
  <2> QED BY <2>1, <2>2
<1>3. ASSUME NEW k \in DOMAIN w, k # j
      PROVE  \E p \in Current(g, Drop(w, k)) : Drop(w, k)[p] = w[j]
  <2> DEFINE d == Drop(w, k)
  <2>1. PICK p \in DOMAIN d : d[p] = w[j]
    BY <1>1, <1>3, DropEffect
  <2>2. p \in Current(g, d)
    BY <1>1, <2>1 DEF Current
  <2> QED BY <2>1, <2>2
<1> QED BY <1>2, <1>3

(* What mirrors a level is not touched by the orders of other levels.         *)
LEMMA MirrorKeeps ==
    ASSUME NEW w \in Seq(WorkingOrder), NEW level, NEW i, MirroredAt(level, w, i)
    PROVE  /\ \A o \in WorkingOrder : o.order.id # i => MirroredAt(level, Append(w, o), i)
           /\ \A k \in DOMAIN w : w[k].order.id # i => MirroredAt(level, Drop(w, k), i)
<1>1. ASSUME NEW o \in WorkingOrder, o.order.id # i
      PROVE  MirroredAt(level, Append(w, o), i)
  <2> DEFINE v == Append(w, o)
             e == Len(w) + 1
  <2>1. /\ DOMAIN v = 1..e /\ v[e] = o
        /\ \A k \in DOMAIN w : k \in DOMAIN v /\ k # e /\ v[k] = w[k]
        /\ \A k \in DOMAIN v : k # e => k \in DOMAIN w
    BY LenProperties
  <2> HIDE DEF v, e
  <2>2. ASSUME level.state = "Idle", NEW k \in DOMAIN v PROVE v[k].order.id # i
    BY <1>1, <2>1, <2>2 DEF MirroredAt
  <2>3. ASSUME level.state # "Idle"
        PROVE  \E k \in DOMAIN v :
                  /\ \A j \in DOMAIN v : v[j].order.id = i <=> j = k
                  /\ v[k].order.side = SideOf(level.state)
                  /\ v[k].order.price = IF level.state = "BuyPlaced" THEN level.buy ELSE level.sell
    <3>1. PICK k \in DOMAIN w :
             /\ \A j \in DOMAIN w : w[j].order.id = i <=> j = k
             /\ w[k].order.side = SideOf(level.state)
             /\ w[k].order.price = IF level.state = "BuyPlaced" THEN level.buy ELSE level.sell
      BY <2>3 DEF MirroredAt
    <3>2. k \in DOMAIN v /\ v[k] = w[k]
      BY <2>1
    <3>3. \A j \in DOMAIN v : v[j].order.id = i <=> j = k
      BY <1>1, <2>1, <3>1, <3>2
    <3> QED BY <3>1, <3>2, <3>3
  <2>4. MirroredAt(level, v, i)
    BY <2>2, <2>3 DEF MirroredAt
  <2> QED BY <2>4 DEF v
<1>2. ASSUME NEW k \in DOMAIN w, w[k].order.id # i
      PROVE  MirroredAt(level, Drop(w, k), i)
  <2> DEFINE d == Drop(w, k)
  <2>1. /\ \A m \in DOMAIN d : \E j \in DOMAIN w : j # k /\ d[m] = w[j]
        /\ \A j \in DOMAIN w : j # k => \E m \in DOMAIN d :
              /\ d[m] = w[j]
              /\ \A p \in DOMAIN d : p # m => \E l \in DOMAIN w : l # j /\ l # k /\ d[p] = w[l]
    BY DropEffect, Zenon
  <2> HIDE DEF d
  <2>2. ASSUME level.state = "Idle", NEW m \in DOMAIN d PROVE d[m].order.id # i
    BY <2>1, <2>2 DEF MirroredAt
  <2>3. ASSUME level.state # "Idle"
        PROVE  \E m \in DOMAIN d :
                  /\ \A j \in DOMAIN d : d[j].order.id = i <=> j = m
                  /\ d[m].order.side = SideOf(level.state)
                  /\ d[m].order.price = IF level.state = "BuyPlaced" THEN level.buy ELSE level.sell
    <3>1. PICK j \in DOMAIN w :
             /\ \A l \in DOMAIN w : w[l].order.id = i <=> l = j
             /\ w[j].order.side = SideOf(level.state)
             /\ w[j].order.price = IF level.state = "BuyPlaced" THEN level.buy ELSE level.sell
      BY <2>3 DEF MirroredAt
    <3>2. j # k
      BY <1>2, <3>1
    <3>3. PICK m \in DOMAIN d :
             /\ d[m] = w[j]
             /\ \A p \in DOMAIN d : p # m => \E l \in DOMAIN w : l # j /\ l # k /\ d[p] = w[l]
      BY <2>1, <3>2
    <3>4. \A p \in DOMAIN d : d[p].order.id = i <=> p = m
      BY <3>1, <3>3
    <3> QED BY <3>1, <3>3, <3>4
  <2>4. MirroredAt(level, d, i)
    BY <2>2, <2>3 DEF MirroredAt
  <2> QED BY <2>4 DEF d
<1> QED BY <1>1, <1>2


-----------------------------------------------------------------------------
BuyOrder(g, i) == [order |-> BuyIntent(g, i), gen |-> g.rebuilds]
SellOrder(g, i) == [order |-> SellIntent(g, i), gen |-> g.rebuilds]

(* The orders a grid makes are orders.                                        *)
LEMMA OwnOrder ==
    ASSUME NEW g \in Grid, NEW i \in 1..Len(g.levels)
    PROVE  BuyOrder(g, i) \in WorkingOrder /\ SellOrder(g, i) \in WorkingOrder
<1>1. g.levels[i] \in Level /\ g.cfg.qty \in Int /\ g.rebuilds \in Int /\ i \in Int
  BY DEF Grid, SaneConfig, GridConfig
<1> QED BY <1>1 DEF BuyOrder, SellOrder, BuyIntent, SellIntent, WorkingOrder, Intent, Level

(* What is said of a grid alone, when a level's state changes.                *)
LEMMA GridKeeps ==
    ASSUME NEW g \in Grid, GridOK(g), EdgeClear(g),
           NEW i \in 1..Len(g.levels), NEW state \in LevelStates, state # "BuyFilled",
           \/ state = "Idle" \/ i \in InUse(g)
           \/ g.cfg.dynamic => g.levels[i].buy * 1000 > g.anchor * (1000 - g.cfg.recenter)
    PROVE  LET h == SetState(g, i, state) IN GridOK(h) /\ EdgeClear(h)
<1> DEFINE h == SetState(g, i, state)
<1>1. /\ h.cfg = g.cfg /\ h.anchor = g.anchor /\ h.rebuilds = g.rebuilds
      /\ Len(h.levels) = Len(g.levels) /\ h.levels[i].state = state
      /\ h.levels \in Seq(Level) /\ g.levels \in Seq(Level)
      /\ \A j \in 1..Len(g.levels) :
            h.levels[j].buy = g.levels[j].buy /\ (j # i => h.levels[j] = g.levels[j])
  BY SetStateEffect DEF Grid
<1>2. InUse(h) = IF state = "Idle" THEN InUse(g) \ {i} ELSE InUse(g) \union {i}
  BY InUseCounts
<1> HIDE DEF h
<1>3. GridOK(h)
  <2>1. g.anchor = 0 => h.levels = <<>>
    BY <1>1, EmptySeq DEF GridOK
  <2>2. \A j \in 1..Len(h.levels) : h.levels[j].state # "BuyFilled"
    BY <1>1 DEF GridOK
  <2> QED BY <1>1, <2>1, <2>2 DEF GridOK
<1>4. EdgeClear(h)
  <2>1. InUse(g) \subseteq 1..Len(g.levels)
    BY DEF InUse
  <2>2. ASSUME g.cfg.dynamic, NEW j \in InUse(h)
        PROVE  g.levels[j].buy * 1000 > g.anchor * (1000 - g.cfg.recenter)
    BY <1>2, <2>2 DEF EdgeClear
  <2>3. \A j \in InUse(h) : h.levels[j].buy = g.levels[j].buy
    BY <1>1, <1>2, <2>1
  <2> QED BY <1>1, <2>2, <2>3 DEF EdgeClear
<1> QED BY <1>3, <1>4 DEF h

(* A buy placed at an idle level.                                             *)
LEMMA PlaceKeeps ==
    ASSUME NEW g, NEW w, NEW m, NEW n, BookOK(g, w), AccountOK(g, w, m, n), g.anchor > 0,
           NEW i \in 1..Len(g.levels), g.levels[i].state = "Idle",
           g.cfg.dynamic => g.levels[i].buy * 1000 > g.anchor * (1000 - g.cfg.recenter)
    PROVE  LET h == SetState(g, i, "BuyPlaced")
               v == Append(w, BuyOrder(g, i))
           IN  BookOK(h, v) /\ AccountOK(h, v, m, n)
<1> DEFINE h == SetState(g, i, "BuyPlaced")
           o == BuyOrder(g, i)
           v == Append(w, o)
           e == Len(w) + 1
<1>1. g \in Grid /\ w \in Seq(WorkingOrder) /\ GridOK(g) /\ OrdersOK(g, w) /\ Backed(g, w) /\ EdgeClear(g)
  BY DEF BookOK
<1>2. /\ o \in WorkingOrder /\ o.order.id = i /\ o.order.side = "Buy" /\ o.order.qty = g.cfg.qty
      /\ o.order.price = g.levels[i].buy /\ o.gen = g.rebuilds
  BY <1>1, OwnOrder DEF BuyOrder, BuyIntent
<1>3. /\ h \in Grid /\ h.cfg = g.cfg /\ h.anchor = g.anchor /\ h.rebuilds = g.rebuilds
      /\ Len(h.levels) = Len(g.levels) /\ h.levels[i].state = "BuyPlaced"
      /\ \A j \in 1..Len(g.levels) :
            h.levels[j].buy = g.levels[j].buy /\ (j # i => h.levels[j] = g.levels[j])
  BY <1>1, SetStateEffect DEF LevelStates
<1>4. /\ InUse(h) = InUse(g) \union {i} /\ i \notin InUse(g)
      /\ Cardinality(InUse(h)) = Cardinality(InUse(g)) + 1
  <2>1. i \notin InUse(g)
    BY DEF InUse
  <2>2. Cardinality(InUse(g)) \in Nat
    BY <1>1, Countable
  <2>3. /\ InUse(h) = InUse(g) \union {i}
        /\ Cardinality(InUse(h)) = Cardinality(InUse(g)) + (IF i \in InUse(g) THEN 0 ELSE 1) - 0
    BY <1>1, InUseCounts DEF LevelStates
  <2> QED BY <2>1, <2>2, <2>3
<1>5. /\ v \in Seq(WorkingOrder) /\ Cardinality(Current(g, v)) = Cardinality(Current(g, w)) + 1
      /\ Offered(w) \in Int /\ Offered(v) = Offered(w) + 0
  BY <1>1, <1>2, AppendCounts
<1>6. /\ DOMAIN w = 1..Len(w) /\ Len(w) \in Nat /\ DOMAIN v = 1..e /\ v[e] = o
      /\ \A k \in DOMAIN w : k # e /\ v[k] = w[k]
      /\ \A k \in DOMAIN v : k # e => k \in DOMAIN w
  BY <1>1, <1>2, LenProperties
<1>7. GridOK(h) /\ EdgeClear(h)
  BY <1>1, GridKeeps DEF LevelStates
<1>8. OrdersOK(h, v)
  <2>1. g.rebuilds # 0
    BY <1>1 DEF GridOK
  <2>2. OrdersOK(g, v)
    BY <1>1, <1>2, <2>1, OrdersKeep
  <2> HIDE DEF h, v, o
  <2> QED BY <1>3, <2>2 DEF OrdersOK
<1>9. Backed(h, v)
  <2> HIDE DEF h
  <2>1. Current(h, v) = Current(g, v)
    BY <1>3 DEF Current
  <2>2. ASSUME NEW j \in InUse(g)
        PROVE  \E p \in Current(g, v) :
                  v[p].order.id = j /\ v[p].order.side = SideOf(g.levels[j].state)
    <3>1. PICK p \in Current(g, w) : w[p].order.id = j /\ w[p].order.side = SideOf(g.levels[j].state)
      BY <1>1 DEF Backed
    <3>2. o \in WorkingOrder
      BY <1>2
    <3> HIDE DEF o
    <3>3. \E q \in Current(g, v) : v[q] = w[p]
      BY <1>1, <3>2, OrderStays, ZenonT(60)
    <3> QED BY <3>1, <3>3, ZenonT(60)
  <2>3. e \in Current(g, v)
    BY <1>2, <1>6 DEF Current
  <2>4. \A j \in InUse(g) : h.levels[j].state = g.levels[j].state
    BY <1>3, <1>4 DEF InUse
  <2> HIDE DEF v, e, o
  <2>5. v[e].order.id = i /\ v[e].order.side = SideOf(h.levels[i].state)
    BY <1>2, <1>3, <1>6 DEF SideOf
  <2> QED BY <1>4, <2>1, <2>2, <2>3, <2>4, <2>5 DEF Backed
<1>10. h.rebuilds <= 1 => Mirrored(h, v)
  <2> SUFFICES ASSUME h.rebuilds <= 1, NEW j \in 1..Len(g.levels)
               PROVE  MirroredAt(h.levels[j], v, j)
    BY <1>3 DEF Mirrored
  <2> HIDE DEF h
  <2>1. MirroredAt(g.levels[j], w, j)
    BY <1>3 DEF BookOK, Mirrored
  <2>2. CASE j = i
    <3> HIDE DEF v, o, e
    <3>1. \A k \in DOMAIN w : w[k].order.id # i
      BY <2>1, <2>2 DEF MirroredAt
    <3>2. e \in DOMAIN v
      BY <1>6 DEF e
    <3>3. \A l \in DOMAIN v : v[l].order.id = i <=> l = e
      BY <1>2, <1>6, <3>1
    <3> QED BY <1>2, <1>3, <1>6, <2>2, <3>2, <3>3 DEF MirroredAt, SideOf
  <2>3. CASE j # i
    <3>1. h.levels[j] = g.levels[j] /\ o.order.id # j /\ o \in WorkingOrder
      BY <1>2, <1>3, <2>3
    <3> HIDE DEF o
    <3>2. MirroredAt(g.levels[j], v, j)
      BY <1>1, <2>1, <3>1, MirrorKeeps
    <3> QED BY <3>1, <3>2
  <2> QED BY <2>2, <2>3
<1>11. AccountOK(h, v, m, n)
  <2>1. Current(h, v) = Current(g, v)
    BY <1>3 DEF Current
  <2>2. Spare(h, v) = Spare(g, w)
    <3> HIDE DEF h, v
    <3>1. Cardinality(Current(g, w)) \in Nat /\ Cardinality(InUse(g)) \in Nat
      BY <1>1, Countable
    <3> QED BY <1>4, <1>5, <2>1, <3>1 DEF Spare
  <2>3. Offered(v) = Offered(w)
    <3> HIDE DEF v
    <3> QED BY <1>5
  <2> HIDE DEF h, v
  <2> QED BY <1>3, <2>2, <2>3 DEF AccountOK, Balanced
<1> HIDE DEF h, v
<1>12. BookOK(h, v)
  BY <1>3, <1>5, <1>7, <1>8, <1>9, <1>10 DEF BookOK
<1> QED BY <1>11, <1>12 DEF h, v, o

-----------------------------------------------------------------------------
\* The late fills after a fill of order o: one more if o is older than the grid g.
LateAfter(g, o, n) == IF o.gen < g.rebuilds THEN n + 1 ELSE n

(* A fill counts as late exactly when its order is not the grid's own, and    *)
(* there is an older grid only after the second was built.                    *)
LEMMA FillFacts ==
    ASSUME NEW g, NEW w, NEW m, NEW n, BookOK(g, w), AccountOK(g, w, m, n), NEW k \in DOMAIN w
    PROVE  /\ w[k] \in WorkingOrder /\ w[k].order.qty \in 1..MaxQty /\ MaxQty \in Nat
           /\ g.cfg.qty \in 1..MaxQty /\ g.rebuilds \in Nat /\ g.rebuilds # 0
           /\ w[k].gen = g.rebuilds =>
                 /\ k \in Current(g, w) /\ w[k].order.id \in 1..Len(g.levels)
                 /\ w[k].order.qty = g.cfg.qty /\ LateAfter(g, w[k], n) = n
           /\ w[k].gen # g.rebuilds =>
                 g.rebuilds >= 2 /\ LateAfter(g, w[k], n) = n + 1
           /\ g.rebuilds <= 1 => w[k].gen = g.rebuilds
           /\ LateAfter(g, w[k], n) \in Nat
           /\ LateAfter(g, w[k], n) > 0 => g.rebuilds >= 2
           /\ m \in Int /\ n \in Nat /\ Offered(w) \in Int /\ Spare(g, w) \in Nat
<1>1. g \in Grid /\ w \in Seq(WorkingOrder) /\ GridOK(g) /\ OrdersOK(g, w) /\ Backed(g, w)
  BY DEF BookOK
<1>2. /\ w[k] \in WorkingOrder /\ w[k].order.qty \in 1..MaxQty /\ MaxQty \in Nat
      /\ g.cfg.qty \in 1..MaxQty /\ g.rebuilds \in Nat /\ w[k].gen \in 1..g.rebuilds
  BY <1>1 DEF GridOK, OrdersOK, Grid
<1>3. m \in Int /\ n \in Nat /\ (n > 0 => g.rebuilds >= 2)
  BY DEF AccountOK
<1>4. w[k].gen = g.rebuilds =>
         /\ k \in Current(g, w) /\ w[k].order.id \in 1..Len(g.levels)
         /\ w[k].order.qty = g.cfg.qty /\ LateAfter(g, w[k], n) = n
  BY <1>1, <1>2 DEF OrdersOK, Current, LateAfter
<1>5. w[k].gen # g.rebuilds => g.rebuilds >= 2 /\ LateAfter(g, w[k], n) = n + 1
  BY <1>2 DEF LateAfter
<1>6. Offered(w) \in Int /\ Spare(g, w) \in Nat
  BY <1>1, DropCounts, SpareNat
<1> QED BY <1>2, <1>3, <1>4, <1>5, <1>6

(* A buy that finds its level placed: the level's sell takes its place.       *)
LEMMA BuyMatched ==
    ASSUME NEW g, NEW w, NEW m, NEW n, BookOK(g, w), AccountOK(g, w, m, n),
           NEW k \in DOMAIN w, w[k].order.side = "Buy",
           w[k].order.id \in 1..Len(g.levels), g.levels[w[k].order.id].state = "BuyPlaced"
    PROVE  LET i == w[k].order.id
               h == SetState(g, i, "SellPlaced")
               v == Append(Drop(w, k), SellOrder(g, i))
           IN  BookOK(h, v) /\ AccountOK(h, v, m + w[k].order.qty, LateAfter(g, w[k], n))
<1> DEFINE i == w[k].order.id
           q == w[k].order.qty
           c == g.cfg.qty
           r == LateAfter(g, w[k], n)
           h == SetState(g, i, "SellPlaced")
           d == Drop(w, k)
           o == SellOrder(g, i)
           v == Append(d, o)
<1>1. /\ g \in Grid /\ w \in Seq(WorkingOrder) /\ GridOK(g) /\ OrdersOK(g, w)
      /\ Backed(g, w) /\ EdgeClear(g)
  BY DEF BookOK
<1>2. d \in Seq(WorkingOrder) /\ \A p \in DOMAIN d : \E j \in DOMAIN w : j # k /\ d[p] = w[j]
  BY <1>1, DropEffect
<1>3. /\ o \in WorkingOrder /\ o.order.id = i /\ o.order.side = "Sell" /\ o.order.qty = c
      /\ o.order.price = g.levels[i].sell /\ o.gen = g.rebuilds
  BY <1>1, OwnOrder DEF SellOrder, SellIntent
<1>4. /\ h \in Grid /\ h.cfg = g.cfg /\ h.anchor = g.anchor /\ h.rebuilds = g.rebuilds
      /\ Len(h.levels) = Len(g.levels) /\ h.levels[i].state = "SellPlaced"
      /\ h.levels[i].sell = g.levels[i].sell
      /\ \A j \in 1..Len(g.levels) : j # i => h.levels[j] = g.levels[j]
  BY <1>1, SetStateEffect DEF LevelStates
<1>5. i \in InUse(g)
  BY DEF InUse
<1>6. InUse(h) = InUse(g)
  <2>1. InUse(h) = InUse(g) \union {i}
    BY <1>1, InUseCounts DEF LevelStates
  <2> QED BY <1>5, <2>1
<1>7. GridOK(h) /\ EdgeClear(h)
  BY <1>1, <1>5, GridKeeps DEF LevelStates
<1>8. OrdersOK(h, v)
  <2>1. OrdersOK(g, d)
    BY <1>1, OrdersKeep
  <2>2. g.rebuilds # 0
    BY FillFacts
  <2> HIDE DEF d
  <2>3. OrdersOK(g, v)
    BY <1>1, <1>2, <1>3, <2>1, <2>2, OrdersKeep
  <2> HIDE DEF h, v, o
  <2> QED BY <1>4, <2>3 DEF OrdersOK
<1>9. Backed(h, v)
  <2>1. Current(h, v) = Current(g, v) /\ Current(h, d) = Current(g, d)
    BY <1>4 DEF Current
  <2>2. ASSUME NEW j \in InUse(h), j # i
        PROVE  \E p \in Current(h, v) :
                  v[p].order.id = j /\ v[p].order.side = SideOf(h.levels[j].state)
    <3>1. PICK p \in Current(g, w) : w[p].order.id = j /\ w[p].order.side = SideOf(g.levels[j].state)
      BY <1>1, <1>6, <2>2 DEF Backed
    <3>2. p # k /\ j \in 1..Len(g.levels)
      BY <1>6, <2>2, <3>1 DEF InUse
    <3>3. PICK a \in Current(g, d) : d[a] = w[p]
      BY <1>1, <3>1, <3>2, OrderStays
    <3> HIDE DEF d, o, h
    <3>4. PICK b \in Current(g, v) : v[b] = d[a]
      BY <1>1, <1>2, <1>3, <3>3, OrderStays
    <3>5. v[b] = w[p] /\ b \in Current(h, v) /\ h.levels[j] = g.levels[j]
      BY <1>4, <2>1, <2>2, <3>2, <3>3, <3>4
    <3> QED BY <3>1, <3>5, Zenon
  <2>3. \E p \in Current(h, v) : v[p].order.id = i /\ v[p].order.side = SideOf(h.levels[i].state)
    <3> HIDE DEF d, o, h
    <3>1. Len(d) + 1 \in DOMAIN v /\ v[Len(d) + 1] = o
      BY <1>2, <1>3, LenProperties
    <3>2. Len(d) + 1 \in Current(h, v)
      BY <1>3, <1>4, <3>1 DEF Current
    <3>3. SideOf(h.levels[i].state) = "Sell"
      BY <1>4 DEF SideOf
    <3> QED BY <1>3, <3>1, <3>2, <3>3
  <2> HIDE DEF h, v, i
  <2> QED BY <2>2, <2>3 DEF Backed
<1>10. h.rebuilds <= 1 => Mirrored(h, v)
  <2> SUFFICES ASSUME h.rebuilds <= 1, NEW j \in 1..Len(g.levels)
               PROVE  MirroredAt(h.levels[j], v, j)
    BY <1>4 DEF Mirrored
  <2> HIDE DEF h
  <2>1. MirroredAt(g.levels[j], w, j)
    BY <1>4 DEF BookOK, Mirrored
  <2>2. CASE j = i
    <3>1. \A p \in DOMAIN d : d[p].order.id # i
      <4>1. PICK a \in DOMAIN w : \A l \in DOMAIN w : w[l].order.id = i <=> l = a
        BY <2>1, <2>2 DEF MirroredAt
      <4>2. a = k
        BY <4>1
      <4> QED BY <1>2, <4>1, <4>2
    <3> DEFINE e == Len(d) + 1
    <3> HIDE DEF d, o
    <3>2. e \in DOMAIN v /\ v[e] = o /\ \A l \in DOMAIN v : l # e => l \in DOMAIN d /\ v[l] = d[l]
      BY <1>2, <1>3, LenProperties
    <3> HIDE DEF v, e
    <3>3. \A l \in DOMAIN v : v[l].order.id = i <=> l = e
      BY <1>3, <3>1, <3>2
    <3>4. v[e].order.side = SideOf(h.levels[i].state) /\ v[e].order.price = h.levels[i].sell
      BY <1>3, <1>4, <3>2 DEF SideOf
    <3> HIDE DEF i
    <3> QED BY <1>4, <2>2, <3>2, <3>3, <3>4 DEF MirroredAt
  <2>3. CASE j # i
    <3>1. h.levels[j] = g.levels[j] /\ o.order.id # j /\ o \in WorkingOrder
      BY <1>3, <1>4, <2>3
    <3>2. MirroredAt(g.levels[j], d, j)
      BY <1>1, <2>1, <2>3, MirrorKeeps
    <3> HIDE DEF o, d
    <3>3. MirroredAt(g.levels[j], v, j)
      BY <1>2, <3>1, <3>2, MirrorKeeps
    <3> QED BY <3>1, <3>3
  <2> QED BY <2>2, <2>3
<1>11. AccountOK(h, v, m + q, r)
  <2> DEFINE W == Spare(g, w)
             O == Offered(w)
             V == Spare(h, v)
  <2>1. /\ q \in 1..MaxQty /\ c \in 1..MaxQty /\ MaxQty \in Nat /\ m \in Int /\ n \in Nat
        /\ r \in Nat /\ O \in Int /\ W \in Int /\ (r > 0 => h.rebuilds >= 2)
        /\ (w[k].gen = g.rebuilds => q = c /\ r = n) /\ (w[k].gen # g.rebuilds => r = n + 1)
    BY <1>4, FillFacts
  <2>2. Offered(v) = O + c
    <3>1. Offered(d) = O - 0
      BY <1>1, DropCounts
    <3> HIDE DEF d, o
    <3>2. Offered(v) = Offered(d) + c
      BY <1>1, <1>2, <1>3, AppendCounts
    <3> HIDE DEF O, v, c
    <3> QED BY <2>1, <3>1, <3>2
  <2>3. V = W + (IF w[k].gen = g.rebuilds THEN 0 ELSE 1)
    <3>1. Cardinality(Current(g, d)) =
            Cardinality(Current(g, w)) - (IF w[k].gen = g.rebuilds THEN 1 ELSE 0)
      BY <1>1, DropCounts
    <3>2. Cardinality(Current(g, w)) \in Nat /\ Cardinality(InUse(g)) \in Nat
      BY <1>1, Countable
    <3> HIDE DEF d, o, h
    <3>3. Cardinality(Current(g, v)) = Cardinality(Current(g, d)) + 1
      BY <1>1, <1>2, <1>3, AppendCounts
    <3>4. Current(h, v) = Current(g, v)
      BY <1>4 DEF Current
    <3> HIDE DEF v
    <3> QED BY <1>6, <3>1, <3>2, <3>3, <3>4 DEF Spare
  <2>4. Near(m - O, n) /\ Near(m - O + c * W, n)
    BY DEF AccountOK, Balanced
  <2> HIDE DEF W, O, V, q, c, r, h, v
  <2>5. Near((m + q) - (O + c), r) /\ Near((m + q) - (O + c) + c * V, r)
    <3>1. CASE w[k].gen = g.rebuilds
      <4>1. (m + q) - (O + c) = m - O /\ V = W /\ r = n
        BY <2>1, <2>3, <3>1
      <4> QED BY <2>4, <4>1
    <3>2. CASE w[k].gen # g.rebuilds
      <4>1. /\ q - c \in Int /\ -MaxQty <= q - c /\ q - c <= MaxQty
            /\ q \in Int /\ -MaxQty <= q /\ q <= MaxQty /\ c \in Int /\ MaxQty \in Nat
        BY <2>1
      <4>2. V = W + 1 /\ r = n + 1 /\ W \in Int /\ m \in Int /\ O \in Int /\ n \in Nat
        BY <2>1, <2>3, <3>2
      <4> DEFINE x == c * W
      <4>3. c * V = x + c /\ x \in Int
        BY <4>1, <4>2
      <4>4. Near(m - O, n) /\ Near(m - O + x, n)
        BY <2>4
      <4> HIDE DEF x
      <4>5. m - O \in Int /\ m - O + x \in Int
        BY <4>2, <4>3
      <4>6. Near((m - O) + (q - c), n + 1) /\ Near((m - O + x) + q, n + 1)
        BY <4>1, <4>2, <4>4, <4>5, NearMore
      <4>7. /\ (m - O) + (q - c) = (m + q) - (O + c)
            /\ (m - O + x) + q = (m + q) - (O + c) + c * V
        BY <4>1, <4>2, <4>3
      <4>8. Near((m + q) - (O + c), n + 1) /\ Near((m + q) - (O + c) + c * V, n + 1)
        BY <4>6, <4>7, Zenon
      <4> QED BY <4>2, <4>8, Zenon
    <3> QED BY <3>1, <3>2
  <2>6. m + q \in Int
    BY <2>1
  <2>7. h.cfg.qty = c /\ V = Spare(h, v)
    BY <1>4 DEF c, V
  <2>8. Balanced(h, v, m + q, r)
    <3>1. (m + q) - Offered(v) = (m + q) - (O + c)
      BY <2>2
    <3>2. h.cfg.qty * Spare(h, v) = c * V
      BY <2>7
    <3>3. Near((m + q) - Offered(v), r)
      BY <2>5, <3>1
    <3>4. Near((m + q) - Offered(v) + h.cfg.qty * Spare(h, v), r)
      BY <2>5, <3>1, <3>2
    <3> QED BY <3>3, <3>4 DEF Balanced
  <2> QED BY <2>1, <2>6, <2>8, Zenon DEF AccountOK
<1> HIDE DEF h, v
<1>12. BookOK(h, v)
  <2>1. v \in Seq(WorkingOrder)
    <3> HIDE DEF d, o
    <3> QED BY <1>2, <1>3 DEF v
  <2> QED BY <1>4, <1>7, <1>8, <1>9, <1>10, <2>1 DEF BookOK
<1> QED BY <1>11, <1>12 DEF h, v, o, d, i, q, r

(* An order of the grid that its level does not wait for is a spare one.      *)
LEMMA SpareFill ==
    ASSUME NEW g, NEW w, BookOK(g, w), NEW k \in DOMAIN w, w[k].gen = g.rebuilds,
           \/ w[k].order.id \notin InUse(g)
           \/ w[k].order.side # SideOf(g.levels[w[k].order.id].state)
    PROVE  Spare(g, w) \in Nat /\ Spare(g, w) >= 1
<1>1. g \in Grid /\ w \in Seq(WorkingOrder) /\ Backed(g, w) /\ k \in Current(g, w)
  BY DEF BookOK, Current
<1>2. \A i \in InUse(g) : w[k].order.id # i \/ w[k].order.side # SideOf(g.levels[i].state)
  OBVIOUS
<1> QED BY <1>1, <1>2, SpareOrder

(* Every other level keeps its backing and its mirror.                        *)
LEMMA DropKeeps ==
    ASSUME NEW g, NEW w, BookOK(g, w), NEW k \in DOMAIN w,
           NEW j \in InUse(g),
           w[k].order.id # j \/ w[k].order.side # SideOf(g.levels[j].state)
    PROVE  \E p \in Current(g, Drop(w, k)) :
              /\ Drop(w, k)[p].order.id = j
              /\ Drop(w, k)[p].order.side = SideOf(g.levels[j].state)
<1>1. g \in Grid /\ w \in Seq(WorkingOrder) /\ Backed(g, w)
  BY DEF BookOK
<1>2. PICK p \in Current(g, w) : w[p].order.id = j /\ w[p].order.side = SideOf(g.levels[j].state)
  BY <1>1 DEF Backed
<1>3. p # k
  BY <1>2
<1>4. \E a \in Current(g, Drop(w, k)) : Drop(w, k)[a] = w[p]
  BY <1>1, <1>2, <1>3, OrderStays
<1> QED BY <1>2, <1>4

(* Until the second rebuild each fill finds its level as the order left it.   *)
LEMMA FirstGridFill ==
    ASSUME NEW g, NEW w, NEW m, NEW n, BookOK(g, w), AccountOK(g, w, m, n), g.rebuilds <= 1,
           NEW k \in DOMAIN w
    PROVE  /\ w[k].order.id \in 1..Len(g.levels)
           /\ g.levels[w[k].order.id].state # "Idle"
           /\ SideOf(g.levels[w[k].order.id].state) = w[k].order.side
           /\ \A l \in DOMAIN w : l # k => w[l].order.id # w[k].order.id
<1>1. w[k].order.id \in 1..Len(g.levels)
  BY FillFacts
<1>2. MirroredAt(g.levels[w[k].order.id], w, w[k].order.id)
  BY <1>1 DEF BookOK, Mirrored
<1>3. g.levels[w[k].order.id].state # "Idle"
  BY <1>2 DEF MirroredAt
<1>4. PICK a \in DOMAIN w :
         /\ \A l \in DOMAIN w : w[l].order.id = w[k].order.id <=> l = a
         /\ w[a].order.side = SideOf(g.levels[w[k].order.id].state)
  BY <1>2, <1>3 DEF MirroredAt
<1>5. a = k
  BY <1>4
<1> QED BY <1>1, <1>3, <1>4, <1>5

(* What is held and offered, when the spare orders stand for one level less   *)
(* (e = 1), one more (e = -1) or the same: a fill of order k with quantity q  *)
(* moves what is held and not offered by x, which is 0 or q.                  *)
LEMMA FillBalance ==
    ASSUME NEW g, NEW w, NEW m, NEW n, BookOK(g, w), AccountOK(g, w, m, n), NEW k \in DOMAIN w,
           NEW O \in Int, NEW M \in Int, NEW V \in Int,
           \/ /\ M - O = m - Offered(w) + w[k].order.qty
              /\ IF w[k].gen = g.rebuilds THEN V = Spare(g, w) - 1 /\ Spare(g, w) >= 1
                 ELSE V = Spare(g, w)
           \/ /\ M - O = m - Offered(w)
              /\ IF w[k].gen = g.rebuilds
                 THEN V = Spare(g, w) \/ (V = Spare(g, w) - 1 /\ Spare(g, w) >= 1)
                 ELSE V = Spare(g, w) \/ V = Spare(g, w) + 1
    PROVE  LET r == LateAfter(g, w[k], n)
           IN  Near(M - O, r) /\ Near(M - O + g.cfg.qty * V, r)
<1> DEFINE q == w[k].order.qty
           c == g.cfg.qty
           r == LateAfter(g, w[k], n)
           W == Spare(g, w)
           y == m - Offered(w)
           z == M - O
           x == c * W
<1>1. /\ q \in 1..MaxQty /\ c \in 1..MaxQty /\ MaxQty \in Nat /\ n \in Nat /\ W \in Nat
      /\ y \in Int /\ z \in Int
      /\ (w[k].gen = g.rebuilds => q = c /\ r = n) /\ (w[k].gen # g.rebuilds => r = n + 1)
  BY FillFacts
<1>2. Near(y, n) /\ Near(y + x, n)
  BY DEF AccountOK, Balanced
<1>3. /\ x \in Int /\ x >= 0 /\ c * (W - 1) = x - c /\ c * (W + 1) = x + c
      /\ (W >= 1 => x >= c) /\ c \in Int /\ q \in Int /\ c > 0 /\ q > 0
      /\ c <= MaxQty /\ q <= MaxQty /\ 0 <= MaxQty
  <2> HIDE DEF c, q, W
  <2>1. c \in Nat /\ W \in Nat /\ c > 0
    BY <1>1
  <2>2. x \in Int /\ x >= 0 /\ c * (W - 1) = x - c /\ c * (W + 1) = x + c
    BY <2>1
  <2>3. W >= 1 => x >= c
    <3> SUFFICES ASSUME W >= 1 PROVE x >= c
      OBVIOUS
    <3> DEFINE t == W - 1
    <3>1. t \in Nat /\ W = t + 1
      BY <2>1
    <3> HIDE DEF t
    <3>2. c * W = c * t + c /\ c * t >= 0 /\ c * t \in Int
      BY <2>1, <3>1
    <3> QED BY <2>1, <3>2
  <2> QED BY <1>1, <2>1, <2>2, <2>3
<1>4. \/ /\ z = y + q
         /\ IF w[k].gen = g.rebuilds THEN V = W - 1 /\ W >= 1 ELSE V = W
      \/ /\ z = y
         /\ IF w[k].gen = g.rebuilds THEN V = W \/ (V = W - 1 /\ W >= 1)
            ELSE V = W \/ V = W + 1
  OBVIOUS
<1> HIDE DEF q, c, r, W, y, z, x
<1>5. CASE w[k].gen = g.rebuilds
  <2>1. q = c /\ r = n
    BY <1>1, <1>5
  <2>2. CASE z = y + q /\ V = W - 1 /\ W >= 1
    <3>1. c * V = x - c /\ x >= c
      BY <1>3, <2>2
    <3>2. y <= z /\ z <= y + x /\ z + c * V = y + x
      BY <1>1, <1>3, <2>1, <2>2, <3>1
    <3>3. Near(z, n)
      BY <1>1, <1>2, <1>3, <3>2, NearBetween
    <3> QED BY <1>2, <2>1, <3>2, <3>3 DEF r, z, c
  <2>3. CASE z = y /\ V = W
    <3>1. c * V = x
      BY <2>3 DEF x
    <3> QED BY <1>2, <2>1, <2>3, <3>1 DEF r, z, c
  <2>4. CASE z = y /\ V = W - 1 /\ W >= 1
    <3>1. c * V = x - c /\ x >= c
      BY <1>3, <2>4
    <3>2. y <= z + c * V /\ z + c * V <= y + x /\ z + c * V \in Int /\ y + x \in Int
      BY <1>1, <1>3, <2>4, <3>1
    <3>3. Near(z + c * V, n)
      <4> DEFINE u == z + c * V
                 s == y + x
      <4>1. Near(s, n) /\ u \in Int /\ s \in Int /\ y <= u /\ u <= s
        BY <1>2, <3>2
      <4> HIDE DEF u, s
      <4>2. Near(u, n)
        BY <1>1, <1>2, <4>1, NearBetween
      <4> QED BY <4>2 DEF u
    <3> QED BY <1>2, <2>1, <2>4, <3>3 DEF r, z, c
  <2> QED BY <1>4, <1>5, <2>2, <2>3, <2>4
<1>6. CASE w[k].gen # g.rebuilds
  <2>1. r = n + 1 /\ y \in Int /\ y + x \in Int /\ 0 \in Int /\ -MaxQty <= 0 /\ -MaxQty <= q /\ -MaxQty <= c
    BY <1>1, <1>3, <1>6
  <2>2. Near(y + 0, r) /\ Near(y + q, r)
    BY <1>1, <1>2, <1>3, <2>1, NearMore
  <2>3. Near((y + x) + 0, r) /\ Near((y + x) + q, r) /\ Near((y + x) + c, r)
    <3> DEFINE s == y + x
    <3>1. Near(s, n) /\ s \in Int
      BY <1>2, <2>1
    <3> HIDE DEF s
    <3>2. Near(s + 0, n + 1) /\ Near(s + q, n + 1) /\ Near(s + c, n + 1)
      BY <1>1, <1>3, <2>1, <3>1, NearMore
    <3> QED BY <2>1, <3>2 DEF s
  <2>4. CASE z = y + q /\ V = W
    <3>1. z + c * V = (y + x) + q
      BY <1>1, <1>3, <2>4 DEF x
    <3> QED BY <2>2, <2>3, <2>4, <3>1 DEF r, z, c
  <2>5. CASE z = y /\ V = W
    <3>1. z + c * V = (y + x) + 0 /\ z = y + 0
      BY <1>1, <1>3, <2>5 DEF x
    <3> QED BY <2>2, <2>3, <3>1 DEF r, z, c
  <2>6. CASE z = y /\ V = W + 1
    <3>1. z + c * V = (y + x) + c /\ z = y + 0
      BY <1>1, <1>3, <2>6
    <3> QED BY <2>2, <2>3, <3>1 DEF r, z, c
  <2> QED BY <1>4, <1>6, <2>4, <2>5, <2>6
<1> QED BY <1>5, <1>6

(* A buy that finds its level moved on, or gone: it is held without a sell.   *)
LEMMA BuyUnmatched ==
    ASSUME NEW g, NEW w, NEW m, NEW n, BookOK(g, w), AccountOK(g, w, m, n),
           NEW k \in DOMAIN w, w[k].order.side = "Buy",
           w[k].order.id \in 1..Len(g.levels) => g.levels[w[k].order.id].state # "BuyPlaced"
    PROVE  /\ BookOK(g, Drop(w, k))
           /\ AccountOK(g, Drop(w, k), m + w[k].order.qty, LateAfter(g, w[k], n))
<1> DEFINE i == w[k].order.id
           q == w[k].order.qty
           r == LateAfter(g, w[k], n)
           d == Drop(w, k)
<1>1. /\ g \in Grid /\ w \in Seq(WorkingOrder) /\ GridOK(g) /\ OrdersOK(g, w)
      /\ Backed(g, w) /\ EdgeClear(g)
  BY DEF BookOK
<1>2. d \in Seq(WorkingOrder)
  BY <1>1, DropEffect
<1>3. OrdersOK(g, d)
  BY <1>1, OrdersKeep
<1>4. \A j \in InUse(g) : i # j \/ w[k].order.side # SideOf(g.levels[j].state)
  BY DEF InUse, SideOf
<1>5. Backed(g, d)
  <2>1. \A j \in InUse(g) : \E p \in Current(g, d) :
           d[p].order.id = j /\ d[p].order.side = SideOf(g.levels[j].state)
    BY <1>4, DropKeeps
  <2> HIDE DEF d
  <2> QED BY <2>1 DEF Backed
<1>6. ~(g.rebuilds <= 1)
  BY FirstGridFill DEF SideOf
<1>7. BookOK(g, d)
  <2> HIDE DEF d
  <2> QED BY <1>1, <1>2, <1>3, <1>5, <1>6 DEF BookOK
<1>8. AccountOK(g, d, m + q, r)
  <2> DEFINE W == Spare(g, w)
             V == Spare(g, d)
             O == Offered(w)
             P == Offered(d)
  <2>1. /\ q \in Int /\ m \in Int /\ r \in Nat /\ O \in Int /\ W \in Nat
        /\ (r > 0 => g.rebuilds >= 2)
    BY FillFacts
  <2>2. P = O - 0
    BY <1>1, DropCounts
  <2>3. V = W - (IF w[k].gen = g.rebuilds THEN 1 ELSE 0)
    <3>1. Cardinality(Current(g, d)) =
            Cardinality(Current(g, w)) - (IF w[k].gen = g.rebuilds THEN 1 ELSE 0)
      BY <1>1, DropCounts
    <3>2. Cardinality(Current(g, w)) \in Nat /\ Cardinality(InUse(g)) \in Nat
      BY <1>1, Countable
    <3> HIDE DEF d
    <3> QED BY <3>1, <3>2 DEF Spare
  <2>4. w[k].gen = g.rebuilds => W >= 1
    BY <1>4, SpareFill DEF InUse
  <2> HIDE DEF W, V, O, P, q, d
  <2>5. /\ (m + q) - P = m - O + q /\ P \in Int /\ V \in Int
        /\ IF w[k].gen = g.rebuilds THEN V = W - 1 /\ W >= 1 ELSE V = W
    BY <2>1, <2>2, <2>3, <2>4
  <2>6. Near((m + q) - P, r) /\ Near((m + q) - P + g.cfg.qty * V, r)
    <3> DEFINE M == m + q
    <3>1. /\ M - P = m - O + q /\ M \in Int
          /\ IF w[k].gen = g.rebuilds THEN V = W - 1 /\ W >= 1 ELSE V = W
      BY <2>1, <2>5
    <3> HIDE DEF M
    <3>2. /\ M - P = m - Offered(w) + w[k].order.qty
          /\ IF w[k].gen = g.rebuilds THEN V = Spare(g, w) - 1 /\ Spare(g, w) >= 1
             ELSE V = Spare(g, w)
      BY <3>1 DEF O, W, q
    <3>3. Near(M - P, r) /\ Near(M - P + g.cfg.qty * V, r)
      BY <2>5, <3>1, <3>2, FillBalance
    <3> QED BY <3>3 DEF M
  <2>7. m + q \in Int
    BY <2>1
  <2> QED BY <2>1, <2>6, <2>7 DEF AccountOK, Balanced, P, V
<1> QED BY <1>7, <1>8

(* A sell: its level, if the grid has it, starts over.                        *)
LEMMA SellFilled ==
    ASSUME NEW g, NEW w, NEW m, NEW n, BookOK(g, w), AccountOK(g, w, m, n),
           NEW k \in DOMAIN w, w[k].order.side = "Sell"
    PROVE  LET h == OnSellFilled(g, w[k].order.id)
           IN  /\ BookOK(h, Drop(w, k))
               /\ AccountOK(h, Drop(w, k), m - w[k].order.qty, LateAfter(g, w[k], n))
<1> DEFINE i == w[k].order.id
           q == w[k].order.qty
           r == LateAfter(g, w[k], n)
           d == Drop(w, k)
           h == OnSellFilled(g, i)
<1>1. /\ g \in Grid /\ w \in Seq(WorkingOrder) /\ GridOK(g) /\ OrdersOK(g, w)
      /\ Backed(g, w) /\ EdgeClear(g)
  BY DEF BookOK
<1>2. d \in Seq(WorkingOrder) /\ \A p \in DOMAIN d : \E j \in DOMAIN w : j # k /\ d[p] = w[j]
  BY <1>1, DropEffect
<1>3. /\ h \in Grid /\ h.cfg = g.cfg /\ h.anchor = g.anchor /\ h.rebuilds = g.rebuilds
      /\ Len(h.levels) = Len(g.levels)
      /\ \A j \in 1..Len(g.levels) : j # i => h.levels[j] = g.levels[j]
      /\ i \in 1..Len(g.levels) => h.levels[i].state = "Idle"
      /\ GridOK(h) /\ EdgeClear(h) /\ OrdersOK(h, w)
  <2>1. CASE i \in 1..Len(g.levels)
    <3>1. h = SetState(g, i, "Idle") /\ "Idle" \in LevelStates /\ "Idle" # "BuyFilled"
      BY <2>1 DEF OnSellFilled, LevelStates
    <3> HIDE DEF h, i
    <3>2. GridOK(h) /\ EdgeClear(h)
      BY <1>1, <2>1, <3>1, GridKeeps
    <3>3. OrdersOK(h, w)
      BY <1>1, <2>1, <3>1, OrdersKeep
    <3> QED BY <1>1, <2>1, <3>1, <3>2, <3>3, SetStateEffect
  <2>2. CASE i \notin 1..Len(g.levels)
    <3>1. h = g
      BY <2>2 DEF OnSellFilled
    <3> HIDE DEF h, i
    <3> QED BY <1>1, <2>2, <3>1
  <2> QED BY <2>1, <2>2
<1>4. InUse(h) = InUse(g) \ {i}
  <2> HIDE DEF h, i
  <2> QED BY <1>3 DEF InUse
<1>5. Cardinality(InUse(h)) = Cardinality(InUse(g)) - (IF i \in InUse(g) THEN 1 ELSE 0)
      /\ Cardinality(InUse(g)) \in Nat /\ Cardinality(Current(g, w)) \in Nat
  <2>1. IsFiniteSet(InUse(g)) /\ Cardinality(InUse(g)) \in Nat /\ Cardinality(Current(g, w)) \in Nat
    BY <1>1, Countable
  <2> HIDE DEF h, i
  <2>2. CASE i \in InUse(g)
    <3>1. Cardinality(InUse(g) \ {i}) = Cardinality(InUse(g)) - 1
      BY <2>1, <2>2, FS_RemoveElement
    <3> QED BY <1>4, <2>1, <2>2, <3>1
  <2>3. CASE i \notin InUse(g)
    <3>1. InUse(h) = InUse(g)
      BY <1>4, <2>3
    <3> QED BY <2>1, <2>3, <3>1
  <2> QED BY <2>2, <2>3
<1>6. OrdersOK(h, d)
  <2> HIDE DEF h
  <2> QED BY <1>1, <1>3, OrdersKeep
<1>7. Backed(h, d)
  <2>1. \A j \in InUse(g) : j # i => \E p \in Current(g, d) :
           d[p].order.id = j /\ d[p].order.side = SideOf(g.levels[j].state)
    BY DropKeeps
  <2>2. InUse(g) \subseteq 1..Len(g.levels)
    BY DEF InUse
  <2> HIDE DEF h, d, i
  <2>3. Current(h, d) = Current(g, d)
    BY <1>3 DEF Current
  <2> QED BY <1>3, <1>4, <2>1, <2>2, <2>3 DEF Backed
<1>8. h.rebuilds <= 1 => Mirrored(h, d)
  <2> SUFFICES ASSUME h.rebuilds <= 1, NEW j \in 1..Len(g.levels)
               PROVE  MirroredAt(h.levels[j], d, j)
    BY <1>3 DEF Mirrored
  <2>1. g.rebuilds <= 1
    BY <1>3
  <2>2. CASE j = i
    <3>1. \A l \in DOMAIN w : l # k => w[l].order.id # i
      BY <2>1, FirstGridFill
    <3>2. \A p \in DOMAIN d : d[p].order.id # i
      BY <1>2, <3>1
    <3> HIDE DEF h, d, i
    <3> QED BY <1>3, <2>2, <3>2 DEF MirroredAt
  <2>3. CASE j # i
    <3>1. MirroredAt(g.levels[j], w, j)
      BY <2>1 DEF BookOK, Mirrored
    <3>2. MirroredAt(g.levels[j], d, j)
      BY <1>1, <2>3, <3>1, MirrorKeeps
    <3>3. h.levels[j] = g.levels[j]
      BY <1>3, <2>3
    <3> HIDE DEF h, d
    <3> QED BY <3>2, <3>3
  <2> QED BY <2>2, <2>3
<1>9. BookOK(h, d)
  <2> HIDE DEF h, d
  <2> QED BY <1>2, <1>3, <1>6, <1>7, <1>8 DEF BookOK
<1>10. AccountOK(h, d, m - q, r)
  <2> DEFINE W == Spare(g, w)
             V == Spare(h, d)
             O == Offered(w)
             P == Offered(d)
  <2>1. /\ q \in Int /\ m \in Int /\ r \in Nat /\ O \in Int /\ W \in Nat
        /\ (r > 0 => h.rebuilds >= 2)
    BY <1>3, FillFacts
  <2>2. P = O - q
    BY <1>1, DropCounts
  <2>3. V = W - (IF w[k].gen = g.rebuilds THEN 1 ELSE 0) + (IF i \in InUse(g) THEN 1 ELSE 0)
    <3>1. Cardinality(Current(g, d)) =
            Cardinality(Current(g, w)) - (IF w[k].gen = g.rebuilds THEN 1 ELSE 0)
      BY <1>1, DropCounts
    <3> HIDE DEF d, h, i
    <3>2. Current(h, d) = Current(g, d)
      BY <1>3 DEF Current
    <3> QED BY <1>5, <3>1, <3>2 DEF Spare
  <2>4. w[k].gen = g.rebuilds /\ i \notin InUse(g) => W >= 1
    BY SpareFill
  <2> HIDE DEF W, V, O, P, q, d, h, i
  <2>5. /\ (m - q) - P = m - O /\ P \in Int /\ V \in Int
        /\ IF w[k].gen = g.rebuilds THEN V = W \/ (V = W - 1 /\ W >= 1)
           ELSE V = W \/ V = W + 1
    BY <2>1, <2>2, <2>3, <2>4
  <2>6. m - q \in Int
    BY <2>1
  <2>7. Near((m - q) - P, r) /\ Near((m - q) - P + g.cfg.qty * V, r)
    <3> DEFINE M == m - q
    <3>1. /\ M - P = m - Offered(w) /\ M \in Int
          /\ IF w[k].gen = g.rebuilds
             THEN V = Spare(g, w) \/ (V = Spare(g, w) - 1 /\ Spare(g, w) >= 1)
             ELSE V = Spare(g, w) \/ V = Spare(g, w) + 1
      BY <2>5, <2>6 DEF O, W
    <3> HIDE DEF M
    <3>2. Near(M - P, r) /\ Near(M - P + g.cfg.qty * V, r)
      BY <2>5, <3>1, FillBalance
    <3> QED BY <3>2 DEF M
  <2> QED BY <1>3, <2>1, <2>6, <2>7 DEF AccountOK, Balanced, P, V
<1> HIDE DEF h, d
<1> QED BY <1>9, <1>10 DEF h, d

-----------------------------------------------------------------------------
(* The quantity offered in sells is a number.                                 *)
LEMMA OfferedType ==
    ASSUME NEW w \in Seq(WorkingOrder)
    PROVE  Offered(w) \in Int
<1>1. IsFiniteSet(1..Len(w))
  BY LenProperties, FS_Interval
<1>2. Offer(w) \in [1..Len(w) -> Int]
  <2>1. DOMAIN w = 1..Len(w) /\ \A k \in 1..Len(w) : w[k] \in WorkingOrder
    BY LenProperties
  <2> QED BY <2>1 DEF Offer, WorkingOrder, Intent
<1> QED BY <1>1, <1>2, SumFunctionType DEF Offered

(* Any start.                                                                 *)
LEMMA TradeInvInit == GridInit => TradeInv
<1> SUFFICES ASSUME GridInit PROVE TradeInv
  OBVIOUS
<1>1. PICK cfg \in StartConfigs : grid = EmptyGrid(Sanitize(cfg))
  BY DEF GridInit
<1>2. cfg \in GridConfig /\ grid \in Grid /\ MaxQty \in Nat /\ Sanitize(cfg).qty \in 1..MaxQty
  BY <1>1, ConfigsAssumption, EmptyGridType, QtyBound
<1>3. /\ grid.cfg = Sanitize(cfg) /\ grid.anchor = 0 /\ grid.rebuilds = 0 /\ grid.levels = <<>>
      /\ working = <<>> /\ held = 0 /\ lateFills = 0
  BY <1>1 DEF EmptyGrid, GridInit
<1>4. working \in Seq(WorkingOrder) /\ DOMAIN working = {} /\ Len(grid.levels) = 0
  BY <1>3
<1>5. InUse(grid) = {} /\ Current(grid, working) = {}
  BY <1>4 DEF InUse, Current
<1>6. BookOK(grid, working)
  BY <1>2, <1>3, <1>4, <1>5 DEF BookOK, GridOK, OrdersOK, Backed, EdgeClear, Mirrored
<1>7. AccountOK(grid, working, held, lateFills)
  <2>1. Offered(working) = 0
    <3>1. Offer(working) = [k \in {} |-> 0]
      BY <1>4 DEF Offer
    <3>2. Offer(working) \in [{} -> Int] /\ IsFiniteSet({})
      BY <3>1, FS_EmptySet
    <3> QED BY <3>2, SumFunctionType DEF Offered
  <2>2. Spare(grid, working) = 0
    BY <1>5, FS_EmptySet DEF Spare
  <2>3. Near(0, 0)
    BY <1>2 DEF Near
  <2>4. grid.cfg.qty \in Int
    BY <1>2, <1>3
  <2>5. held - Offered(working) = 0 /\ 0 + grid.cfg.qty * Spare(grid, working) = 0
    BY <1>3, <2>1, <2>2, <2>4
  <2> QED BY <1>3, <2>3, <2>5 DEF AccountOK, Balanced
<1> QED BY <1>6, <1>7 DEF TradeInv

(* A tick: the grid it is matched against is the grid or a new one, and then  *)
(* at most one level buys.                                                    *)
LEMMA TickKeeps ==
    ASSUME TradeInv, NEW price \in Ticks, Tick(price)
    PROVE  TradeInv'
<1> DEFINE out == OnPriceTick(grid, price)
<1>1. /\ grid' = out.grid /\ working' = working \o Stamp(out.intents, out.grid.rebuilds)
      /\ held' = held /\ lateFills' = lateFills
  BY DEF Tick
<1>2. price \in Nat /\ grid \in Grid /\ working \in Seq(WorkingOrder)
  BY TicksAssumption DEF TradeInv, BookOK
<1>3. ASSUME NEW h, out = Outcome(h, <<>>), BookOK(h, working), AccountOK(h, working, held, lateFills)
      PROVE  TradeInv'
  <2>1. grid' = h /\ working' = working \o Stamp(<<>>, h.rebuilds)
    BY <1>1, <1>3 DEF Outcome
  <2>2. Stamp(<<>>, h.rebuilds) = <<>>
    BY DEF Stamp
  <2>3. working' = working
    BY <1>2, <2>1, <2>2
  <2> QED BY <1>1, <1>3, <2>1, <2>3 DEF TradeInv
<1>4. CASE price = 0
  <2>1. out = Outcome(grid, <<>>)
    BY <1>4 DEF OnPriceTick
  <2> QED BY <1>3, <2>1 DEF TradeInv
<1>5. CASE price # 0
  <2> DEFINE h == Settle(grid, price)
  <2>1. price > 0
    BY <1>2, <1>5
  <2>2. /\ h.cfg = grid.cfg /\ Inside(h, price)
        /\ (h = grid /\ grid.anchor > 0) \/ Rebuilt(grid.rebuilds, h)
    BY <1>2, <2>1, SettleEffect
  <2>3. \/ out = Outcome(h, <<>>)
        \/ \E i \in 1..Len(h.levels) :
              /\ h.levels[i].state = "Idle" /\ price <= h.levels[i].buy
              /\ out = Outcome(SetState(h, i, "BuyPlaced"), <<BuyIntent(h, i)>>)
    BY <1>2, <2>1, TickEffect
  <2> HIDE DEF h, out
  <2>4. grid.cfg.qty \in 1..MaxQty
    BY DEF TradeInv, BookOK, GridOK
  <2>5. BookOK(h, working) /\ AccountOK(h, working, held, lateFills) /\ h.anchor > 0
    <3>1. CASE h = grid /\ grid.anchor > 0
      BY <3>1 DEF TradeInv
    <3>2. CASE Rebuilt(grid.rebuilds, h)
      <4>1. BookOK(grid, working) /\ AccountOK(grid, working, held, lateFills) /\ h.cfg.qty \in 1..MaxQty
        BY <2>2, <2>4 DEF TradeInv
      <4> QED BY <3>2, <4>1, RebuildKeeps DEF Rebuilt
    <3> QED BY <2>2, <3>1, <3>2
  <2>6. CASE out = Outcome(h, <<>>)
    BY <1>3, <2>5, <2>6
  <2>7. ASSUME NEW i \in 1..Len(h.levels), h.levels[i].state = "Idle", price <= h.levels[i].buy,
               out = Outcome(SetState(h, i, "BuyPlaced"), <<BuyIntent(h, i)>>)
        PROVE  TradeInv'
    <3>1. h \in Grid
      BY <2>5 DEF BookOK
    <3>2. SetState(h, i, "BuyPlaced").rebuilds = h.rebuilds
      BY <3>1, SetStateEffect DEF LevelStates
    <3>3. grid' = SetState(h, i, "BuyPlaced")
          /\ working' = working \o Stamp(<<BuyIntent(h, i)>>, h.rebuilds)
      BY <1>1, <2>7, <3>2 DEF Outcome
    <3>4. Stamp(<<BuyIntent(h, i)>>, h.rebuilds) = <<BuyOrder(h, i)>>
      BY DEF Stamp, BuyOrder
    <3>5. BuyOrder(h, i) \in WorkingOrder
      BY <3>1, OwnOrder
    <3>6. working' = Append(working, BuyOrder(h, i))
      <4> DEFINE o == BuyOrder(h, i)
      <4>1. working' = working \o <<o>> /\ o \in WorkingOrder
        BY <3>3, <3>4, <3>5
      <4> HIDE DEF o
      <4>2. working' = Append(working, o)
        BY <1>2, <4>1
      <4> QED BY <4>2 DEF o
    <3>7. h.cfg.dynamic => h.levels[i].buy * 1000 > h.anchor * (1000 - h.cfg.recenter)
      <4> SUFFICES ASSUME h.cfg.dynamic
                   PROVE  h.levels[i].buy * 1000 > h.anchor * (1000 - h.cfg.recenter)
        OBVIOUS
      <4> DEFINE b == h.levels[i].buy
                 x == h.anchor * (1000 - h.cfg.recenter)
      <4>1. h.levels[i] \in Level /\ h.anchor \in Int /\ h.cfg.recenter \in Int
        BY <3>1 DEF Grid, SaneConfig, GridConfig
      <4>2. b \in Int /\ x \in Int /\ price <= b /\ price * 1000 > x
        BY <2>2, <2>7, <4>1 DEF Level, Inside
      <4> HIDE DEF b, x
      <4>3. b * 1000 > x
        BY <1>2, <4>2
      <4> QED BY <4>3 DEF b, x
    <3>8. BookOK(grid', working') /\ AccountOK(grid', working', held, lateFills)
      BY <2>5, <2>7, <3>3, <3>6, <3>7, PlaceKeeps, ZenonT(60)
    <3> QED BY <1>1, <3>8 DEF TradeInv
  <2> QED BY <2>3, <2>6, <2>7
<1> QED BY <1>4, <1>5

(* A buy that fills keeps the invariant: its level offers what was bought, or *)
(* nothing does.                                                              *)
LEMMA BuyFillsKeeps ==
    ASSUME TradeInv, NEW k \in DOMAIN working, BuyFills(k)
    PROVE  TradeInv'
<1> DEFINE i == working[k].order.id
           q == working[k].order.qty
           d == Drop(working, k)
           out == OnBuyFilled(grid, i)
<1>1. /\ working[k].order.side = "Buy" /\ grid' = out.grid
      /\ working' = d \o Stamp(out.intents, grid.rebuilds)
      /\ held' = held + q /\ lateFills' = LateAfter(grid, working[k], lateFills)
  BY DEF BuyFills, CountLate, Generation, LateAfter
<1>2. /\ BookOK(grid, working) /\ AccountOK(grid, working, held, lateFills)
      /\ grid \in Grid /\ working \in Seq(WorkingOrder)
      /\ \A j \in 1..Len(grid.levels) : grid.levels[j].state # "BuyFilled"
  BY DEF TradeInv, BookOK, GridOK
<1>3. d \in Seq(WorkingOrder)
  BY <1>2, DropEffect
<1>4. CASE i \in 1..Len(grid.levels) /\ grid.levels[i].state = "BuyPlaced"
  <2>1. out = Outcome(SetState(grid, i, "SellPlaced"), <<SellIntent(grid, i)>>)
    BY <1>4 DEF OnBuyFilled
  <2> HIDE DEF out, d
  <2>2. Stamp(<<SellIntent(grid, i)>>, grid.rebuilds) = <<SellOrder(grid, i)>>
    BY DEF Stamp, SellOrder
  <2>3. SellOrder(grid, i) \in WorkingOrder
    BY <1>2, <1>4, OwnOrder
  <2>4. grid' = SetState(grid, i, "SellPlaced") /\ working' = Append(d, SellOrder(grid, i))
    <3> DEFINE o == SellOrder(grid, i)
    <3>1. working' = d \o <<o>> /\ o \in WorkingOrder
      BY <1>1, <2>1, <2>2, <2>3 DEF Outcome
    <3>2. grid' = SetState(grid, i, "SellPlaced")
      BY <1>1, <2>1 DEF Outcome
    <3> HIDE DEF o, i
    <3>3. working' = Append(d, o)
      BY <1>3, <3>1
    <3> QED BY <3>2, <3>3 DEF o
  <2>5. BookOK(grid', working') /\ AccountOK(grid', working', held', lateFills')
    BY <1>1, <1>2, <1>4, <2>4, BuyMatched DEF d
  <2> QED BY <2>5 DEF TradeInv
<1>5. CASE ~(i \in 1..Len(grid.levels) /\ grid.levels[i].state = "BuyPlaced")
  <2>1. out = Outcome(grid, <<>>)
    BY <1>2, <1>5 DEF OnBuyFilled
  <2>2. Stamp(<<>>, grid.rebuilds) = <<>>
    BY DEF Stamp
  <2> HIDE DEF out, d
  <2>3. grid' = grid /\ working' = d
    BY <1>1, <1>3, <2>1, <2>2 DEF Outcome
  <2>4. BookOK(grid, d) /\ AccountOK(grid, d, held', lateFills')
    BY <1>1, <1>2, <1>5, BuyUnmatched DEF d
  <2> QED BY <2>3, <2>4 DEF TradeInv
<1> QED BY <1>4, <1>5

(* A sell that fills keeps it: what was offered is no longer held.            *)
LEMMA SellFillsKeeps ==
    ASSUME TradeInv, NEW k \in DOMAIN working, SellFills(k)
    PROVE  TradeInv'
<1>1. /\ working[k].order.side = "Sell" /\ grid' = OnSellFilled(grid, working[k].order.id)
      /\ working' = Drop(working, k) /\ held' = held - working[k].order.qty
      /\ lateFills' = LateAfter(grid, working[k], lateFills)
  BY DEF SellFills, CountLate, Generation, LateAfter
<1>2. BookOK(grid, working) /\ AccountOK(grid, working, held, lateFills)
  BY DEF TradeInv
<1>3. BookOK(grid', working') /\ AccountOK(grid', working', held', lateFills')
  BY <1>1, <1>2, SellFilled
<1> QED BY <1>3 DEF TradeInv

(* A new configuration rebuilds the grid around its anchor, or, before the    *)
(* first tick, replaces the one an empty grid has.                            *)
LEMMA ConfigureKeeps ==
    ASSUME TradeInv, NEW cfg \in ApiConfigs, Configure(cfg)
    PROVE  TradeInv'
<1> DEFINE next == [grid EXCEPT !.cfg = Sanitize(cfg)]
<1>1. /\ grid' = UpdateConfig(grid, cfg)
      /\ working' = working /\ held' = held /\ lateFills' = lateFills
  BY DEF Configure
<1>2. /\ BookOK(grid, working) /\ AccountOK(grid, working, held, lateFills)
      /\ grid \in Grid /\ grid.anchor \in Nat /\ GridOK(grid)
  BY DEF TradeInv, BookOK, GridOK
<1>3. Sanitize(cfg) \in SaneConfig /\ MaxQty \in Nat /\ Sanitize(cfg).qty \in 1..MaxQty
  BY ConfigsAssumption, SanitizeType, QtyBound
<1>4. /\ next \in Grid /\ next.cfg = Sanitize(cfg) /\ next.anchor = grid.anchor
      /\ next.rebuilds = grid.rebuilds /\ next.levels = grid.levels
  BY <1>2, <1>3 DEF Grid
<1>5. grid' = IF grid.anchor > 0 THEN Rebuild(next, grid.anchor) ELSE next
  BY <1>1 DEF UpdateConfig
<1> HIDE DEF next
<1>6. CASE grid.anchor > 0
  <2>1. Rebuilt(grid.rebuilds, grid') /\ grid'.cfg = Sanitize(cfg)
    BY <1>2, <1>4, <1>5, <1>6, RebuildEffect
  <2>2. BookOK(grid', working) /\ AccountOK(grid', working, held, lateFills)
    BY <1>2, <1>3, <2>1, RebuildKeeps
  <2> QED BY <1>1, <2>2 DEF TradeInv
<1>7. CASE ~(grid.anchor > 0)
  <2>1. grid.anchor = 0 /\ grid.rebuilds = 0 /\ grid.levels = <<>> /\ grid' = next
    BY <1>2, <1>5, <1>7 DEF GridOK
  <2>2. working \in Seq(WorkingOrder) /\ \A k \in DOMAIN working : FALSE
    BY <1>2, <2>1 DEF BookOK, OrdersOK
  <2>3. InUse(next) = {} /\ InUse(grid) = {}
    BY <1>4, <2>1 DEF InUse
  <2>4. Current(next, working) = {} /\ Current(grid, working) = {}
    BY <2>2 DEF Current
  <2>5. BookOK(next, working)
    <3>1. GridOK(next)
      BY <1>2, <1>3, <1>4 DEF GridOK
    <3>2. OrdersOK(next, working)
      BY <2>2 DEF OrdersOK
    <3>3. Backed(next, working) /\ EdgeClear(next)
      BY <2>3 DEF Backed, EdgeClear
    <3>4. Mirrored(next, working)
      BY <1>4, <2>1 DEF Mirrored
    <3> QED BY <1>4, <2>2, <3>1, <3>2, <3>3, <3>4 DEF BookOK
  <2>6. AccountOK(next, working, held, lateFills)
    <3>1. Spare(next, working) = 0 /\ Spare(grid, working) = 0
      BY <2>3, <2>4, FS_EmptySet DEF Spare
    <3>2. next.cfg.qty * Spare(next, working) = 0 /\ grid.cfg.qty * Spare(grid, working) = 0
      <4>1. next.cfg.qty \in Int /\ grid.cfg.qty \in Int
        BY <1>2, <1>3, <1>4 DEF GridOK
      <4> QED BY <3>1, <4>1
    <3> QED BY <1>2, <1>4, <3>2 DEF AccountOK, Balanced
  <2> QED BY <1>1, <2>1, <2>5, <2>6 DEF TradeInv
<1> QED BY <1>6, <1>7

(* Every step of grid and market keeps it.                                    *)
LEMMA TradeInvNext == TradeInv /\ [GridNext]_gridVars => TradeInv'
<1> SUFFICES ASSUME TradeInv, [GridNext]_gridVars PROVE TradeInv'
  OBVIOUS
<1>1. CASE \E price \in Ticks : Tick(price)
  BY <1>1, TickKeeps
<1>2. CASE \E k \in DOMAIN working : BuyFills(k) \/ SellFills(k)
  BY <1>2, BuyFillsKeeps, SellFillsKeeps
<1>3. CASE \E cfg \in ApiConfigs : Configure(cfg)
  BY <1>3, ConfigureKeeps
<1>4. CASE UNCHANGED gridVars
  BY <1>4 DEF gridVars, TradeInv
<1> QED BY <1>1, <1>2, <1>3, <1>4 DEF GridNext

(* What is offered is what the working sells are for.                         *)
LEMMA OfferedIsQty == Offered(working) = QtyOf("Sell")
BY DEF Offered, Offer, QtyOf

(* Until the grid is first rebuilt, its levels are the market's orders and    *)
(* every contract held is offered once.                                       *)
LEMMA MirrorFromInv == TradeInv => LevelsMirrorMarket
<1> SUFFICES ASSUME TradeInv, grid.rebuilds <= 1
             PROVE  /\ \A id \in 1..Len(grid.levels) :
                          LET level == grid.levels[id]
                              side == IF level.state = "BuyPlaced" THEN "Buy" ELSE "Sell"
                          IN  IF level.state = "Idle" THEN OrdersAt(id) = {}
                              ELSE \E k \in DOMAIN working :
                                      /\ OrdersAt(id) = {k}
                                      /\ working[k].order.side = side
                                      /\ working[k].order.price =
                                           (IF side = "Buy" THEN level.buy ELSE level.sell)
                    /\ held = QtyOf("Sell")
  BY DEF LevelsMirrorMarket
<1>1. ASSUME NEW id \in 1..Len(grid.levels), grid.levels[id].state = "Idle"
      PROVE  OrdersAt(id) = {}
  BY <1>1 DEF TradeInv, BookOK, Mirrored, MirroredAt, OrdersAt
<1>2. ASSUME NEW id \in 1..Len(grid.levels), grid.levels[id].state # "Idle"
      PROVE  LET level == grid.levels[id]
                 side == IF level.state = "BuyPlaced" THEN "Buy" ELSE "Sell"
             IN  \E k \in DOMAIN working :
                    /\ OrdersAt(id) = {k}
                    /\ working[k].order.side = side
                    /\ working[k].order.price =
                         (IF side = "Buy" THEN level.buy ELSE level.sell)
  <2>1. MirroredAt(grid.levels[id], working, id)
    BY DEF TradeInv, BookOK, Mirrored
  <2>2. PICK k \in DOMAIN working :
           /\ \A j \in DOMAIN working : working[j].order.id = id <=> j = k
           /\ working[k].order.side = SideOf(grid.levels[id].state)
           /\ working[k].order.price =
                IF grid.levels[id].state = "BuyPlaced" THEN grid.levels[id].buy
                ELSE grid.levels[id].sell
    BY <1>2, <2>1 DEF MirroredAt
  <2>3. OrdersAt(id) = {k}
    BY <2>2 DEF OrdersAt
  <2> QED BY <2>2, <2>3 DEF SideOf
<1>3. held = QtyOf("Sell")
  <2>1. /\ held \in Int /\ MaxQty \in Nat /\ lateFills = 0
        /\ Near(held - Offered(working), lateFills)
    BY DEF TradeInv, AccountOK, Balanced, BookOK, GridOK, Grid
  <2>2. Offered(working) \in Int
    <3>1. working \in Seq(WorkingOrder)
      BY DEF TradeInv, BookOK
    <3> QED BY <3>1, OfferedType
  <2> DEFINE O == Offered(working)
  <2>3. O \in Int /\ held - O <= 0 /\ 0 <= held - O
    BY <2>1, <2>2 DEF Near
  <2> HIDE DEF O
  <2>4. held = O
    BY <2>1, <2>3
  <2> QED BY <2>4, OfferedIsQty DEF O
<1> QED BY <1>1, <1>2, <1>3

(* LevelsMirrorMarket (on_price_tick, on_buy_filled, on_sell_filled): for any *)
(* configurations, prices, and order of fills, a grid that was never rebuilt  *)
(* has at each level exactly the order that level waits for.                  *)
THEOREM FirstGridMirrored == GridSpec => []LevelsMirrorMarket
<1>1. TradeInv => LevelsMirrorMarket
  BY MirrorFromInv
<1> QED BY <1>1, TradeInvInit, TradeInvNext, PTL DEF GridSpec

(* EdgeNeverBought (on_price_tick rebuilds before it matches): whatever the   *)
(* threshold, band and number of levels, a dynamic grid never buys at or      *)
(* below the recentering edge under its anchor.                               *)
THEOREM EdgeSpared == GridSpec => []EdgeNeverBought
<1>1. TradeInv => EdgeNeverBought
  BY DEF TradeInv, BookOK, EdgeClear, EdgeNeverBought, InUse
<1> QED BY <1>1, TradeInvInit, TradeInvNext, PTL DEF GridSpec

(* ExitsMatchHoldings (on_buy_filled, on_sell_filled, update_config): for any *)
(* number of rebuilds, what is held and what is offered differ by at most the *)
(* largest order for each fill that came after its grid was gone.             *)
THEOREM ExitsCovered == GridSpec => []ExitsMatchHoldings
<1>1. TradeInv => ExitsMatchHoldings
  <2> SUFFICES ASSUME TradeInv PROVE ExitsMatchHoldings
    OBVIOUS
  <2>1. /\ held \in Int /\ lateFills \in Nat /\ MaxQty \in Nat /\ working \in Seq(WorkingOrder)
        /\ Near(held - Offered(working), lateFills)
    BY DEF TradeInv, AccountOK, Balanced, BookOK, GridOK
  <2>2. Offered(working) \in Int
    BY <2>1, OfferedType
  <2> DEFINE x == held - Offered(working)
             p == MaxQty * lateFills
  <2>3. x \in Int /\ p \in Int /\ -p <= x /\ x <= p
    BY <2>1, <2>2 DEF Near
  <2> HIDE DEF x, p
  <2>4. x \in -p .. p
    BY <2>3
  <2> QED BY <2>4, OfferedIsQty DEF x, p, ExitsMatchHoldings
<1> QED BY <1>1, TradeInvInit, TradeInvNext, PTL DEF GridSpec
=============================================================================
