----------------------------- MODULE TickEngine -----------------------------
(* The market threads and the control thread around the strategy: the tick    *)
(* handler of runtime_loop.cpp, which the WebSocket and the REST thread both  *)
(* run, and the handlers of control_api_router.cpp that share the grid, its   *)
(* mutex and the events list with it.                                         *)
(*                                                                            *)
(* A step is what a thread does between two accesses to shared state that     *)
(* this module has. TradingCore::on_tick, which the handler calls first, is   *)
(* in TradingCore, where prices come in any order; the counters of /health    *)
(* are in Health, the saved state of the enable handler is in RuntimeState.   *)
EXTENDS LongGrid, SequencesExt

CONSTANTS
    Feeds,          \* the market threads
    Control,        \* the control thread
    Prices,         \* the prices of ticks
    Config,         \* the grid's configuration at start
    NextConfig,     \* the configuration the client may post
    MaxEvents       \* kMaxEvents: most entries the events list keeps

Threads == Feeds \union {Control}
Free == "free"      \* the holder of a mutex nobody holds

ASSUME ThreadsAssumption == IsFiniteSet(Feeds) /\ Control \notin Feeds /\ Free \notin Threads
ASSUME PricesAssumption == Prices \subseteq Nat \ {0}
ASSUME ConfigAssumption == Config \in GridConfig /\ NextConfig \in GridConfig
ASSUME EventsAssumption == MaxEvents \in Nat \ {0}

VARIABLES
    pc,             \* what each thread does next
    seen,           \* the price each market thread handles, 0 for none
    todo,           \* entries a thread has yet to add to the events list
    job,            \* what the control thread is asked, "none" between requests
    enabled,        \* strategy_enabled
    grid_mu,        \* who holds the grid's mutex
    state_mu,       \* who holds the mutex of orders and events
    events,         \* the events list
    matched,        \* entries for every intent the grid has produced (history)
    off,            \* a reply said the strategy is disabled, and it still is
    late            \* intents produced since that reply

engineVars == <<pc, seen, todo, job, grid, enabled, grid_mu, state_mu,
                events, matched, off, late>>

Jobs == {"enable", "disable", "configure", "view"}

\* an entry of the events list: what happened, and to which grid level
Note(kind, id) == [kind |-> kind, id |-> id]

Notes(intents) == [k \in DOMAIN intents |-> Note("intent", intents[k].id)]

Go(t, step) == pc' = [pc EXCEPT ![t] = step]

\* Mutants: the events list grows without end; it drops the newest entry.
Uncapped(entries) == entries

CappedKeepingOld(entries) == IF Len(entries) > MaxEvents THEN Front(entries) ELSE entries

\* push_event keeps the latest entries.
Capped(entries) == IF Len(entries) > MaxEvents THEN Tail(entries) ELSE entries

----------------------------------------------------------------------------
EngineInit ==
    /\ pc = [t \in Threads |-> "idle"]
    /\ seen = [f \in Feeds |-> 0]
    /\ todo = [t \in Threads |-> <<>>]
    /\ job = "none"
    /\ grid = EmptyGrid(Sanitize(Config))
    /\ enabled \in BOOLEAN
    /\ grid_mu = Free /\ state_mu = Free
    /\ events = <<>> /\ matched = <<>>
    /\ off = FALSE /\ late = 0

\* A trade message or a poll's answer is at hand; the core has taken its price.
Receive(f, price) ==
    /\ pc[f] = "idle"
    /\ seen' = [seen EXCEPT ![f] = price]
    /\ Go(f, "check")
    /\ UNCHANGED <<todo, job, grid, enabled, grid_mu, state_mu, events, matched, off, late>>

\* Mutants: the flag is not read; a disabled handler waits for the flag.
IgnoreEnabled(f) ==
    /\ pc[f] = "check"
    /\ Go(f, "lockGrid")
    /\ UNCHANGED <<seen, todo, job, grid, enabled, grid_mu, state_mu,
                   events, matched, off, late>>

AwaitEnabled(f) ==
    /\ pc[f] = "check" /\ enabled
    /\ Go(f, "lockGrid")
    /\ UNCHANGED <<seen, todo, job, grid, enabled, grid_mu, state_mu,
                   events, matched, off, late>>

\* The flag is read before the mutex is taken and not again.
CheckEnabled(f) ==
    /\ pc[f] = "check"
    /\ Go(f, IF enabled THEN "lockGrid" ELSE "idle")
    /\ seen' = IF enabled THEN seen ELSE [seen EXCEPT ![f] = 0]
    /\ UNCHANGED <<todo, job, grid, enabled, grid_mu, state_mu,
                   events, matched, off, late>>

LockGrid(t) ==
    /\ pc[t] = "lockGrid" /\ grid_mu = Free
    /\ grid_mu' = t
    /\ Go(t, "useGrid")
    /\ UNCHANGED <<seen, todo, job, grid, enabled, state_mu,
                   events, matched, off, late>>

\* on_price_tick under the mutex; late counts what a disabled grid still says.
Match(f) ==
    /\ pc[f] = "useGrid"
    /\ \E out \in {OnPriceTick(grid, seen[f])} :
          /\ grid' = out.grid
          /\ todo' = [todo EXCEPT ![f] = Notes(out.intents)]
          /\ matched' = matched \o Notes(out.intents)
          /\ late' = IF off THEN late + Len(out.intents) ELSE late
          /\ Go(f, IF out.intents = <<>> THEN "unlockGrid" ELSE "lockState")
    /\ UNCHANGED <<seen, job, enabled, grid_mu, state_mu, events, off>>

LockState(t) ==
    /\ pc[t] = "lockState" /\ state_mu = Free
    /\ state_mu' = t
    /\ Go(t, "push")
    /\ UNCHANGED <<seen, todo, job, grid, enabled, grid_mu,
                   events, matched, off, late>>

\* push_event. A handler that holds the grid's mutex keeps holding it.
Push(t) ==
    /\ pc[t] = "push"
    /\ events' = Capped(Append(events, Head(todo[t])))
    /\ todo' = [todo EXCEPT ![t] = Tail(@)]
    /\ state_mu' = Free
    /\ Go(t, IF grid_mu = t THEN "unlockGrid" ELSE "reply")
    /\ UNCHANGED <<seen, job, grid, enabled, grid_mu, matched, off, late>>

UnlockGrid(t) ==
    /\ pc[t] = "unlockGrid"
    /\ grid_mu' = Free
    /\ Go(t, IF t = Control THEN "reply" ELSE "idle")
    /\ seen' = IF t = Control THEN seen ELSE [seen EXCEPT ![t] = 0]
    /\ UNCHANGED <<todo, job, grid, enabled, state_mu,
                   events, matched, off, late>>

\* A request arrives at the control thread: the enable handler stores the flag
\* and records a note, the two others start with the grid's mutex.
Request(j) ==
    /\ pc[Control] = "idle"
    /\ j = "configure" => grid.rebuilds < MaxRebuilds
    /\ job' = j
    /\ enabled' = IF j = "enable" THEN TRUE ELSE IF j = "disable" THEN FALSE ELSE enabled
    /\ off' = (off /\ j # "enable")
    /\ late' = IF j = "enable" THEN 0 ELSE late
    /\ IF j \in {"enable", "disable"}
       THEN todo' = [todo EXCEPT ![Control] = <<Note(j, 0)>>] /\ Go(Control, "lockState")
       ELSE UNCHANGED todo /\ Go(Control, "lockGrid")
    /\ UNCHANGED <<seen, grid, grid_mu, state_mu, events, matched>>

\* What the grid/config and grid/runtime handlers do with the grid.
UseGrid ==
    /\ pc[Control] = "useGrid"
    /\ IF job = "configure"
       THEN /\ grid' = UpdateConfig(grid, NextConfig)
            /\ todo' = [todo EXCEPT ![Control] = <<Note(job, 0)>>]
            /\ Go(Control, "lockState")
       ELSE UNCHANGED <<grid, todo>> /\ Go(Control, "unlockGrid")
    /\ UNCHANGED <<seen, job, enabled, grid_mu, state_mu,
                   events, matched, off, late>>

Reply ==
    /\ pc[Control] = "reply"
    /\ off' = (off \/ job = "disable")
    /\ job' = "none"
    /\ Go(Control, "idle")
    /\ UNCHANGED <<seen, todo, grid, enabled, grid_mu, state_mu,
                   events, matched, late>>

Handle(f) == CheckEnabled(f) \/ LockGrid(f) \/ Match(f) \/ LockState(f)
             \/ Push(f) \/ UnlockGrid(f)

Serve == LockGrid(Control) \/ UseGrid \/ LockState(Control) \/ Push(Control)
         \/ UnlockGrid(Control) \/ Reply

EngineNext ==
    \/ \E f \in Feeds, price \in Prices : Receive(f, price)
    \/ \E f \in Feeds : Handle(f)
    \/ \E j \in Jobs : Request(j)
    \/ Serve

\* A thread that can run does, and one waiting for a mutex that keeps being released gets it
\* in the end: its only step then is to take it. Ticks and requests may stop coming at any time.
EngineFairness == SF_engineVars(Serve) /\ \A f \in Feeds : SF_engineVars(Handle(f))

EngineSafety == EngineInit /\ [][EngineNext]_engineVars

EngineSpec == EngineSafety /\ EngineFairness

----------------------------------------------------------------------------
Steps == {"idle", "check", "lockGrid", "useGrid", "lockState", "push",
          "unlockGrid", "reply"}

NoteSeq == Seq([kind: {"intent"} \union Jobs, id: Nat])

(* Every variable keeps its type; a thread holds a mutex exactly at the steps *)
(* that need it, so the grid and the lists are used by one thread at a time.  *)
EngineTypeOK ==
    /\ pc \in [Threads -> Steps]
    /\ seen \in [Feeds -> Prices \union {0}]
    /\ job \in Jobs \union {"none"} /\ enabled \in BOOLEAN /\ off \in BOOLEAN /\ late \in Nat
    /\ events \in NoteSeq /\ Len(events) <= MaxEvents
    /\ \A t \in Threads :
          /\ pc[t] \in {"useGrid", "unlockGrid"} => grid_mu = t
          /\ pc[t] \in {"idle", "check", "lockGrid", "reply"} => grid_mu # t
          /\ (pc[t] = "push") <=> (state_mu = t)

(* After the reply to a disable, and until the next enable, the strategy can  *)
(* still produce intents, for the flag is read before the mutex is taken; but *)
(* never more than one for each market thread that was past the check.        *)
LateIntents == late <= Cardinality(Feeds)

\* The entries of a list that tell of an intent.
IntentsOf(entries) ==
    LET kept[n \in 0..Len(entries)] ==
            IF n = 0 THEN <<>>
            ELSE IF entries[n].kind = "intent" THEN Append(kept[n - 1], entries[n])
            ELSE kept[n - 1]
    IN  kept[Len(entries)]

Recorded == IntentsOf(events)

Pending ==
    IF \E f \in Feeds : todo[f] # <<>>
    THEN todo[CHOOSE f \in Feeds : todo[f] # <<>>] ELSE <<>>

(* The events list tells the intents in the order the grid produced them,     *)
(* the latest ones, and all of them while the list has not been full: two     *)
(* market threads and the client's notes never reorder or lose an intent.     *)
IntentsInOrder ==
    /\ IsSuffix(Recorded \o Pending, matched)
    /\ Len(events) < MaxEvents => Recorded \o Pending = matched

(* A tick's handler always finishes and a request the control thread has      *)
(* taken is answered: neither the client nor the two feeds hold each other up *)
(* for ever, however many of them compete for the two mutexes.                *)
HandlersFinish == \A t \in Threads : pc[t] # "idle" ~> pc[t] = "idle"
=============================================================================
