---------------------------- MODULE RuntimeState ----------------------------
(* The runtime state that outlives the process: the risk limits and the       *)
(* strategy flag, held twice in memory and saved to runtime_state_path by the *)
(* risk and the enable handler (save_runtime_state), read back at start       *)
(* (load_runtime_state). The limits in force are TradingCore's copy.          *)
(*                                                                            *)
(* Saving truncates the file, then writes it; either may fail, a failed write *)
(* leaves a prefix, and the handlers ignore the result. The process may die   *)
(* between any two steps.                                                     *)
EXTENDS Integers, FiniteSets

CONSTANTS
    StartRisk,      \* risk limits of config/engine.yaml
    StartEnabled,   \* runtime.strategy_start_enabled
    RiskRequests,   \* bodies of POST /risk/config
    MaxRequests,    \* bound on the number of requests
    MaxRestarts     \* bound on the number of restarts

\* max_single_order_notional_usd in dollars, the ratios in units of 10^-9
RiskConfig == [maxNotional: Int, ratio: Int, stop: Int]
One == 1000000000

InRange(r) == r.maxNotional > 0 /\ r.ratio \in 1..One /\ r.stop \in 1..One

\* Bound: the limit in dollars that the client's form allows, up to which Printed is exact.
MostDollars == 1000000000

\* A request gives each limit or leaves it out.
RiskRequest == [maxNotional: SUBSET Int, ratio: SUBSET Int, stop: SUBSET Int]

ASSUME StartAssumption ==
    /\ StartRisk \in RiskConfig /\ InRange(StartRisk) /\ StartRisk.maxNotional <= MostDollars
    /\ StartEnabled \in BOOLEAN
ASSUME RequestsAssumption ==
    /\ RiskRequests \subseteq RiskRequest
    /\ \A req \in RiskRequests : \A field \in DOMAIN req :
          IsFiniteSet(req[field]) /\ Cardinality(req[field]) <= 1
    /\ \A req \in RiskRequests : \A n \in req.maxNotional : n <= MostDollars
ASSUME BoundsAssumption == MaxRequests \in Nat /\ MaxRestarts \in Nat

VARIABLES
    pc,             \* the control thread: idle, open, write, reply
    ctx_risk,       \* ctx.risk_cfg: what the handlers read, report and save
    core_risk,      \* RiskEngine::cfg_: what orders are checked against
    enabled,        \* strategy_enabled
    file,           \* the state file
    requests,       \* requests taken so far
    restarts,       \* restarts so far
    saved,          \* the last save wrote everything (history)
    known           \* limits that have been in force (history)

stateVars == <<pc, ctx_risk, core_risk, enabled, file, requests, restarts,
               saved, known>>

\* The file: whether it is there, the fields it holds, how many of the four
\* (enabled, maxNotional, ratio, stop) are complete, and whether it breaks off
\* inside the first.
File == [exists: BOOLEAN, enabled: BOOLEAN, risk: RiskConfig, fields: 0..4, broken: BOOLEAN]

----------------------------------------------------------------------------
\* The number a limit, in its unit, reads back as: it is printed with six significant digits.
Printed(n) ==
    IF n < 1000000 THEN n
    ELSE IF n < 10000000 THEN ((n + 5) \div 10) * 10
    ELSE IF n < 100000000 THEN ((n + 50) \div 100) * 100
    ELSE ((n + 500) \div 1000) * 1000

\* A field that is cut short is not read; a flag cut short reads as false.
LoadedEnabled ==
    IF ~file.exists THEN StartEnabled
    ELSE IF file.fields >= 1 THEN file.enabled
    ELSE IF file.broken THEN FALSE
    ELSE StartEnabled

\* Mutant: a limit that is not in the file reads as 0.
LoadedOrZero ==
    [maxNotional |-> IF file.exists THEN IF file.fields >= 2 THEN Printed(file.risk.maxNotional)
                                         ELSE 0
                     ELSE StartRisk.maxNotional,
     ratio |-> IF file.exists THEN IF file.fields >= 3 THEN Printed(file.risk.ratio) ELSE 0
               ELSE StartRisk.ratio,
     stop |-> IF file.exists THEN IF file.fields >= 4 THEN Printed(file.risk.stop) ELSE 0
              ELSE StartRisk.stop]

LoadedRisk ==
    [maxNotional |-> IF file.exists /\ file.fields >= 2 THEN Printed(file.risk.maxNotional)
                     ELSE StartRisk.maxNotional,
     ratio |-> IF file.exists /\ file.fields >= 3 THEN Printed(file.risk.ratio)
               ELSE StartRisk.ratio,
     stop |-> IF file.exists /\ file.fields >= 4 THEN Printed(file.risk.stop)
              ELSE StartRisk.stop]

Given(value, default) == IF value = {} THEN default ELSE CHOOSE v \in value : TRUE

Overlay(r, req) ==
    [maxNotional |-> Given(req.maxNotional, r.maxNotional),
     ratio |-> Given(req.ratio, r.ratio),
     stop |-> Given(req.stop, r.stop)]

\* Mutant: the upper bounds are not checked.
AcceptsPositive(r) == r.maxNotional > 0 /\ r.ratio > 0 /\ r.stop > 0

\* What the risk handler lets through.
Accepts(r) ==
    /\ r.maxNotional > 0
    /\ r.ratio > 0 /\ r.ratio <= One
    /\ r.stop > 0 /\ r.stop <= One

\* Mutant: TradingCore is built before the saved state is read.
CoreFromConfig == StartRisk

\* The limits main builds TradingCore with.
CoreAtStart == LoadedRisk

\* Mutant: the limits of the configuration are saved.
ImageOfConfig == [exists |-> TRUE, enabled |-> enabled, risk |-> StartRisk,
                  fields |-> 0, broken |-> FALSE]

\* The file a save begins: opened and truncated, with this to be written.
Image == [exists |-> TRUE, enabled |-> enabled, risk |-> ctx_risk,
          fields |-> 0, broken |-> FALSE]

----------------------------------------------------------------------------
StateInit ==
    /\ pc = "idle"
    /\ ctx_risk = StartRisk /\ core_risk = StartRisk /\ enabled = StartEnabled
    /\ file = [exists |-> FALSE, enabled |-> FALSE, risk |-> StartRisk,
               fields |-> 0, broken |-> FALSE]
    /\ requests = 0 /\ restarts = 0
    /\ saved = FALSE /\ known = {StartRisk}

Take == pc = "idle" /\ requests < MaxRequests /\ requests' = requests + 1

\* The risk handler up to the save: both copies are replaced, or the request is
\* refused and nothing changes.
PostRiskConfig(req) ==
    LET next == Overlay(ctx_risk, req)
    IN  /\ Take
        /\ IF Accepts(next)
           THEN /\ ctx_risk' = next /\ core_risk' = next
                /\ known' = known \union {next}
                /\ pc' = "open"
           ELSE UNCHANGED <<ctx_risk, core_risk, known, pc>>
        /\ UNCHANGED <<enabled, file, restarts, saved>>

PostEnable(flag) ==
    /\ Take
    /\ enabled' = flag
    /\ pc' = "open"
    /\ UNCHANGED <<ctx_risk, core_risk, file, restarts, saved, known>>

SaveOpens ==
    /\ pc = "open"
    /\ file' = Image
    /\ saved' = FALSE
    /\ pc' = "write"
    /\ UNCHANGED <<ctx_risk, core_risk, enabled, requests, restarts, known>>

SaveFailsToOpen ==
    /\ pc = "open"
    /\ saved' = FALSE
    /\ pc' = "reply"
    /\ UNCHANGED <<ctx_risk, core_risk, enabled, file, requests, restarts, known>>

SaveWrites(fields, broken) ==
    /\ pc = "write"
    /\ broken => fields = 0
    /\ file' = [file EXCEPT !.fields = fields, !.broken = broken]
    /\ saved' = (fields = 4)
    /\ pc' = "reply"
    /\ UNCHANGED <<ctx_risk, core_risk, enabled, requests, restarts, known>>

\* Either handler's 200, whatever became of the save.
Reply ==
    /\ pc = "reply"
    /\ pc' = "idle"
    /\ UNCHANGED <<ctx_risk, core_risk, enabled, file, requests, restarts, saved, known>>

\* The process ends at any point and is started again: main loads the saved
\* state over the configuration before it builds TradingCore from it.
Restart ==
    /\ restarts < MaxRestarts
    /\ restarts' = restarts + 1
    /\ ctx_risk' = LoadedRisk /\ core_risk' = CoreAtStart
    /\ enabled' = LoadedEnabled
    /\ known' = known \union {LoadedRisk}
    /\ pc' = "idle"
    /\ UNCHANGED <<file, requests, saved>>

StateNext ==
    \/ \E req \in RiskRequests : PostRiskConfig(req)
    \/ \E flag \in BOOLEAN : PostEnable(flag)
    \/ SaveOpens \/ SaveFailsToOpen
    \/ \E fields \in 0..4, broken \in BOOLEAN : SaveWrites(fields, broken)
    \/ Reply \/ Restart

StateSpec == StateInit /\ [][StateNext]_stateVars

----------------------------------------------------------------------------
(* The variables keep their types, the limits their ranges: every limit ever  *)
(* in force is one POST /risk/config would accept, also when the process died *)
(* or the disk filled up in the middle of a save.                             *)
StateTypeOK ==
    /\ pc \in {"idle", "open", "write", "reply"}
    /\ ctx_risk \in RiskConfig /\ InRange(ctx_risk)
    /\ core_risk \in RiskConfig /\ InRange(core_risk)
    /\ enabled \in BOOLEAN /\ saved \in BOOLEAN
    /\ file \in File /\ InRange(file.risk)
    /\ requests \in 0..MaxRequests /\ restarts \in 0..MaxRestarts

(* What GET /risk/config reports and the next save writes is what orders are  *)
(* checked against: the two copies agree at every step, restarts included.    *)
CopiesAgree == ctx_risk = core_risk

(* A state file that was last written whole holds what is in force, so a      *)
(* restart between requests changes neither the flag nor the limits beyond    *)
(* the six digits they are printed with.                                      *)
SavedStateCurrent ==
    saved /\ pc \in {"idle", "reply"} /\ file.exists =>
        /\ LoadedEnabled = enabled
        /\ \A limit \in DOMAIN core_risk : LoadedRisk[limit] = Printed(core_risk[limit])

(* A restart after any sequence of crashes and failed writes invents nothing: *)
(* each limit it puts in force is the configuration's or one that has been in *)
(* force before, as it is printed.                                            *)
NothingInvented ==
    \A limit \in DOMAIN LoadedRisk : \E r \in known : LoadedRisk[limit] \in {r[limit], Printed(r[limit])}
=============================================================================
