------------------------- MODULE RuntimeStateProofs ------------------------
(* Proofs about RuntimeState for any configuration, any set of requests and   *)
(* any number of them, of restarts and of failed writes.                      *)
EXTENDS RuntimeState, TLAPS

\* What a whole save left in the file is what is in force, as it reads back.
FileCurrent ==
    /\ file.enabled = enabled
    /\ Printed(file.risk.maxNotional) = Printed(core_risk.maxNotional)
    /\ Printed(file.risk.ratio) = Printed(core_risk.ratio)
    /\ Printed(file.risk.stop) = Printed(core_risk.stop)

\* A save writes the limits in force into an open file, and only a save that
\* wrote everything counts as saved; a handler changes what is in force only
\* on its way to a save.
SaveProtocol ==
    /\ pc = "write" => ~saved /\ file.exists /\ FileCurrent
    /\ saved => file.exists /\ file.fields = 4
    /\ saved /\ pc \in {"idle", "reply"} => FileCurrent

AllKnown == {StartRisk, ctx_risk, file.risk} \subseteq known

\* The inductive invariant.
StateInv == StateTypeOK /\ CopiesAgree /\ SaveProtocol /\ AllKnown

----------------------------------------------------------------------------
(* A limit reads back as a number again, and within its range.                *)
LEMMA PrintedType ==
    ASSUME NEW n \in Int
    PROVE  Printed(n) \in Int /\ (n > 0 => Printed(n) > 0) /\ (n \in 1..One => Printed(n) \in 1..One)
<1>1. One \in Int
  BY SMT DEF One
<1>2. CASE n < 1000000
  <2>1. Printed(n) = n
    BY <1>2, SMT DEF Printed
  <2> QED BY <2>1, SMT
<1>3. CASE n >= 1000000 /\ n < 10000000
  <2> DEFINE k == (n + 5) \div 10
  <2>1. k \in Int /\ k > 0 /\ k <= 1000000 /\ Printed(n) = k * 10
    BY <1>3, SMT DEF Printed
  <2> HIDE DEF k
  <2>2. k * 10 \in Int /\ k * 10 > 0 /\ k * 10 <= 1000000000
    BY <2>1, SMT
  <2>3. Printed(n) \in Int /\ Printed(n) > 0 /\ Printed(n) <= One
    BY <2>1, <2>2, SMT DEF One
  <2> QED BY <1>1, <2>3, SMT
<1>4. CASE n >= 10000000 /\ n < 100000000
  <2> DEFINE k == (n + 50) \div 100
  <2>1. k \in Int /\ k > 0 /\ k <= 1000000 /\ Printed(n) = k * 100
    BY <1>4, SMT DEF Printed
  <2> HIDE DEF k
  <2>2. k * 100 \in Int /\ k * 100 > 0 /\ k * 100 <= 1000000000
    BY <2>1, SMT
  <2>3. Printed(n) \in Int /\ Printed(n) > 0 /\ Printed(n) <= One
    BY <2>1, <2>2, SMT DEF One
  <2> QED BY <1>1, <2>3, SMT
<1>5. CASE n >= 100000000
  <2> DEFINE k == (n + 500) \div 1000
  <2>1. k \in Int /\ k > 0 /\ Printed(n) = k * 1000
    BY <1>5, SMT DEF Printed
  <2>2. n <= One => k <= 1000000
    BY <1>5, SMT DEF One
  <2> HIDE DEF k
  <2>3. k * 1000 \in Int /\ k * 1000 > 0 /\ (k <= 1000000 => k * 1000 <= 1000000000)
    BY <2>1, SMT
  <2>4. Printed(n) \in Int /\ Printed(n) > 0 /\ (n <= One => Printed(n) <= One)
    BY <2>1, <2>2, <2>3, SMT DEF One
  <2> QED BY <1>1, <2>4, SMT
<1> QED BY <1>2, <1>3, <1>4, <1>5, SMT

(* A limit that was read back once reads back as itself ever after.           *)
LEMMA PrintedTwice ==
    ASSUME NEW n \in Int
    PROVE  Printed(Printed(n)) = Printed(n)
<1>1. CASE n < 1000000
  BY <1>1 DEF Printed
<1>2. CASE n >= 1000000 /\ n < 10000000
  <2>1. Printed(n) = ((n + 5) \div 10) * 10
    BY <1>2 DEF Printed
  <2> DEFINE k == (n + 5) \div 10
  <2>2. k \in Int /\ k >= 100000 /\ k <= 1000000
    BY <1>2
  <2> HIDE DEF k
  <2>3. CASE k < 1000000
    <3>1. (k * 10 + 5) \div 10 = k
      BY <2>2
    <3> QED BY <2>1, <2>2, <2>3, <3>1 DEF Printed, k
  <2>4. CASE k = 1000000
    BY <2>1, <2>4 DEF Printed, k
  <2> QED BY <2>2, <2>3, <2>4
<1>3. CASE n >= 10000000 /\ n < 100000000
  <2>1. Printed(n) = ((n + 50) \div 100) * 100
    BY <1>3 DEF Printed
  <2> DEFINE k == (n + 50) \div 100
  <2>2. k \in Int /\ k >= 100000 /\ k <= 1000000
    BY <1>3
  <2> HIDE DEF k
  <2>3. CASE k < 1000000
    <3>1. (k * 100 + 50) \div 100 = k
      BY <2>2
    <3> QED BY <2>1, <2>2, <2>3, <3>1 DEF Printed, k
  <2>4. CASE k = 1000000
    BY <2>1, <2>4 DEF Printed, k
  <2> QED BY <2>2, <2>3, <2>4
<1>4. CASE n >= 100000000
  <2>1. Printed(n) = ((n + 500) \div 1000) * 1000
    BY <1>4 DEF Printed
  <2> DEFINE k == (n + 500) \div 1000
  <2>2. k \in Int /\ k >= 100000
    BY <1>4
  <2> HIDE DEF k
  <2>3. (k * 1000 + 500) \div 1000 = k
    BY <2>2
  <2> QED BY <2>1, <2>2, <2>3 DEF Printed, k
<1> QED BY <1>1, <1>2, <1>3, <1>4

(* A request overlaid on limits gives limits again.                           *)
LEMMA OverlayType ==
    ASSUME NEW r \in RiskConfig, NEW req \in RiskRequests
    PROVE  Overlay(r, req) \in RiskConfig
<1>1. req \in RiskRequest
  BY RequestsAssumption
<1>2. \A value \in SUBSET Int, n \in Int : Given(value, n) \in Int
  BY DEF Given
<1> QED BY <1>1, <1>2 DEF Overlay, RiskConfig, RiskRequest

(* Limits the handler lets through are within their ranges.                   *)
LEMMA AcceptedInRange ==
    ASSUME NEW r \in RiskConfig, Accepts(r)
    PROVE  InRange(r)
BY DEF Accepts, InRange, RiskConfig

(* What a start reads is within the ranges, whatever is missing in the file.  *)
LEMMA LoadedType ==
    ASSUME StateTypeOK
    PROVE  LoadedRisk \in RiskConfig /\ InRange(LoadedRisk) /\ LoadedEnabled \in BOOLEAN
<1>1. /\ file.risk.maxNotional \in Int /\ file.risk.maxNotional > 0
      /\ StartRisk.maxNotional \in Int /\ StartRisk.maxNotional > 0
      /\ file.risk.ratio \in 1..One /\ file.risk.stop \in 1..One
      /\ StartRisk.ratio \in 1..One /\ StartRisk.stop \in 1..One
  BY StartAssumption DEF StateTypeOK, File, RiskConfig, InRange
<1>2. Printed(file.risk.maxNotional) \in Int /\ Printed(file.risk.maxNotional) > 0
  BY <1>1, PrintedType
<1>3. One \in Int
  BY SMT DEF One
<1>4. Printed(file.risk.ratio) \in 1..One /\ Printed(file.risk.stop) \in 1..One
  BY <1>1, <1>3, PrintedType
<1>5. LoadedEnabled \in BOOLEAN
  BY StartAssumption DEF StateTypeOK, File, LoadedEnabled
<1>6. LoadedRisk \in RiskConfig /\ InRange(LoadedRisk)
  BY <1>1, <1>2, <1>3, <1>4 DEF LoadedRisk, RiskConfig, InRange
<1> QED BY <1>5, <1>6

(* The initial state satisfies the invariant.                                 *)
LEMMA StateInvInit == StateInit => StateInv
<1> SUFFICES ASSUME StateInit PROVE StateInv
  OBVIOUS
<1>1. file \in File /\ file.risk = StartRisk
  BY StartAssumption DEF StateInit, File
<1>2. StateTypeOK
  <2>1. enabled \in BOOLEAN /\ saved \in BOOLEAN
    BY StartAssumption, Zenon DEF StateInit
  <2>2. requests \in 0..MaxRequests /\ restarts \in 0..MaxRestarts
    BY BoundsAssumption DEF StateInit
  <2> QED BY <1>1, <2>1, <2>2, StartAssumption, Zenon DEF StateInit, StateTypeOK
<1>3. CopiesAgree /\ SaveProtocol /\ AllKnown
  BY <1>1 DEF StateInit, CopiesAgree, SaveProtocol, AllKnown
<1> QED BY <1>2, <1>3 DEF StateInv

----------------------------------------------------------------------------
(* Every step preserves it.                                                   *)
LEMMA StateInvNext == StateInv /\ [StateNext]_stateVars => StateInv'
<1> SUFFICES ASSUME StateInv, [StateNext]_stateVars PROVE StateInv'
  OBVIOUS
<1> USE DEF StateInv
<1>1. ASSUME NEW req \in RiskRequests, PostRiskConfig(req) PROVE StateInv'
  <2> DEFINE next == Overlay(ctx_risk, req)
  <2>1. next \in RiskConfig
    BY OverlayType DEF StateTypeOK
  <2>2. requests' \in 0..MaxRequests
    BY <1>1, BoundsAssumption DEF PostRiskConfig, Take, StateTypeOK
  <2>3. CASE Accepts(next)
    <3>1. InRange(next)
      BY <2>1, <2>3, AcceptedInRange
    <3>2. ctx_risk' = next /\ core_risk' = next /\ pc' = "open" /\ known' = known \union {next}
          /\ UNCHANGED <<enabled, file, restarts, saved>>
      BY <1>1, <2>3 DEF PostRiskConfig
    <3> HIDE DEF next
    <3> QED BY <2>1, <2>2, <3>1, <3>2 DEF StateTypeOK, CopiesAgree, SaveProtocol, AllKnown
  <2>4. CASE ~Accepts(next)
    BY <1>1, <2>2, <2>4
       DEF PostRiskConfig, StateTypeOK, CopiesAgree, SaveProtocol, AllKnown, FileCurrent
  <2> QED BY <2>3, <2>4
<1>2. ASSUME NEW flag \in BOOLEAN, PostEnable(flag) PROVE StateInv'
  BY <1>2, BoundsAssumption
     DEF PostEnable, Take, StateTypeOK, CopiesAgree, SaveProtocol, AllKnown
<1>3. ASSUME SaveOpens PROVE StateInv'
  <2>1. file' \in File /\ file'.risk = ctx_risk
    BY <1>3 DEF SaveOpens, StateTypeOK, Image, File
  <2>2. StateTypeOK'
    BY <1>3, <2>1 DEF SaveOpens, StateTypeOK
  <2>3. SaveProtocol'
    BY <1>3 DEF SaveOpens, SaveProtocol, FileCurrent, Image, CopiesAgree
  <2> QED BY <1>3, <2>1, <2>2, <2>3 DEF SaveOpens, Image, CopiesAgree, AllKnown
<1>4. ASSUME SaveFailsToOpen PROVE StateInv'
  BY <1>4 DEF SaveFailsToOpen, StateTypeOK, CopiesAgree, SaveProtocol, AllKnown
<1>5. ASSUME NEW fields \in 0..4, NEW broken \in BOOLEAN, SaveWrites(fields, broken)
      PROVE  StateInv'
  <2>1. /\ file' \in File
        /\ file'.exists = file.exists /\ file'.risk = file.risk /\ file'.enabled = file.enabled
        /\ file'.fields = fields
    BY <1>5 DEF SaveWrites, StateTypeOK, File
  <2>2. StateTypeOK'
    BY <1>5, <2>1 DEF SaveWrites, StateTypeOK
  <2>3. FileCurrent' /\ file'.exists
    BY <1>5, <2>1 DEF SaveWrites, SaveProtocol, FileCurrent
  <2>4. SaveProtocol'
    BY <1>5, <2>1, <2>3 DEF SaveWrites, SaveProtocol
  <2> QED BY <1>5, <2>1, <2>2, <2>4 DEF SaveWrites, CopiesAgree, AllKnown
<1>6. ASSUME Reply PROVE StateInv'
  BY <1>6 DEF Reply, StateTypeOK, CopiesAgree, SaveProtocol, AllKnown, FileCurrent
<1>7. ASSUME Restart PROVE StateInv'
  <2>1. StateTypeOK'
    BY <1>7, LoadedType, BoundsAssumption DEF Restart, CoreAtStart, StateTypeOK
  <2>2. saved => FileCurrent'
    <3> SUFFICES ASSUME saved PROVE FileCurrent'
      OBVIOUS
    <3>1. file.exists /\ file.fields = 4 /\ file' = file
      BY <1>7 DEF Restart, SaveProtocol
    <3>2. enabled' = file.enabled
      BY <1>7, <3>1 DEF Restart, LoadedEnabled
    <3>3. /\ core_risk'.maxNotional = Printed(file.risk.maxNotional)
          /\ core_risk'.ratio = Printed(file.risk.ratio)
          /\ core_risk'.stop = Printed(file.risk.stop)
      BY <1>7, <3>1 DEF Restart, CoreAtStart, LoadedRisk
    <3>4. file.risk.maxNotional \in Int /\ file.risk.ratio \in Int /\ file.risk.stop \in Int
      BY DEF StateTypeOK, File, RiskConfig
    <3> QED BY <3>1, <3>2, <3>3, <3>4, PrintedTwice DEF FileCurrent
  <2>3. SaveProtocol'
    BY <1>7, <2>2 DEF Restart, SaveProtocol
  <2> QED BY <1>7, <2>1, <2>3 DEF Restart, CoreAtStart, CopiesAgree, AllKnown
<1>8. CASE UNCHANGED stateVars
  BY <1>8 DEF stateVars, StateTypeOK, CopiesAgree, SaveProtocol, AllKnown, FileCurrent
<1> QED
  BY <1>1, <1>2, <1>3, <1>4, <1>5, <1>6, <1>7, <1>8 DEF StateNext

(* Every limit ever in force is one POST /risk/config would accept, also when *)
(* the process died or the disk filled up in the middle of a save.            *)
THEOREM StateTypeCorrect == StateSpec => []StateTypeOK
<1>1. StateInv => StateTypeOK
  BY DEF StateInv
<1> QED BY <1>1, StateInvInit, StateInvNext, PTL DEF StateSpec

(* What GET /risk/config reports is what orders are checked against.          *)
THEOREM StateCopiesAgree == StateSpec => []CopiesAgree
<1>1. StateInv => CopiesAgree
  BY DEF StateInv
<1> QED BY <1>1, StateInvInit, StateInvNext, PTL DEF StateSpec

(* After a whole save a restart between requests changes nothing in force     *)
(* beyond the six digits the limits are printed with.                         *)
THEOREM SavedIsCurrent == StateSpec => []SavedStateCurrent
<1>1. StateInv => SavedStateCurrent
  <2> SUFFICES ASSUME StateInv, saved, pc \in {"idle", "reply"}, file.exists
               PROVE  /\ LoadedEnabled = enabled
                      /\ \A limit \in DOMAIN core_risk : LoadedRisk[limit] = Printed(core_risk[limit])
    BY DEF SavedStateCurrent
  <2>1. file.fields = 4 /\ FileCurrent
    BY DEF StateInv, SaveProtocol
  <2>2. core_risk \in RiskConfig
    BY DEF StateInv, StateTypeOK
  <2>3. /\ LoadedRisk.maxNotional = Printed(core_risk.maxNotional)
        /\ LoadedRisk.ratio = Printed(core_risk.ratio)
        /\ LoadedRisk.stop = Printed(core_risk.stop)
    BY <2>1 DEF LoadedRisk, FileCurrent
  <2>4. DOMAIN core_risk = {"maxNotional", "ratio", "stop"}
    BY <2>2 DEF RiskConfig
  <2>5. LoadedEnabled = enabled
    BY <2>1 DEF LoadedEnabled, FileCurrent
  <2> QED BY <2>3, <2>4, <2>5
<1> QED BY <1>1, StateInvInit, StateInvNext, PTL DEF StateSpec

(* No sequence of crashes and failed writes makes a start put limits in force *)
(* that never were, but for their printing.                                   *)
THEOREM RestartsInventNothing == StateSpec => []NothingInvented
<1>1. StateInv => NothingInvented
  BY DEF StateInv, AllKnown, NothingInvented, LoadedRisk
<1> QED BY <1>1, StateInvInit, StateInvNext, PTL DEF StateSpec
=============================================================================
