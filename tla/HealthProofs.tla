---------------------------- MODULE HealthProofs ----------------------------
(* What a check of /health can be taken to mean, for any threshold, pause,    *)
(* number of feeds and change of the clock.                                   *)
EXTENDS Health, TLAPS

\* The stored moment is at most a pause older than the latest tick's, and shown by a clock that
\* was at most MaxShift behind when it was read.
TickAges ==
    IF last_tick_ms = Never THEN since = Never
    ELSE /\ last_tick_ms \in Int /\ last_tick_ms <= Cap /\ since \in 0..Cap
         /\ since <= last_tick_ms + shift
         /\ last_tick_ms + shift <= since + MaxDelay + MaxShift

\* Started steps are short, and the router only answers a check that still waits.
ShortSteps ==
    /\ stamp \in [Feeds -> 0..MaxDelay \union {Never}]
    /\ server \in {"idle", "busy", "health"}
    /\ IF server = "health" THEN now \in 0..MaxDelay /\ Pending ELSE now = Never
    /\ check \in 0..CheckTimeout \union {Never}

\* The port is one process's, and an engine that does not listen serves nobody.
OnePort ==
    /\ other => engine # "listening"
    /\ engine # "listening" => server = "idle"

\* A check that met no other request has waited for the router alone.
Unhindered ==
    Pending /\ ~held /\ ~other => server # "busy" /\ check = IF server = "health" THEN now ELSE 0

HealthInv == shift \in 0..MaxShift /\ TickAges /\ ShortSteps /\ OnePort /\ Unhindered

-----------------------------------------------------------------------------
(* What the bounds on times are: numbers, each small enough for the next.     *)
LEMMA Ages ==
    /\ Threshold \in Nat /\ CheckTimeout \in Nat /\ MaxDelay \in Nat /\ MaxShift \in Nat
    /\ Wrap \in Nat /\ MaxDelay < CheckTimeout /\ CheckTimeout <= Threshold
    /\ Cap \in Nat /\ Cap > Threshold + MaxDelay + MaxShift /\ Never = Cap + 1
    /\ Wrap > Cap + Threshold + MaxDelay + MaxShift
BY HealthAssumption DEF Cap, Never

(* Nothing happened yet.                                                      *)
LEMMA HealthInvInit == Init => HealthInv
<1> SUFFICES ASSUME Init PROVE HealthInv
  OBVIOUS
<1> QED BY Ages DEF Init, HealthInv, TickAges, ShortSteps, OnePort, Unhindered, Pending

(* The steps of the engine.                                                   *)
LEMMA EngineSteps ==
    ASSUME HealthInv, Start \/ Bind \/ Die PROVE HealthInv'
<1>1. CASE Start \/ Bind
  BY <1>1 DEF Start, Bind, memory, HealthInv, TickAges, ShortSteps, OnePort, Unhindered, Pending
<1>2. CASE Die
  <2>1. shift' \in 0..MaxShift /\ TickAges' /\ OnePort'
    BY <1>2 DEF Die, HealthInv, TickAges, OnePort
  <2>2. check' = check \/ check' = Never
    BY <1>2 DEF Die
  <2>3. ShortSteps'
    BY <1>2, <2>2, Ages DEF Die, HealthInv, ShortSteps, Pending
  <2>4. Unhindered'
    BY <1>2 DEF Die, Unhindered, Pending
  <2> QED BY <2>1, <2>3, <2>4 DEF HealthInv
<1> QED BY <1>1, <1>2

(* A step of a market thread keeps the invariant.                             *)
LEMMA FeedSteps ==
    ASSUME HealthInv, NEW f \in Feeds, Feed(f) PROVE HealthInv'
<1>1. CASE ReadClock(f)
  <2>1. ShortSteps'
    BY <1>1, Ages DEF ReadClock, HealthInv, ShortSteps, Pending
  <2> QED BY <1>1, <2>1 DEF ReadClock, port, HealthInv, TickAges, OnePort, Unhindered, Pending
<1>2. CASE StoreTick(f)
  <2> DEFINE a == stamp[f]
  <2>1. a \in 0..MaxDelay /\ shift \in 0..MaxShift /\ last_tick_ms' = a /\ shift' = shift
        /\ since' = IF a < since THEN a ELSE since
    BY <1>2 DEF StoreTick, Stored, HealthInv, ShortSteps
  <2>2. since \in 0..Cap \/ since = Never
    BY DEF HealthInv, TickAges
  <2>3. TickAges'
    <3> HIDE DEF a
    <3>1. /\ a \in Int /\ 0 <= a /\ a <= MaxDelay /\ a <= Cap /\ a # Never
          /\ shift \in Int /\ 0 <= shift /\ shift <= MaxShift
      BY <2>1, Ages
    <3>2. since' \in Int /\ 0 <= since' /\ since' <= a
      BY <2>1, <2>2, <3>1, Ages
    <3> DEFINE b == since'
    <3> HIDE DEF b
    <3>3. b \in Int /\ 0 <= b /\ b <= a
      BY <3>2 DEF b
    <3>4. b \in 0..Cap /\ b <= a + shift /\ a + shift <= b + MaxDelay + MaxShift
      BY <3>1, <3>3, Ages
    <3> QED BY <2>1, <3>1, <3>4 DEF TickAges, b
  <2>4. ShortSteps'
    BY <1>2, Ages DEF StoreTick, HealthInv, ShortSteps, Pending
  <2> QED BY <1>2, <2>1, <2>3, <2>4 DEF StoreTick, port, HealthInv, OnePort, Unhindered, Pending
<1> QED BY <1>1, <1>2 DEF Feed

(* The control thread leaves the ticks alone.                                 *)
LEMMA ControlSteps ==
    ASSUME HealthInv, Control PROVE HealthInv'
<1>1. TickAges' /\ shift' \in 0..MaxShift
  BY DEF Control, TakeOther, EndOther, TakeCheck, Answer, memory, HealthInv, TickAges
<1>2. CASE TakeOther
  BY <1>1, <1>2 DEF TakeOther, port, memory, HealthInv, ShortSteps, OnePort, Unhindered, Pending
<1>3. CASE EndOther
  BY <1>1, <1>3 DEF EndOther, port, memory, HealthInv, ShortSteps, OnePort, Unhindered, Pending
<1>4. CASE TakeCheck
  BY <1>1, <1>4, Ages
     DEF TakeCheck, port, memory, HealthInv, ShortSteps, OnePort, Unhindered, Pending
<1>5. CASE Answer
  BY <1>1, <1>5, Ages
     DEF Answer, port, memory, HealthInv, ShortSteps, OnePort, Unhindered, Pending
<1> QED BY <1>2, <1>3, <1>4, <1>5 DEF Control

(* A step of the check, from the timer to the reply, keeps it.                *)
LEMMA CheckerSteps ==
    ASSUME HealthInv, Checker PROVE HealthInv'
<1>1. TickAges' /\ shift' \in 0..MaxShift
  BY DEF Checker, Ask, NoAnswer, memory, HealthInv, TickAges
<1>2. CASE Ask
  <2>1. /\ server # "health" /\ now = Never /\ server \in {"idle", "busy"}
        /\ server' = server /\ now' = now /\ stamp' = stamp
        /\ check' = 0 /\ (held' <=> server = "busy")
    BY <1>2 DEF Ask, port, memory, HealthInv, ShortSteps
  <2>2. ShortSteps'
    BY <2>1, Ages DEF HealthInv, ShortSteps
  <2>3. Unhindered'
    BY <2>1 DEF Unhindered
  <2>4. OnePort'
    BY <1>2 DEF Ask, port, HealthInv, OnePort
  <2> QED BY <1>1, <2>2, <2>3, <2>4 DEF HealthInv
<1>3. CASE NoAnswer
  BY <1>1, <1>3, Ages
     DEF NoAnswer, port, memory, HealthInv, ShortSteps, OnePort, Unhindered, Pending
<1> QED BY <1>2, <1>3 DEF Checker

(* What another process does on the port keeps it.                            *)
LEMMA ElsewhereSteps ==
    ASSUME HealthInv, Elsewhere PROVE HealthInv'
<1>1. /\ shift' \in 0..MaxShift /\ TickAges'
      /\ server' = server /\ now' = now /\ stamp' = stamp /\ engine' = engine /\ held' = held
  BY DEF Elsewhere, OtherListens, OtherAnswers, OtherLeaves, port, memory, HealthInv, TickAges
<1>2. engine # "listening" /\ (check' = check \/ check' = Never)
  BY DEF Elsewhere, OtherListens, OtherAnswers, OtherLeaves, port, HealthInv, OnePort
<1>3. server = "idle" /\ OnePort'
  BY <1>1, <1>2 DEF HealthInv, OnePort
<1>4. ShortSteps'
  BY <1>1, <1>2, <1>3, Ages DEF HealthInv, ShortSteps, Pending
<1>5. Unhindered'
  BY DEF Elsewhere, OtherListens, OtherAnswers, OtherLeaves, Unhindered, Pending
<1> QED BY <1>1, <1>3, <1>4, <1>5 DEF HealthInv

(* Time: every age grows by one, the old ones are all alike.                  *)
LEMMA TimeSteps ==
    ASSUME HealthInv, TimePasses PROVE HealthInv'
<1>1. /\ shift \in 0..MaxShift /\ shift' = shift
      /\ last_tick_ms' = Older(last_tick_ms, 1) /\ since' = Older(since, 1)
      /\ now' = Older(now, 1) /\ check' = Older(check, 1)
      /\ server' = server /\ held' = held /\ engine' = engine /\ other' = other
  BY DEF TimePasses, port, HealthInv
<1>2. TickAges'
  BY <1>1, Ages DEF HealthInv, TickAges, Older
<1>3. stamp' \in [Feeds -> 0..MaxDelay \union {Never}]
  <2>1. stamp' = [f \in Feeds |-> Older(stamp[f], 1)]
    BY DEF TimePasses
  <2>2. ASSUME NEW f \in Feeds PROVE Older(stamp[f], 1) \in 0..MaxDelay \union {Never}
    <3> DEFINE a == stamp[f]
    <3>1. a \in 0..MaxDelay \union {Never} /\ (a = Never \/ a < MaxDelay)
      BY DEF TimePasses, HealthInv, ShortSteps
    <3> HIDE DEF a
    <3>2. Older(a, 1) \in 0..MaxDelay \union {Never}
      BY <3>1, Ages DEF Older
    <3> QED BY <3>2 DEF a
  <2> QED BY <2>1, <2>2
<1>4. ShortSteps'
  BY <1>1, <1>3, Ages DEF TimePasses, HealthInv, ShortSteps, Older, Pending
<1>5. Unhindered'
  <2>1. CASE check = Never
    BY <1>1, <2>1 DEF Unhindered, Older, Pending
  <2>2. CASE check # Never /\ ~held /\ ~other
    <3>1. server # "busy" /\ server # "idle" /\ check = IF server = "health" THEN now ELSE 0
      BY <2>2 DEF TimePasses, HealthInv, Unhindered, Pending
    <3>2. server = "health" /\ check = now
      BY <3>1 DEF HealthInv, ShortSteps
    <3>3. check' = now'
      BY <1>1, <3>2
    <3> QED BY <1>1, <3>2, <3>3 DEF Unhindered
  <2>3. CASE held \/ other
    BY <1>1, <2>3 DEF Unhindered
  <2> QED BY <2>1, <2>2, <2>3
<1>6. OnePort'
  BY <1>1 DEF HealthInv, OnePort
<1> QED BY <1>1, <1>2, <1>4, <1>5, <1>6 DEF HealthInv

(* Setting the clock keeps it.                                                *)
LEMMA ClockSteps ==
    ASSUME HealthInv, SetClock PROVE HealthInv'
<1>1. PICK s \in 0..MaxShift : shift' = s /\ last_tick_ms' = Older(last_tick_ms, shift - s)
  BY DEF SetClock
<1>2. shift \in 0..MaxShift /\ since' = since
  BY DEF SetClock, HealthInv
<1>3. TickAges'
  BY <1>1, <1>2, Ages DEF HealthInv, TickAges, Older
<1> QED BY <1>1, <1>3 DEF SetClock, port, HealthInv, ShortSteps, OnePort, Unhindered, Pending

(* Every step keeps it.                                                       *)
LEMMA HealthInvNext == HealthInv /\ [Next]_vars => HealthInv'
<1> SUFFICES ASSUME HealthInv, [Next]_vars PROVE HealthInv'
  OBVIOUS
<1>1. CASE UNCHANGED vars
  BY <1>1 DEF vars, HealthInv, TickAges, ShortSteps, OnePort, Unhindered, Pending
<1>2. CASE Start \/ Bind \/ Die
  BY <1>2, EngineSteps
<1>3. CASE \E f \in Feeds : Feed(f)
  BY <1>3, FeedSteps
<1>4. CASE Control
  BY <1>4, ControlSteps
<1>5. CASE Checker
  BY <1>5, CheckerSteps
<1>6. CASE TimePasses
  BY <1>6, TimeSteps
<1>7. CASE SetClock
  BY <1>7, ClockSteps
<1>8. CASE Elsewhere
  BY <1>8, ElsewhereSteps
<1> QED BY <1>1, <1>2, <1>3, <1>4, <1>5, <1>6, <1>7, <1>8 DEF Next

-----------------------------------------------------------------------------
(* The unsigned subtraction: exact when the tick is older than the router's   *)
(* reading, beyond every threshold when it is younger.                        *)
LEMMA Subtraction ==
    ASSUME HealthInv, server = "health", last_tick_ms # Never
    PROVE  IF last_tick_ms >= now THEN Elapsed = last_tick_ms - now ELSE Elapsed > Threshold
<1> DEFINE x == last_tick_ms - now
<1>1. last_tick_ms \in Int /\ now \in Int /\ x \in Int /\ x <= Cap /\ x >= -(MaxShift + MaxDelay)
  BY Ages DEF HealthInv, TickAges, ShortSteps
<1>2. Elapsed = x % Wrap
  BY DEF Elapsed
<1> HIDE DEF x
<1>3. x >= 0 => x % Wrap = x
  BY <1>1, Ages
<1>4. x < 0 => x % Wrap = x + Wrap
  BY <1>1, Ages
<1> QED BY <1>1, <1>2, <1>3, <1>4, Ages DEF x

(* Which steps end a check, and what they report.                             *)
LEMMA EndsOfChecks ==
    ASSUME HealthInv, [Next]_vars, CheckEnds
    PROVE  \/ server = "health" /\ report' = IF Stale THEN 503 ELSE 200
           \/ /\ report' = 0
              /\ engine # "listening" \/ engine' = "down" \/ GivesUp
           \/ other
<1>1. Pending /\ check # Never /\ check \in 0..CheckTimeout /\ check' = Never
  BY DEF CheckEnds, HealthInv, ShortSteps, Pending
<1>2. CASE Die
  BY <1>1, <1>2 DEF Die
<1>3. CASE Answer
  BY <1>3 DEF Answer
<1>4. CASE NoAnswer
  BY <1>4 DEF NoAnswer
<1>5. CASE TimePasses
  <2>1. check < CheckTimeout /\ check' = Older(check, 1)
    BY <1>1, <1>5 DEF TimePasses
  <2>2. check' = check + 1 /\ check + 1 <= Cap
    BY <1>1, <2>1, Ages DEF Older
  <2> DEFINE a == check
  <2>3. a \in Int /\ check' = a + 1 /\ a + 1 <= Cap
    BY <1>1, <2>2
  <2> HIDE DEF a
  <2>4. a + 1 # Cap + 1
    BY <2>3, Ages
  <2> QED BY <1>1, <2>3, <2>4, Ages
<1>6. CASE Start \/ Bind \/ (\E f \in Feeds : Feed(f)) \/ TakeOther \/ EndOther \/ TakeCheck
           \/ SetClock \/ OtherListens \/ UNCHANGED vars
  <2>1. check' = check
    BY <1>6 DEF Start, Bind, Feed, ReadClock, StoreTick, TakeOther, EndOther, TakeCheck, SetClock,
             OtherListens, vars
  <2> QED BY <1>1, <2>1
<1>7. CASE Ask
  BY <1>1, <1>7 DEF Ask
<1>8. CASE OtherAnswers \/ OtherLeaves
  BY <1>8 DEF OtherAnswers, OtherLeaves
<1> QED BY <1>2, <1>3, <1>4, <1>5, <1>6, <1>7, <1>8 DEF Next, Control, Checker, Elsewhere

(* HealthyMeansRecent (the router's /health handler, the tick handler's       *)
(* store): for any threshold, pause and change of the clock, "healthy" from   *)
(* a port no other process has means a tick within the threshold and that     *)
(* tolerance.                                                                 *)
THEOREM HealthyIsRecent == HealthSpec => HealthyMeansRecent
<1>1. HealthInv /\ [Next]_vars =>
        [CheckEnds /\ report' = 200 /\ ~other =>
           since = Never \/ since <= Threshold + Tolerance]_vars
  <2> SUFFICES ASSUME HealthInv, [Next]_vars, CheckEnds, report' = 200, ~other, since # Never
               PROVE  since <= Threshold + Tolerance
    OBVIOUS
  <2>1. server = "health" /\ ~Stale
    BY EndsOfChecks
  <2>2. last_tick_ms # Never /\ ~(Elapsed > Threshold)
    BY <2>1 DEF Stale, HealthInv, TickAges
  <2>3. last_tick_ms >= now /\ ~(last_tick_ms - now > Threshold)
    BY <2>1, <2>2, Subtraction
  <2> QED BY <2>1, <2>2, <2>3, Ages DEF HealthInv, TickAges, ShortSteps, Tolerance
<1> QED BY <1>1, HealthInvInit, HealthInvNext, PTL DEF HealthSpec, HealthyMeansRecent

(* AlarmsExplained (the router's /health handler, the loop that serves one    *)
(* client at a time, healthcheck.sh): every alarm of every engine that is up  *)
(* has one of these causes.                                                   *)
THEOREM AlarmsHaveCauses == HealthSpec => AlarmsExplained
<1> DEFINE A == CheckEnds =>
                  /\ report' = 503 /\ ~other =>
                       /\ since # Never
                       /\ last_tick_ms < now \/ since + Tolerance > Threshold
                  /\ report' = 0 => engine # "listening" \/ engine' = "down" \/ held
<1>1. HealthInv /\ [Next]_vars => [A]_vars
  <2> SUFFICES ASSUME HealthInv, [Next]_vars, CheckEnds PROVE A
    OBVIOUS
  <2>1. ASSUME report' = 503, ~other
        PROVE  since # Never /\ (last_tick_ms < now \/ since + Tolerance > Threshold)
    <3>1. server = "health" /\ Stale
      BY <2>1, EndsOfChecks
    <3>2. last_tick_ms # Never /\ Elapsed > Threshold
      BY <3>1 DEF Stale
    <3>3. since # Never
      BY <3>2, Ages DEF HealthInv, TickAges
    <3>4. CASE last_tick_ms >= now
      <4>1. last_tick_ms - now > Threshold
        BY <3>1, <3>2, <3>4, Subtraction
      <4> QED BY <3>1, <3>2, <3>3, <4>1, Ages DEF HealthInv, TickAges, ShortSteps, Tolerance
    <3>5. CASE ~(last_tick_ms >= now)
      BY <3>1, <3>2, <3>3, <3>5 DEF HealthInv, TickAges, ShortSteps
    <3> QED BY <3>4, <3>5
  <2>2. ASSUME report' = 0 PROVE engine # "listening" \/ engine' = "down" \/ held
    <3>1. engine # "listening" \/ engine' = "down" \/ GivesUp \/ other
      BY <2>2, EndsOfChecks
    <3>2. GivesUp => held \/ other
      BY Ages DEF GivesUp, HealthInv, ShortSteps, Unhindered, Pending, CheckEnds
    <3>3. other => engine # "listening"
      BY DEF HealthInv, OnePort
    <3> QED BY <3>1, <3>2, <3>3
  <2> QED BY <2>1, <2>2
<1> QED BY <1>1, HealthInvInit, HealthInvNext, PTL DEF HealthSpec, AlarmsExplained
=============================================================================
