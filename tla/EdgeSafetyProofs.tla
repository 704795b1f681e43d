-------------------------- MODULE EdgeSafetyProofs --------------------------
(***************************************************************************)
(* For every delay, clock span, tick gap and ramp: the lamp and the trip   *)
(* code agree, an overload is never carried past the delay even where      *)
(* millis() wraps, a hazard is tripped within the ramp of a start, and     *)
(* no reset happens in an unsafe condition.                                *)
(***************************************************************************)
EXTENDS EdgeSafety, TLAPS

USE TimeAssumption

\* What every method of EdgeProcessModel preserves: the types, TripAnnounced, no
\* overload current in a machine that is not energised, and a ramp not yet over.
Sound(x) ==
    /\ x \in Machine
    /\ x.led <=> x.active_trip # NoTrip
    /\ x.state = "TRIPPED" => x.led
    /\ x.state \in {"STARTING", "RUNNING"} => ~x.led
    /\ x.state \notin Energised => x.current = 0
    /\ x.state = "STOPPED" => x.ramp = 0
    /\ x.state = "STARTING" => x.ramp < RampTicks

\* A run of overloaded samples has its start in overload_start_ms_, or an earlier one.
OverloadTimed ==
    m.state \in Energised /\ overRun >= 0 =>
        /\ m.overload_active
        /\ overRun <= Since(now, m.overload_start)
        /\ Since(now, m.overload_start) < TripDelay

\* An unseen hazard is as old as the ramp at most, and no machine at rest has one.
HazardTimed ==
    /\ m.state = "STARTING" => hazardTicks <= m.ramp
    /\ m.state \notin Turning => hazardTicks = 0
    /\ hazardTicks <= RampTicks

IInv == TypeOK /\ Sound(m) /\ OverloadTimed /\ HazardTimed

-----------------------------------------------------------------------------
(* The clock *)

\* A gap between ticks wraps the clock at most once.
LEMMA AfterWraps ==
    ASSUME NEW t \in Clock, NEW gap \in 1 .. MaxGap
    PROVE  /\ After(t, gap) = IF t + gap < ClockSpan THEN t + gap ELSE t + gap - ClockSpan
           /\ After(t, gap) \in Clock
<1>1. CASE t + gap < ClockSpan
  BY <1>1 DEF Clock, After
<1>2. CASE t + gap >= ClockSpan
  <2>1. PICK a \in Clock : t + gap = a + ClockSpan
    BY <1>2 DEF Clock
  <2>2. (a + ClockSpan) % ClockSpan = a
    BY DEF Clock
  <2>3. a = t + gap - ClockSpan /\ ~(t + gap < ClockSpan)
    BY <2>1, <1>2 DEF Clock
  <2> QED BY <2>1, <2>2, <2>3 DEF After
<1> QED BY <1>1, <1>2 DEF Clock

\* The unsigned difference of two clock readings.
LEMMA SinceWraps ==
    ASSUME NEW t \in Clock, NEW s \in Clock
    PROVE  /\ Since(t, s) = IF s <= t THEN t - s ELSE t - s + ClockSpan
           /\ Since(t, s) \in Clock
<1>1. CASE s <= t
  BY <1>1 DEF Clock, Since
<1>2. CASE ~(s <= t)
  <2>1. PICK a \in Clock : t - s = a - ClockSpan
    BY <1>2 DEF Clock
  <2>2. (a - ClockSpan) % ClockSpan = a
    BY DEF Clock
  <2>3. a = t - s + ClockSpan
    BY <2>1 DEF Clock
  <2> QED BY <2>1, <2>2, <2>3, <1>2 DEF Since
<1> QED BY <1>1, <1>2 DEF Clock

\* An interval that has not reached the trip delay grows by the gap to the next tick:
\* it does not wrap in between.
LEMMA SinceGrows ==
    ASSUME NEW t \in Clock, NEW s \in Clock, NEW gap \in 1 .. MaxGap,
           Since(t, s) < TripDelay
    PROVE  Since(After(t, gap), s) = Since(t, s) + gap
<1>1. /\ Since(t, s) = IF s <= t THEN t - s ELSE t - s + ClockSpan
      /\ After(t, gap) = IF t + gap < ClockSpan THEN t + gap ELSE t + gap - ClockSpan
      /\ After(t, gap) \in Clock
  BY SinceWraps, AfterWraps
<1>2. Since(After(t, gap), s) = IF s <= After(t, gap) THEN After(t, gap) - s
                                ELSE After(t, gap) - s + ClockSpan
  BY <1>1, SinceWraps
<1>3. t \in 0 .. ClockSpan - 1 /\ s \in 0 .. ClockSpan - 1
  BY DEF Clock
<1> QED BY <1>1, <1>2, <1>3

-----------------------------------------------------------------------------
(* The methods of EdgeProcessModel *)

\* The booted machine is sound.
LEMMA NominalSound == Sound(Nominal)
BY DEF Sound, Nominal, Machine, States, NoTrip, Energised, Clock

\* triggerTrip makes any machine of the right type a sound, tripped one.
LEMMA TripSound ==
    ASSUME NEW x \in Machine, NEW code \in TripCodes
    PROVE  /\ Sound(triggerTrip(x, code))
           /\ triggerTrip(x, code).state = "TRIPPED"
<1> DEFINE y == triggerTrip(x, code)
<1>1. y \in Machine
  <2>1. 0 \in 0 .. 2 /\ 0 \in 0 .. RampTicks
    OBVIOUS
  <2> QED BY <2>1 DEF triggerTrip, Machine, States
<1>2. /\ y.state = "TRIPPED" /\ y.active_trip = code /\ y.led = TRUE
      /\ y.ramp = 0 /\ y.current = 0
  BY DEF triggerTrip, Machine
<1>3. code # NoTrip
  BY DEF TripCodes, NoTrip
<1> HIDE DEF y
<1>4. Sound(y) /\ y.state = "TRIPPED"
  BY <1>1, <1>2, <1>3 DEF Sound, Energised
<1> QED BY <1>4 DEF y

\* Each command's method preserves soundness.
LEMMA MethodsSound ==
    ASSUME NEW x, Sound(x)
    PROVE  Sound(stop(x)) /\ Sound(start(x)) /\ Sound(reset(x))
<1>1. Sound(stop(x))
  <2> DEFINE y == stop(x)
  <2>1. x \in Machine
    BY DEF Sound
  <2>2. y \in Machine
    <3>1. 0 \in 0 .. 2 /\ 0 \in 0 .. RampTicks
      OBVIOUS
    <3> QED BY <2>1, <3>1 DEF stop, Machine, States
  <2>3. /\ y.state = "STOPPED" /\ y.active_trip = x.active_trip /\ y.led = x.led
        /\ y.ramp = 0 /\ y.current = 0
    BY <2>1 DEF stop, Machine
  <2> HIDE DEF y
  <2>4. Sound(y)
    BY <2>2, <2>3 DEF Sound, Energised
  <2> QED BY <2>4 DEF y
<1>2. Sound(start(x))
  <2> DEFINE y == start(x)
  <2>1. x \in Machine
    BY DEF Sound
  <2>2. CASE x.state = "STOPPED"
    <3>1. y = [x EXCEPT !.state = "STARTING", !.active_trip = NoTrip, !.led = FALSE]
      BY <2>2 DEF start
    <3> HIDE DEF y
    <3>2. y \in Machine
      BY <2>1, <3>1 DEF Machine, States
    <3>3. /\ y.state = "STARTING" /\ y.active_trip = NoTrip /\ y.led = FALSE
          /\ y.ramp = x.ramp /\ y.current = x.current
      BY <2>1, <3>1 DEF Machine
    <3>4. Sound(y)
      BY <2>2, <3>2, <3>3 DEF Sound, Energised
    <3> QED BY <3>4 DEF y
  <2>3. CASE x.state # "STOPPED"
    BY <2>3 DEF start
  <2> QED BY <2>2, <2>3
<1>3. Sound(reset(x))
  BY NominalSound DEF reset
<1> QED BY <1>1, <1>2, <1>3

\* Every machine a scenario may produce is sound.
LEMMA ScenarioSound ==
    ASSUME NEW x, Sound(x), NEW s, NEW y \in injectScenario(x, s)
    PROVE  Sound(y)
<1>1. x \in Machine
  BY DEF Sound
<1>2. CASE s \in {"SCN-04", "TRIP_OVERLOAD"}
  BY <1>1, <1>2, TripSound DEF injectScenario, TripCodes
<1>3. CASE s = "TRIP_THERMAL"
  <2>1. [x EXCEPT !.hot = TRUE] \in Machine
    BY <1>1 DEF Machine
  <2> QED BY <1>3, <2>1, TripSound DEF injectScenario, TripCodes
<1>4. CASE s = "TRIP_OVERCURRENT"
  BY <1>1, <1>4, TripSound DEF injectScenario, TripCodes
<1>5. CASE s = "TRIP_VIBRATION"
  <2>1. [x EXCEPT !.shaking = TRUE] \in Machine
    BY <1>1 DEF Machine
  <2> QED BY <1>5, <2>1, TripSound DEF injectScenario, TripCodes
<1>6. CASE s = "SCN-02"
  <2>1. PICK h \in {x.hot, TRUE} : y = [x EXCEPT !.state = "DEGRADING", !.hot = h]
    BY <1>6 DEF injectScenario
  <2>2. h \in BOOLEAN
    BY <1>1, <2>1 DEF Machine
  <2> QED BY <2>1, <2>2 DEF Sound, Machine, States, Energised
<1>7. CASE s = "SCN-03"
  BY <1>7 DEF injectScenario, Sound, Machine, States, Energised
<1>8. CASE s = "SCN-06"
  BY <1>8 DEF injectScenario, Sound, Machine, States, Energised
<1>9. CASE s = "SCN-01"
  BY <1>9, MethodsSound DEF injectScenario
<1>10. CASE s \notin {"SCN-04", "TRIP_OVERLOAD", "TRIP_THERMAL", "TRIP_OVERCURRENT",
                     "TRIP_VIBRATION", "SCN-02", "SCN-03", "SCN-06", "SCN-01"}
  BY <1>10 DEF injectScenario
<1> QED BY <1>2, <1>3, <1>4, <1>5, <1>6, <1>7, <1>8, <1>9, <1>10

\* Every machine a command may produce is sound.
LEMMA EffectSound ==
    ASSUME NEW x, Sound(x), NEW c, NEW y \in Effect(x, c)
    PROVE  Sound(y)
<1>1. CASE Verdict(x, c) # "CMD_OK"
  BY <1>1 DEF Effect
<1>2. CASE Verdict(x, c) = "CMD_OK"
  <2>1. y \in {stop(x), start(x), reset(x)} \/ y \in injectScenario(x, c.scenario)
    BY <1>2 DEF Effect
  <2> QED BY <2>1, MethodsSound, ScenarioSound
<1> QED BY <1>1, <1>2

\* Measuring an energised machine keeps it sound.
LEMMA MeasuredSound ==
    ASSUME NEW x, Sound(x), x.state \in Energised, NEW r \in Reading
    PROVE  LET y == Measured(x, r) IN
           /\ Sound(y)
           /\ y.state = x.state /\ y.current = r.current
           /\ y.overload_active = x.overload_active
           /\ y.overload_start = x.overload_start
<1> DEFINE y == Measured(x, r)
<1>1. x \in Machine
  BY DEF Sound
<1>2. y \in Machine
  BY <1>1 DEF Measured, Machine, Reading
<1>3. /\ y.state = x.state /\ y.active_trip = x.active_trip /\ y.led = x.led
      /\ y.ramp = x.ramp /\ y.current = r.current
      /\ y.overload_active = x.overload_active /\ y.overload_start = x.overload_start
  BY <1>1 DEF Measured, Machine
<1> HIDE DEF y
<1>4. Sound(y)
  BY <1>2, <1>3 DEF Sound
<1> QED BY <1>3, <1>4 DEF y

\* The overload check keeps a machine sound.  One that survives it is timed if it is
\* overloaded: from this tick, or from a start that is not yet TripDelay ago.
LEMMA OverloadSound ==
    ASSUME NEW x, Sound(x), x.state \in Energised, NEW t \in Clock
    PROVE  LET y == CheckOverload(x, t) IN
           /\ Sound(y)
           /\ y.state = "TRIPPED" \/ y.state = x.state
           /\ y.state # "TRIPPED" /\ x.current # 0 =>
                /\ y.overload_active
                /\ \/ ~x.overload_active /\ y.overload_start = t
                   \/ /\ x.overload_active /\ y.overload_start = x.overload_start
                      /\ Since(t, x.overload_start) < TripDelay
<1> DEFINE y == CheckOverload(x, t)
<1>1. x \in Machine
  BY DEF Sound
<1>2. CASE x.current = 0
  <2>1. y = [x EXCEPT !.overload_active = FALSE]
    BY <1>2 DEF CheckOverload
  <2> HIDE DEF y
  <2>2. y \in Machine
    BY <1>1, <2>1 DEF Machine
  <2>3. /\ y.state = x.state /\ y.active_trip = x.active_trip /\ y.led = x.led
        /\ y.ramp = x.ramp /\ y.current = x.current
    BY <1>1, <2>1 DEF Machine
  <2>4. Sound(y)
    BY <2>2, <2>3 DEF Sound
  <2> QED BY <1>2, <2>3, <2>4 DEF y
<1>3. CASE x.current # 0 /\ ~x.overload_active
  <2>1. y = [x EXCEPT !.overload_active = TRUE, !.overload_start = t]
    BY <1>3 DEF CheckOverload
  <2> HIDE DEF y
  <2>2. y \in Machine
    BY <1>1, <2>1 DEF Machine
  <2>3. /\ y.state = x.state /\ y.active_trip = x.active_trip /\ y.led = x.led
        /\ y.ramp = x.ramp /\ y.current = x.current
        /\ y.overload_active = TRUE /\ y.overload_start = t
    BY <1>1, <2>1 DEF Machine
  <2>4. Sound(y)
    BY <2>2, <2>3 DEF Sound
  <2> QED BY <1>3, <2>3, <2>4 DEF y
<1>4. CASE x.current # 0 /\ x.overload_active /\ Since(t, x.overload_start) >= TripDelay
  <2>1. y = triggerTrip(x, "TRIP_OVERLOAD")
    BY <1>4 DEF CheckOverload
  <2>2. Sound(y) /\ y.state = "TRIPPED"
    BY <1>1, <2>1, TripSound DEF TripCodes
  <2> QED BY <2>2
<1>5. CASE x.current # 0 /\ x.overload_active /\ ~(Since(t, x.overload_start) >= TripDelay)
  <2>1. y = x
    BY <1>5 DEF CheckOverload
  <2>2. Since(t, x.overload_start) \in Clock
    BY <1>1, SinceWraps DEF Machine
  <2>3. Since(t, x.overload_start) < TripDelay
    BY <1>5, <2>2 DEF Clock
  <2> QED BY <1>5, <2>1, <2>3
<1> QED BY <1>2, <1>3, <1>4, <1>5

\* The limits keep a machine sound, and one they do not trip is in a safe condition.
LEMMA LimitsSound ==
    ASSUME NEW x, Sound(x)
    PROVE  LET y == CheckLimits(x) IN
           /\ Sound(y)
           /\ y.state = "TRIPPED" \/ (y = x /\ isConditionSafe(x))
<1> DEFINE y == CheckLimits(x)
<1>1. x \in Machine
  BY DEF Sound
<1>2. CASE isTripped(x)
  BY <1>2 DEF CheckLimits, isTripped
<1>3. CASE y \in {triggerTrip(x, code) : code \in TripCodes}
  BY <1>1, <1>3, TripSound
<1>4. CASE ~isTripped(x) /\ ~x.hot /\ x.current # 2 /\ ~x.shaking
  <2>1. x.current < 2
    BY <1>1, <1>4 DEF Machine
  <2> QED BY <1>4, <2>1 DEF CheckLimits, isConditionSafe
<1>5. \/ isTripped(x) \/ y \in {triggerTrip(x, code) : code \in TripCodes}
      \/ ~isTripped(x) /\ ~x.hot /\ x.current # 2 /\ ~x.shaking
  BY DEF CheckLimits, TripCodes
<1> QED BY <1>2, <1>3, <1>4, <1>5

-----------------------------------------------------------------------------
(* The branches of update *)

\* At rest: sound, de-energised and in the same state.
LEMMA AtRestSound ==
    ASSUME NEW x, Sound(x), x.state \in {"TRIPPED", "STOPPED"}, NEW r \in Reading
    PROVE  Sound(AtRest(x, r)) /\ AtRest(x, r).state = x.state
<1> DEFINE y == AtRest(x, r)
<1>1. x \in Machine
  BY DEF Sound
<1>2. y \in Machine
  <2>1. 0 \in 0 .. 2 /\ 0 \in 0 .. RampTicks
    OBVIOUS
  <2> QED BY <1>1, <2>1 DEF AtRest, Machine, Reading
<1>3. /\ y.state = x.state /\ y.active_trip = x.active_trip /\ y.led = x.led
      /\ y.ramp = 0 /\ y.current = 0
  BY <1>1 DEF AtRest, Machine
<1> HIDE DEF y
<1>4. Sound(y)
  BY <1>2, <1>3 DEF Sound, Energised
<1> QED BY <1>3, <1>4 DEF y

\* One step of the ramp: sound, and either still starting or running.
LEMMA RampSound ==
    ASSUME NEW x, Sound(x), x.state = "STARTING", NEW r \in Reading
    PROVE  LET y == RampUp(x, r) IN
           /\ Sound(y)
           /\ y.state \in {"STARTING", "RUNNING"}
           /\ y.ramp = x.ramp + 1 /\ y.ramp <= RampTicks
<1> DEFINE y == RampUp(x, r)
           s == IF x.ramp + 1 = RampTicks THEN "RUNNING" ELSE "STARTING"
<1>1. x \in Machine /\ x.ramp \in 0 .. RampTicks /\ x.ramp < RampTicks /\ ~x.led
  BY DEF Sound, Machine
<1>2. s \in {"RUNNING", "STARTING"} /\ (s = "STARTING" => x.ramp + 1 # RampTicks)
  OBVIOUS
<1>3. x.ramp + 1 \in 0 .. RampTicks
  BY <1>1
<1>4. y = [x EXCEPT !.hot = r.hot, !.current = 0, !.shaking = FALSE, !.ramp = x.ramp + 1,
                    !.state = s]
  BY DEF RampUp
<1> HIDE DEF s, y
<1>5. y \in Machine
  <2>1. 0 \in 0 .. 2 /\ s \in States
    BY <1>2 DEF States
  <2> QED BY <1>1, <1>3, <1>4, <2>1 DEF Machine, Reading
<1>6. /\ y.state = s /\ y.active_trip = x.active_trip /\ y.led = x.led
      /\ y.ramp = x.ramp + 1 /\ y.current = 0
  BY <1>1, <1>4 DEF Machine
<1>7. y.state = "STARTING" => y.ramp < RampTicks
  BY <1>1, <1>2, <1>6
<1>8. Sound(y)
  BY <1>1, <1>2, <1>5, <1>6, <1>7 DEF Sound, Energised
<1> QED BY <1>1, <1>2, <1>6, <1>8 DEF y

\* An energised tick: sound, and not tripped only if the condition is safe and any
\* overload is timed.
LEMMA EnergisedSound ==
    ASSUME NEW x, Sound(x), x.state \in Energised, NEW r \in Reading, NEW t \in Clock
    PROVE  LET y == update(x, r, t) IN
           /\ Sound(y)
           /\ \/ y.state = "TRIPPED"
              \/ /\ y.state = x.state /\ isConditionSafe(y)
                 /\ r.current > 0 =>
                      /\ y.overload_active
                      /\ \/ ~x.overload_active /\ y.overload_start = t
                         \/ /\ x.overload_active /\ y.overload_start = x.overload_start
                            /\ Since(t, x.overload_start) < TripDelay
<1> DEFINE a == Measured(x, r)
           b == CheckOverload(a, t)
           y == CheckLimits(b)
<1>1. /\ Sound(a) /\ a.state = x.state /\ a.current = r.current
      /\ a.overload_active = x.overload_active /\ a.overload_start = x.overload_start
  BY MeasuredSound
<1> HIDE DEF a
<1>2. /\ Sound(b)
      /\ b.state = "TRIPPED" \/ b.state = a.state
      /\ b.state # "TRIPPED" /\ a.current # 0 =>
           /\ b.overload_active
           /\ \/ ~a.overload_active /\ b.overload_start = t
              \/ /\ a.overload_active /\ b.overload_start = a.overload_start
                 /\ Since(t, a.overload_start) < TripDelay
  BY <1>1, OverloadSound
<1> HIDE DEF b
<1>3. Sound(y) /\ (y.state = "TRIPPED" \/ (y = b /\ isConditionSafe(b)))
  BY <1>2, LimitsSound
<1> HIDE DEF y
<1>4. r.current > 0 => a.current # 0
  BY <1>1 DEF Reading
<1>5. update(x, r, t) = y
  BY DEF update, Energised, y, b, a
<1> QED BY <1>1, <1>2, <1>3, <1>4, <1>5

\* process answers with one of the codes of command.h.
LEMMA VerdictCode ==
    ASSUME NEW x, NEW c
    PROVE  Verdict(x, c) \in ReplyCodes
BY DEF Verdict, ReplyCodes

-----------------------------------------------------------------------------
(* Inductiveness *)

\* The booted edge satisfies the invariant.
LEMMA InitIInv == Init => IInv
<1> SUFFICES ASSUME Init PROVE IInv
  OBVIOUS
<1>1. Sound(m)
  BY NominalSound DEF Init
<1>2. m.state = "RUNNING"
  BY DEF Init, Nominal
<1>3. TypeOK
  <2>1. m \in Machine
    BY <1>1 DEF Sound
  <2>2. now \in Clock
    <3>1. now = 0
      BY DEF Init
    <3> QED BY <3>1 DEF Clock
  <2>3. reply \in ReplyCodes
    BY DEF Init, ReplyCodes
  <2>4. latched \in BOOLEAN
    BY DEF Init
  <2>5. overRun \in -1 .. TripDelay /\ hazardTicks \in 0 .. RampTicks + 1
    BY DEF Init
  <2> QED BY <2>1, <2>2, <2>3, <2>4, <2>5 DEF TypeOK
<1>4. OverloadTimed /\ HazardTimed
  BY <1>2 DEF Init, OverloadTimed, HazardTimed, Turning, Energised
<1> QED BY <1>1, <1>3, <1>4 DEF IInv

\* A tick preserves the invariant: the case where update trips, times the overload or
\* finds the condition safe is the one where the machine is energised.
LEMMA TickIInv == IInv /\ Tick => IInv'
<1> SUFFICES ASSUME IInv, Tick PROVE IInv'
  OBVIOUS
<1> USE DEF IInv
<1>1. PICK r \in Reading, gap \in 1 .. MaxGap :
        /\ now' = After(now, gap)
        /\ m' = update(m, r, After(now, gap))
        /\ overRun' = IF m.state \in Energised /\ r.current > 0
                      THEN IF overRun = -1 THEN 0 ELSE Capped(overRun + gap, TripDelay)
                      ELSE -1
  BY DEF Tick
<1>2. /\ reply' = "TICK"
      /\ latched' = (latched \/ isTripped(m'))
      /\ hazardTicks' = IF m'.state \in Turning /\ ~isConditionSafe(m')
                        THEN Capped(hazardTicks + 1, RampTicks + 1) ELSE 0
  BY DEF Tick
<1>3. m \in Machine /\ now \in Clock /\ overRun \in -1 .. TripDelay
      /\ hazardTicks \in 0 .. RampTicks + 1 /\ latched \in BOOLEAN
  BY DEF TypeOK
<1>4. now' \in Clock /\ After(now, gap) \in Clock
  BY <1>1, <1>3, AfterWraps
<1>5. overRun' \in -1 .. TripDelay
  BY <1>1, <1>3 DEF Capped
<1>6. hazardTicks' \in 0 .. RampTicks + 1
  BY <1>2, <1>3 DEF Capped
<1>7. latched' \in BOOLEAN /\ reply' \in ReplyCodes
  BY <1>2, <1>3 DEF isTripped, ReplyCodes
<1>8. m.state \in States
  BY <1>3 DEF Machine
<1>9. Sound(m') /\ OverloadTimed' /\ HazardTimed' => IInv'
  BY <1>4, <1>5, <1>6, <1>7 DEF TypeOK, Sound
<1>10. CASE m.state \in {"TRIPPED", "STOPPED"}
  <2>1. m' = AtRest(m, r)
    BY <1>1, <1>10 DEF update
  <2>2. Sound(m') /\ m'.state = m.state
    BY <1>10, <2>1, AtRestSound
  <2>3. m'.state \notin Turning /\ m'.state \notin Energised /\ m'.state # "STARTING"
    BY <1>10, <2>2 DEF Turning, Energised
  <2>4. hazardTicks' = 0
    BY <1>2, <2>3
  <2>5. OverloadTimed' /\ HazardTimed'
    BY <2>3, <2>4 DEF OverloadTimed, HazardTimed
  <2> QED BY <1>9, <2>2, <2>5
<1>11. CASE m.state = "STARTING"
  <2>1. m' = RampUp(m, r)
    BY <1>1, <1>11 DEF update
  <2>2. /\ Sound(m') /\ m'.state \in {"STARTING", "RUNNING"}
        /\ m'.ramp = m.ramp + 1 /\ m'.ramp <= RampTicks
    BY <1>11, <2>1, RampSound
  <2>3. overRun' = -1
    BY <1>1, <1>11 DEF Energised
  <2>4. hazardTicks <= m.ramp /\ m.ramp \in 0 .. RampTicks
    BY <1>3, <1>11 DEF HazardTimed, Machine
  <2>5. hazardTicks' <= m.ramp + 1
    BY <1>2, <1>3, <2>4 DEF Capped
  <2>6. OverloadTimed'
    BY <2>3 DEF OverloadTimed
  <2>7. HazardTimed'
    BY <1>6, <2>2, <2>4, <2>5 DEF HazardTimed, Turning, Energised
  <2> QED BY <1>9, <2>2, <2>6, <2>7
<1>12. CASE m.state \in Energised
  <2> DEFINE t == After(now, gap)
  <2>1. /\ Sound(m')
        /\ \/ m'.state = "TRIPPED"
           \/ /\ m'.state = m.state /\ isConditionSafe(m')
              /\ r.current > 0 =>
                   /\ m'.overload_active
                   /\ \/ ~m.overload_active /\ m'.overload_start = t
                      \/ /\ m.overload_active /\ m'.overload_start = m.overload_start
                         /\ Since(t, m.overload_start) < TripDelay
    BY <1>1, <1>4, <1>12, EnergisedSound
  <2>2. hazardTicks' = 0
    <3>1. "TRIPPED" \notin Turning
      BY DEF Turning, Energised
    <3> QED BY <1>2, <2>1, <3>1
  <2>3. HazardTimed'
    <3>1. m'.state = "STARTING" => FALSE
      BY <1>12, <2>1 DEF Energised
    <3> QED BY <2>2, <3>1 DEF HazardTimed
  <2>4. OverloadTimed'
    <3>1. SUFFICES ASSUME m'.state \in Energised, overRun' >= 0
                   PROVE  /\ m'.overload_active
                          /\ overRun' <= Since(now', m'.overload_start)
                          /\ Since(now', m'.overload_start) < TripDelay
      BY DEF OverloadTimed
    <3>2. r.current > 0
      BY <1>1, <3>1
    <3>3. m'.state # "TRIPPED"
      BY <3>1 DEF Energised
    <3>4. m'.overload_active
      BY <2>1, <3>2, <3>3
    <3>5. overRun' = IF overRun = -1 THEN 0 ELSE Capped(overRun + gap, TripDelay)
      BY <1>1, <1>12, <3>2
    <3>6. CASE overRun = -1
      <4>1. overRun' = 0
        BY <3>5, <3>6
      <4>2. m'.overload_start \in Clock
        BY <2>1 DEF Sound, Machine
      <4>3. Since(t, m'.overload_start) \in Clock
        BY <1>4, <4>2, SinceWraps
      <4>4. ASSUME m'.overload_start = t PROVE Since(t, m'.overload_start) = 0
        BY <1>4, <4>4, SinceWraps DEF Clock
      <4>5. Since(t, m'.overload_start) < TripDelay
        BY <2>1, <3>2, <3>3, <4>4
      <4> QED BY <1>1, <3>4, <4>1, <4>3, <4>5 DEF Clock
    <3>7. CASE overRun # -1
      <4>1. overRun >= 0
        BY <1>3, <3>7
      <4>2. /\ m.overload_active
            /\ overRun <= Since(now, m.overload_start)
            /\ Since(now, m.overload_start) < TripDelay
        BY <1>12, <4>1 DEF OverloadTimed
      <4>3. m'.overload_start = m.overload_start /\ Since(t, m.overload_start) < TripDelay
        BY <2>1, <3>2, <3>3, <4>2
      <4>4. m.overload_start \in Clock
        BY <1>3 DEF Machine
      <4>5. Since(t, m.overload_start) = Since(now, m.overload_start) + gap
        BY <1>3, <4>2, <4>4, SinceGrows
      <4>6. Since(now, m.overload_start) \in Clock
        BY <1>3, <4>4, SinceWraps
      <4>7. overRun' <= overRun + gap
        BY <1>3, <3>5, <3>7 DEF Capped
      <4>8. overRun' <= Since(t, m.overload_start)
        BY <1>3, <1>5, <4>2, <4>5, <4>6, <4>7 DEF Clock
      <4> QED BY <1>1, <3>4, <4>3, <4>8
    <3> QED BY <3>6, <3>7
  <2> QED BY <1>9, <2>1, <2>3, <2>4
<1> QED BY <1>8, <1>10, <1>11, <1>12 DEF States, Energised

\* How a method may change a machine's state: what matters to the two timed invariants.
LEMMA EffectState ==
    ASSUME NEW x, Sound(x), NEW c, NEW y \in Effect(x, c)
    PROVE  /\ y.state \in Energised /\ y.current # 0 =>
                /\ x.state \in Energised
                /\ y.overload_active = x.overload_active
                /\ y.overload_start = x.overload_start
           /\ y.state = "STARTING" =>
                \/ x.state = "STOPPED"
                \/ x.state = "STARTING" /\ y.ramp = x.ramp
<1> DEFINE Keeps(z) ==
      /\ z.state \in Energised /\ z.current # 0 =>
           /\ x.state \in Energised
           /\ z.overload_active = x.overload_active
           /\ z.overload_start = x.overload_start
      /\ z.state = "STARTING" =>
           \/ x.state = "STOPPED"
           \/ x.state = "STARTING" /\ z.ramp = x.ramp
<1>1. x \in Machine /\ (x.state \notin Energised => x.current = 0)
  BY DEF Sound
<1>2. Keeps(x)
  BY <1>1
<1>3. Keeps(stop(x))
  BY <1>1 DEF stop, Machine, Energised
<1>4. Keeps(start(x))
  <2>1. CASE x.state = "STOPPED"
    BY <1>1, <2>1 DEF start, Machine, Energised
  <2>2. CASE x.state # "STOPPED"
    BY <1>2, <2>2 DEF start
  <2> QED BY <2>1, <2>2
<1>5. Keeps(Nominal)
  BY DEF Nominal, Energised
<1>6. Keeps(reset(x))
  BY <1>2, <1>5 DEF reset
<1>7. ASSUME NEW z \in Machine, NEW code \in TripCodes PROVE Keeps(triggerTrip(z, code))
  BY <1>7, TripSound DEF Energised
<1>8. ASSUME NEW s, NEW z \in injectScenario(x, s) PROVE Keeps(z)
  <2>1. /\ [x EXCEPT !.hot = TRUE] \in Machine
        /\ [x EXCEPT !.shaking = TRUE] \in Machine
    BY <1>1 DEF Machine
  <2>2. CASE s \in {"SCN-04", "TRIP_OVERLOAD", "TRIP_THERMAL", "TRIP_OVERCURRENT",
                    "TRIP_VIBRATION"}
    BY <1>1, <1>7, <1>8, <2>1, <2>2 DEF injectScenario, TripCodes
  <2>3. CASE s = "SCN-02"
    <3>1. PICK h \in {x.hot, TRUE} : z = [x EXCEPT !.state = "DEGRADING", !.hot = h]
      BY <1>8, <2>3 DEF injectScenario
    <3> QED BY <1>1, <3>1 DEF Machine, Energised
  <2>4. CASE s \in {"SCN-03", "SCN-06"}
    BY <1>1, <1>8, <2>4 DEF injectScenario, Machine, Energised
  <2>5. CASE s = "SCN-01"
    BY <1>6, <1>8, <2>5 DEF injectScenario
  <2>6. CASE s \notin {"SCN-04", "TRIP_OVERLOAD", "TRIP_THERMAL", "TRIP_OVERCURRENT",
                       "TRIP_VIBRATION", "SCN-02", "SCN-03", "SCN-06", "SCN-01"}
    BY <1>2, <1>8, <2>6 DEF injectScenario
  <2> QED BY <2>2, <2>3, <2>4, <2>5, <2>6
<1>9. Keeps(y)
  <2>1. y \in {x, stop(x), start(x), reset(x)} \/ y \in injectScenario(x, c.scenario)
    BY DEF Effect
  <2> QED BY <1>2, <1>3, <1>4, <1>6, <1>8, <2>1
<1> QED BY <1>9

\* A command preserves the invariant.
LEMMA MessageIInv == IInv /\ OnMessage => IInv'
<1> SUFFICES ASSUME IInv, OnMessage PROVE IInv'
  OBVIOUS
<1> USE DEF IInv
<1>1. PICK c \in Commands : reply' = Verdict(m, c) /\ m' \in Effect(m, c)
                            /\ latched' \in BOOLEAN
  BY DEF OnMessage, TypeOK, isTripped
<1>2. /\ overRun' = IF m'.current = 0 THEN -1 ELSE overRun
      /\ hazardTicks' = IF m'.state \in Turning THEN hazardTicks ELSE 0
      /\ now' = now
  BY DEF OnMessage
<1>3. Sound(m')
  BY <1>1, EffectSound
<1>4. /\ m'.state \in Energised /\ m'.current # 0 =>
           /\ m.state \in Energised
           /\ m'.overload_active = m.overload_active
           /\ m'.overload_start = m.overload_start
      /\ m'.state = "STARTING" =>
           \/ m.state = "STOPPED"
           \/ m.state = "STARTING" /\ m'.ramp = m.ramp
  BY <1>1, EffectState
<1>5. TypeOK'
  <2>1. m' \in Machine
    BY <1>3 DEF Sound
  <2>2. reply' \in ReplyCodes
    BY <1>1, VerdictCode
  <2>3. /\ now' \in Clock /\ overRun' \in -1 .. TripDelay
        /\ hazardTicks' \in 0 .. RampTicks + 1
    BY <1>2 DEF TypeOK
  <2> QED BY <1>1, <2>1, <2>2, <2>3 DEF TypeOK
<1>6. OverloadTimed'
  BY <1>2, <1>4 DEF OverloadTimed
<1>7. HazardTimed'
  <2>1. m'.ramp \in 0 .. RampTicks
    BY <1>3 DEF Sound, Machine
  <2>2. "STOPPED" \notin Turning
    BY DEF Turning, Energised
  <2>3. m'.state = "STARTING" => hazardTicks' <= m'.ramp
    BY <1>2, <1>4, <2>1, <2>2 DEF HazardTimed
  <2> QED BY <1>2, <2>3 DEF HazardTimed
<1> QED BY <1>3, <1>5, <1>6, <1>7

\* Every step preserves the invariant.
LEMMA NextIInv == IInv /\ [Next]_vars => IInv'
<1> SUFFICES ASSUME IInv, [Next]_vars PROVE IInv'
  OBVIOUS
<1>1. CASE Tick
  BY <1>1, TickIInv
<1>2. CASE OnMessage
  BY <1>2, MessageIInv
<1>3. CASE Reboot
  <2>1. /\ m' = Nominal /\ now' = 0 /\ reply' = "BOOT"
        /\ latched' = FALSE /\ overRun' = -1 /\ hazardTicks' = 0
    BY <1>3 DEF Reboot
  <2>2. Sound(m') /\ m'.state = "RUNNING"
    BY <2>1, NominalSound DEF Nominal
  <2>3. m' \in Machine
    BY <2>2 DEF Sound
  <2>4. now' \in Clock
    BY <2>1 DEF Clock
  <2>5. reply' \in ReplyCodes /\ latched' \in BOOLEAN
    BY <2>1 DEF ReplyCodes
  <2>6. overRun' \in -1 .. TripDelay /\ hazardTicks' \in 0 .. RampTicks + 1
    BY <2>1
  <2>7. OverloadTimed' /\ HazardTimed'
    BY <2>1, <2>2 DEF OverloadTimed, HazardTimed, Turning, Energised
  <2> QED BY <2>2, <2>3, <2>4, <2>5, <2>6, <2>7 DEF IInv, TypeOK
<1>4. CASE UNCHANGED vars
  BY <1>4 DEF vars, IInv, TypeOK, Sound, OverloadTimed, HazardTimed, Machine
<1> QED BY <1>1, <1>2, <1>3, <1>4 DEF Next

-----------------------------------------------------------------------------
(* Theorems *)

\* The machine, the clock and the histories keep their types: update never writes a
\* state, a trip code or a ramp that the class does not have.
THEOREM EdgeTypeCorrect == Spec => []TypeOK
<1>1. IInv => TypeOK
  BY DEF IInv
<1> QED BY <1>1, InitIInv, NextIInv, PTL DEF Spec

\* Whatever is commanded and measured, the trip lamp and the trip code agree.
THEOREM EdgeTripAnnounced == Spec => []TripAnnounced
<1>1. IInv => TripAnnounced
  BY DEF IInv, Sound, TripAnnounced, isTripped
<1> QED BY <1>1, InitIInv, NextIInv, PTL DEF Spec

\* No energised machine has been overloaded for the trip delay, for every delay and
\* every clock that wraps, if a gap between ticks and the delay fit in the clock.
THEOREM EdgeTripsOverloadInTime == Spec => []OverloadNeverOutlastsDelay
<1>1. IInv => OverloadNeverOutlastsDelay
  <2> SUFFICES ASSUME IInv, m.state \in Energised PROVE overRun < TripDelay
    BY DEF OverloadNeverOutlastsDelay
  <2>1. m.overload_start \in Clock /\ now \in Clock /\ overRun \in -1 .. TripDelay
    BY DEF IInv, TypeOK, Machine
  <2>2. Since(now, m.overload_start) \in Clock
    BY <2>1, SinceWraps
  <2>3. CASE overRun >= 0
    BY <2>1, <2>2, <2>3 DEF IInv, OverloadTimed, Clock
  <2>4. CASE overRun < 0
    BY <2>1, <2>4
  <2> QED BY <2>1, <2>3, <2>4
<1> QED BY <1>1, InitIInv, NextIInv, PTL DEF Spec

\* However long a ramp is, no unsafe condition is carried by a turning machine for more
\* ticks than the ramp has.
THEOREM EdgeTripsHazards == Spec => []HazardBounded
<1>1. IInv => HazardBounded
  BY DEF IInv, HazardTimed, HazardBounded
<1> QED BY <1>1, InitIInv, NextIInv, PTL DEF Spec

\* No command takes a tripped machine to RUNNING in an unsafe condition, nor does a
\* tick take it there at all.
LEMMA ResetStep ==
    IInv /\ [Next]_vars =>
        (isTripped(m) /\ m'.state = "RUNNING" /\ reply' # "BOOT" => isConditionSafe(m))
<1> SUFFICES ASSUME IInv, [Next]_vars, isTripped(m), m'.state = "RUNNING", reply' # "BOOT"
             PROVE  isConditionSafe(m)
  OBVIOUS
<1>1. m \in Machine /\ m.state = "TRIPPED" /\ Sound(m)
  BY DEF IInv, Sound, isTripped
<1>2. CASE Tick
  <2>1. PICK r \in Reading, gap \in 1 .. MaxGap : m' = update(m, r, After(now, gap))
    BY <1>2 DEF Tick
  <2>2. m' = AtRest(m, r)
    BY <1>1, <2>1 DEF update
  <2>3. m'.state = "TRIPPED"
    BY <1>1, <2>2, AtRestSound
  <2> QED BY <2>3
<1>3. CASE OnMessage
  <2>1. PICK c \in Commands : m' \in Effect(m, c)
    BY <1>3 DEF OnMessage
  <2>2. m' = reset(m)
    <3>1. m' \in {m, stop(m), start(m), reset(m)} \/ m' \in injectScenario(m, c.scenario)
      BY <2>1 DEF Effect
    <3>2. m' # m /\ m' # stop(m) /\ m' # start(m)
      BY <1>1 DEF stop, start, Machine
    <3>3. ASSUME m' \in injectScenario(m, c.scenario) PROVE m' = reset(m)
      <4>1. /\ [m EXCEPT !.hot = TRUE] \in Machine
            /\ [m EXCEPT !.shaking = TRUE] \in Machine
        BY <1>1 DEF Machine
      <4>2. m' \notin {triggerTrip(z, code) : z \in Machine, code \in TripCodes}
        BY TripSound
      <4>3. m' \notin {[m EXCEPT !.state = "DEGRADING", !.hot = h] : h \in {m.hot, TRUE}}
        BY <1>1 DEF Machine
      <4>4. /\ m' # [m EXCEPT !.state = "DEGRADING"]
            /\ m' # [m EXCEPT !.state = "DEGRADING", !.shaking = FALSE]
        BY <1>1 DEF Machine
      <4> QED BY <1>1, <3>2, <3>3, <4>1, <4>2, <4>3, <4>4 DEF injectScenario, TripCodes
    <3> QED BY <3>1, <3>2, <3>3
  <2>3. m' # m
    BY <1>1
  <2> QED BY <2>2, <2>3 DEF reset
<1>4. CASE Reboot
  BY <1>4 DEF Reboot
<1>5. CASE UNCHANGED vars
  BY <1>1, <1>5 DEF vars
<1> QED BY <1>2, <1>3, <1>4, <1>5 DEF Next

\* RESET and SCN-01 honour the condition that tripped the machine, for every sequence
\* of commands and measurements.
THEOREM EdgeResetOnlyWhenSafe == Spec => ResetOnlyWhenSafe
BY InitIInv, NextIInv, ResetStep, PTL DEF Spec, ResetOnlyWhenSafe
=============================================================================
