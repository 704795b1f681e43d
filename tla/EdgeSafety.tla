----------------------------- MODULE EdgeSafety -----------------------------
(***************************************************************************)
(* The safety core of the ESP32 firmware: EdgeProcessModel (the machine's  *)
(* operating state, its safety trips and the trip lamp) driven by the 1 Hz *)
(* tick of loop() and by the commands EdgeCommandProcessor accepts.        *)
(*                                                                         *)
(* A method of the class is an operator from a machine to a machine, so    *)
(* that a command composes the calls the code composes.  Physical values   *)
(* are kept to what the trip rules compare them with: whether the process  *)
(* is more than 45 C above the air (hot), the band of the current          *)
(* (0: below 32 A, 1: 32..45 A, 2: above 45 A) and whether the vibration   *)
(* exceeds 15 mm/s (shaking).  What a tick measures is an input.  Time is  *)
(* counted in seconds on a clock that wraps, as millis() does.             *)
(***************************************************************************)
EXTENDS Integers

CONSTANTS
    TripDelay,  \* OVERLOAD_TRIP_DELAY_MS
    ClockSpan,  \* millis() counts modulo this (2^32 ms)
    MaxGap,     \* the longest time between two ticks of loop()
    RampTicks,  \* ticks a start takes to reach 1400 rpm (5, at 1548/5 rpm each)
    Commands    \* the command messages considered, a subset of Command

ASSUME TimeAssumption ==
    /\ TripDelay \in Nat \ {0} /\ MaxGap \in Nat \ {0} /\ RampTicks \in Nat \ {0}
    /\ ClockSpan \in Nat /\ TripDelay + MaxGap <= ClockSpan

VARIABLES
    m,          \* the EdgeProcessModel
    now,        \* millis()
    reply,      \* the last event: "BOOT", "TICK", or the code of a command's result
    latched,    \* history: the machine tripped and no reset has been accepted since
    overRun,    \* history: for how long every sample has been at 32 A or more; -1 if the last was not
    hazardTicks \* history: for how many ticks in a row the machine turned in an unsafe condition

vars == <<m, now, reply, latched, overRun, hazardTicks>>

-----------------------------------------------------------------------------
States    == {"STOPPED", "STARTING", "RUNNING", "DEGRADING", "TRIPPED"}
TripCodes == {"TRIP_OVERLOAD", "TRIP_THERMAL", "TRIP_OVERCURRENT", "TRIP_VIBRATION"}
NoTrip    == "NONE"
Scenarios == {"SCN-01", "SCN-02", "SCN-03", "SCN-04", "SCN-05", "SCN-06", "SCN-07", "SCN-08"}
               \cup TripCodes
Energised == {"RUNNING", "DEGRADING"}
Turning   == Energised \cup {"STARTING"}

Clock == 0 .. ClockSpan - 1
After(t, gap)   == (t + gap) % ClockSpan
Since(t, start) == (t - start) % ClockSpan

Machine ==
    [state : States, active_trip : TripCodes \cup {NoTrip}, led : BOOLEAN,
     hot : BOOLEAN, current : 0 .. 2, shaking : BOOLEAN, ramp : 0 .. RampTicks,
     overload_active : BOOLEAN, overload_start : Clock]

\* What a tick measures once the machine is energised.
Reading == [hot : BOOLEAN, current : 0 .. 2, shaking : BOOLEAN]

\* A command message: whether its text gets past the structural checks, its command
\* field, the machine it names ("" if none) and its scenario or trip code ("" if none).
Command ==
    [form     : {"empty", "forbidden", "no_braces", "parse_error", "json"},
     command  : {"", "STOP", "START", "RESET", "SCENARIO", "INJECT_FAULT", "OTHER"},
     target   : {"", "local", "foreign"},
     scenario : Scenarios \cup {"", "OTHER"}]

-----------------------------------------------------------------------------
(* EdgeProcessModel *)

isTripped(x) == x.state = "TRIPPED"

isConditionSafe(x) == ~x.hot /\ x.current < 2 /\ ~x.shaking

\* The machine reset() establishes.
Nominal ==
    [state |-> "RUNNING", active_trip |-> NoTrip, led |-> FALSE,
     hot |-> FALSE, current |-> 0, shaking |-> FALSE, ramp |-> RampTicks,
     overload_active |-> FALSE, overload_start |-> 0]

\* Mutant: reset relies on its caller to have checked the condition.
ResetUnchecked(x) == Nominal

reset(x) == IF isTripped(x) /\ ~isConditionSafe(x) THEN x ELSE Nominal

\* Mutant: a start leaves the lamp of the last trip burning.
StartKeepsLamp(x) ==
    IF x.state = "STOPPED"
    THEN [x EXCEPT !.state = "STARTING", !.active_trip = NoTrip]
    ELSE x

start(x) ==
    IF x.state = "STOPPED"
    THEN [x EXCEPT !.state = "STARTING", !.active_trip = NoTrip, !.led = FALSE]
    ELSE x

stop(x) == [x EXCEPT !.state = "STOPPED", !.ramp = 0, !.current = 0]

triggerTrip(x, code) ==
    [x EXCEPT !.state = "TRIPPED", !.active_trip = code, !.led = TRUE,
              !.ramp = 0, !.current = 0]

\* injectScenario: the machines it may produce.  SCN-02 heats the process by 15 C,
\* which may or may not cross the limit; SCN-05, -07 and -08 change nothing kept here.
injectScenario(x, s) ==
    CASE s \in {"SCN-04", "TRIP_OVERLOAD"} -> {triggerTrip(x, "TRIP_OVERLOAD")}
      [] s = "TRIP_THERMAL"     -> {triggerTrip([x EXCEPT !.hot = TRUE], s)}
      [] s = "TRIP_OVERCURRENT" -> {triggerTrip(x, s)}
      [] s = "TRIP_VIBRATION"   -> {triggerTrip([x EXCEPT !.shaking = TRUE], s)}
      [] s = "SCN-02" -> {[x EXCEPT !.state = "DEGRADING", !.hot = h] : h \in {x.hot, TRUE}}
      [] s = "SCN-03" -> {[x EXCEPT !.state = "DEGRADING"]}
      [] s = "SCN-06" -> {[x EXCEPT !.state = "DEGRADING", !.shaking = FALSE]}
      [] s = "SCN-01" -> {reset(x)}
      [] OTHER        -> {x}

\* Mutant: the deadline is compared with the raw clock, which wraps.
OverloadOnRawClock(x, t) ==
    IF x.current = 0 THEN [x EXCEPT !.overload_active = FALSE]
    ELSE IF ~x.overload_active
         THEN [x EXCEPT !.overload_active = TRUE, !.overload_start = t]
    ELSE IF t >= x.overload_start + TripDelay THEN triggerTrip(x, "TRIP_OVERLOAD")
    ELSE x

\* update, step 1 of the trip evaluation: 32 A or more for TripDelay.
CheckOverload(x, t) ==
    IF x.current = 0 THEN [x EXCEPT !.overload_active = FALSE]
    ELSE IF ~x.overload_active
         THEN [x EXCEPT !.overload_active = TRUE, !.overload_start = t]
    ELSE IF Since(t, x.overload_start) >= TripDelay
         THEN triggerTrip(x, "TRIP_OVERLOAD")
    ELSE x

\* Mutant: the limits are the else branch of the overload check.
LimitsOnlyBelowOverload(x) ==
    IF isTripped(x) \/ x.overload_active THEN x
    ELSE IF x.hot         THEN triggerTrip(x, "TRIP_THERMAL")
    ELSE IF x.current = 2 THEN triggerTrip(x, "TRIP_OVERCURRENT")
    ELSE IF x.shaking     THEN triggerTrip(x, "TRIP_VIBRATION")
    ELSE x

\* update, step 2: the limits that trip at once, the first one exceeded naming the trip.
CheckLimits(x) ==
    IF isTripped(x)       THEN x
    ELSE IF x.hot         THEN triggerTrip(x, "TRIP_THERMAL")
    ELSE IF x.current = 2 THEN triggerTrip(x, "TRIP_OVERCURRENT")
    ELSE IF x.shaking     THEN triggerTrip(x, "TRIP_VIBRATION")
    ELSE x

\* De-energised, and still hot or not as the air and the slow cooling decide.
AtRest(x, r) == [x EXCEPT !.hot = r.hot, !.current = 0, !.shaking = FALSE, !.ramp = 0]

\* Mutant: the ramp ends when the speed is above the target, not at it.
RampUpOneMore(x, r) ==
    [x EXCEPT !.hot = r.hot, !.current = 0, !.shaking = FALSE, !.ramp = x.ramp + 1,
              !.state = IF x.ramp + 1 > RampTicks THEN "RUNNING" ELSE "STARTING"]

\* One step of the ramp: 26.4 A of inrush current, no trip evaluation.
RampUp(x, r) ==
    [x EXCEPT !.hot = r.hot, !.current = 0, !.shaking = FALSE, !.ramp = x.ramp + 1,
              !.state = IF x.ramp + 1 = RampTicks THEN "RUNNING" ELSE "STARTING"]

Measured(x, r) == [x EXCEPT !.hot = r.hot, !.current = r.current, !.shaking = r.shaking]

update(x, r, t) ==
    IF x.state \in {"TRIPPED", "STOPPED"} THEN AtRest(x, r)
    ELSE IF x.state = "STARTING"          THEN RampUp(x, r)
    ELSE CheckLimits(CheckOverload(Measured(x, r), t))

-----------------------------------------------------------------------------
(* EdgeCommandProcessor.process *)

NeedsScenario == {"SCENARIO", "INJECT_FAULT"}

Verdict(x, c) ==
    CASE c.form = "forbidden"                           -> "CMD_ERR_UNSAFE_INJECTION"
      [] c.form \in {"empty", "no_braces", "parse_error"} -> "CMD_ERR_MALFORMED_JSON"
      [] c.form = "json" /\ c.command = ""              -> "CMD_ERR_INVALID_SCHEMA"
      [] c.form = "json" /\ c.command # "" /\ c.target = "foreign"
                                                        -> "CMD_ERR_MACHINE_MISMATCH"
      [] OTHER ->
           CASE c.command = "START" /\ isTripped(x)     -> "CMD_ERR_TRIP_LATCHED"
             [] c.command = "RESET" /\ isTripped(x) /\ ~isConditionSafe(x)
                                                        -> "CMD_ERR_TRIP_LATCHED"
             [] c.command \in NeedsScenario /\ c.scenario = ""
                                                        -> "CMD_ERR_INVALID_SCHEMA"
             [] c.command \in NeedsScenario /\ c.scenario = "OTHER"
                                                        -> "CMD_ERR_UNKNOWN_COMMAND"
             [] c.command = "OTHER"                     -> "CMD_ERR_UNKNOWN_COMMAND"
             [] OTHER                                   -> "CMD_OK"

\* The machines that may result.
Effect(x, c) ==
    IF Verdict(x, c) # "CMD_OK" THEN {x}
    ELSE CASE c.command = "STOP"  -> {stop(x)}
           [] c.command = "START" -> {start(x)}
           [] c.command = "RESET" -> {reset(x)}
           [] OTHER               -> injectScenario(x, c.scenario)

-----------------------------------------------------------------------------
Init ==
    /\ m = Nominal
    /\ now = 0
    /\ reply = "BOOT"
    /\ latched = FALSE /\ overRun = -1 /\ hazardTicks = 0

Capped(n, bound) == IF n > bound THEN bound ELSE n

\* One telemetry tick of loop(): the sensors are read and the model updated.
\* A tick comes at least TELEMETRY_INTERVAL_MS (1 s) after the last, and as late
\* as the blocking reconnects of the same loop make it.
Tick ==
    /\ reply' = "TICK"
    /\ \E r \in Reading, gap \in 1 .. MaxGap :
         LET t == After(now, gap) IN
         /\ now' = t
         /\ m' = update(m, r, t)
         /\ overRun' = IF m.state \in Energised /\ r.current > 0
                       THEN IF overRun = -1 THEN 0 ELSE Capped(overRun + gap, TripDelay)
                       ELSE -1
    /\ latched' = (latched \/ isTripped(m'))
    /\ hazardTicks' = IF m'.state \in Turning /\ ~isConditionSafe(m')
                      THEN Capped(hazardTicks + 1, RampTicks + 1) ELSE 0

\* onMessageReceived: a command arrives.
OnMessage ==
    /\ \E c \in Commands :
         /\ reply' = Verdict(m, c)
         /\ m' \in Effect(m, c)
         /\ latched' =
              IF Verdict(m, c) = "CMD_OK" /\ m' = Nominal
                 /\ (c.command = "RESET" \/ c.scenario = "SCN-01")
              THEN FALSE ELSE latched \/ isTripped(m')
    /\ overRun' = IF m'.current = 0 THEN -1 ELSE overRun
    /\ hazardTicks' = IF m'.state \in Turning THEN hazardTicks ELSE 0
    /\ UNCHANGED now

\* Power is lost and comes back: nothing of the model is stored.
Reboot ==
    /\ m' = Nominal
    /\ now' = 0
    /\ reply' = "BOOT"
    /\ latched' = FALSE /\ overRun' = -1 /\ hazardTicks' = 0

Next == Tick \/ OnMessage \/ Reboot

Spec == Init /\ [][Next]_vars

-----------------------------------------------------------------------------
(* Properties *)

ReplyCodes ==
    {"BOOT", "TICK", "CMD_OK", "CMD_ERR_MALFORMED_JSON", "CMD_ERR_UNSAFE_INJECTION",
     "CMD_ERR_INVALID_SCHEMA", "CMD_ERR_MACHINE_MISMATCH", "CMD_ERR_TRIP_LATCHED",
     "CMD_ERR_UNKNOWN_COMMAND"}

\* The machine, the clock and the histories have their types; in particular a start
\* never overshoots the ramp.
TypeOK ==
    /\ m \in Machine
    /\ now \in Clock
    /\ reply \in ReplyCodes
    /\ latched \in BOOLEAN
    /\ overRun \in -1 .. TripDelay
    /\ hazardTicks \in 0 .. RampTicks + 1

\* The red lamp and the reported trip code always agree; a tripped machine shows a
\* trip, and one that is starting or running normally shows none.
TripAnnounced ==
    /\ m.led <=> m.active_trip # NoTrip
    /\ isTripped(m) => m.led
    /\ m.state \in {"STARTING", "RUNNING"} => ~m.led

\* update trips an overload in time: while the machine is energised, no run of samples
\* at 32 A or more has lasted OVERLOAD_TRIP_DELAY_MS, wherever millis() wraps.
OverloadNeverOutlastsDelay == m.state \in Energised => overRun < TripDelay

\* A machine that turns while too hot, over 45 A or shaking is tripped at the first
\* tick that looks; only a start, which does not look, delays that, by its ramp.
HazardBounded == hazardTicks <= RampTicks

\* Neither RESET nor SCN-01 takes a tripped machine back to RUNNING while the
\* condition it measures is unsafe.
ResetOnlyWhenSafe ==
    [][isTripped(m) /\ m'.state = "RUNNING" /\ reply' # "BOOT" => isConditionSafe(m)]_vars

\* Claimed by the documentation and the native tests, and not true: after a trip, no
\* START sets the machine going again until a reset has been accepted.
StartNeverBypassesLatch == latched => m.state \notin {"STARTING", "RUNNING"}

\* Claimed by the comment above the overload check, and not true: update trips an
\* overload only when the current has been at 32 A or more for the whole delay.
OverloadTripIsSustained ==
    [][(reply' = "TICK" /\ ~isTripped(m) /\ m'.active_trip = "TRIP_OVERLOAD" /\ isTripped(m'))
         => overRun' >= TripDelay]_vars
=============================================================================
