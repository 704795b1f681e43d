--------------------------- MODULE SimulatedMachine ---------------------------
(***************************************************************************)
(* simulation/process_model.py: the machine a virtual edge reads.  One     *)
(* step of the simulation is an operator on the machine, its scenario and  *)
(* the limit the noisy physics happen to exceed; signals are left out.     *)
(***************************************************************************)
EXTENDS Integers

CONSTANTS
    RampTicks,  \* the steps a start takes: nominal rpm over a fifth of it
    Limits,     \* the trips by the limits the noisy physics may exceed
    None        \* no trip, no limit exceeded, no payload

ASSUME RampAssumption == RampTicks \in Nat \ {0}

\* A scenario: its fault's type, the step it begins at, its trip code and the delay of
\* that, and the step from which an offline scenario is silent.
Scenario(fault, trigger, trip, delay, silent) ==
    [fault |-> fault, trigger |-> trigger, trip |-> trip, delay |-> delay, silent |-> silent]

\* As constructed with auto_start.
Started == [step |-> 0, state |-> "STARTING", ramp |-> 0, fault |-> FALSE, trip |-> None]

trigger_trip(m, code) == [m EXCEPT !.state = "TRIPPED", !.trip = code]

\* Nothing is emitted any more, but the clock goes on.
Silent(m, sc) == sc.fault = "offline" /\ m.step >= sc.silent

\* A fault that begins during the start is active without the state ever saying so.
BeginFault(m, sc) ==
    IF m.step >= sc.trigger /\ ~m.fault /\ sc.fault # "none"
      THEN [m EXCEPT !.fault = TRUE, !.state = IF @ = "RUNNING" THEN "DEGRADING" ELSE @]
      ELSE m

\* Mutant: the delay is counted one step too far.
SafetyTripsLate(m, sc, exceeded) ==
    IF sc.trip # None /\ m.fault
      THEN IF m.step - sc.trigger > sc.delay THEN trigger_trip(m, sc.trip) ELSE m
      ELSE IF exceeded # None THEN trigger_trip(m, exceeded) ELSE m

\* While a fault with a trip code is active, that code is all there is to trip on.
SafetyTrips(m, sc, exceeded) ==
    IF sc.trip # None /\ m.fault
      THEN IF m.step - sc.trigger >= sc.delay THEN trigger_trip(m, sc.trip) ELSE m
      ELSE IF exceeded # None THEN trigger_trip(m, exceeded) ELSE m

RampUp(m) ==
    [m EXCEPT !.ramp = @ + 1,
              !.state = IF m.ramp + 1 >= RampTicks THEN "RUNNING" ELSE @]

Evolve(m, sc, exceeded) ==
    CASE m.state = "STARTING" -> RampUp(m)
      [] m.state \in {"RUNNING", "DEGRADING"} -> SafetyTrips(m, sc, exceeded)
      [] OTHER -> m

\* The machine after a step.
Stepped(m, sc, exceeded) ==
    IF Silent(m, sc) THEN [m EXCEPT !.step = @ + 1]
    ELSE [Evolve(BeginFault(m, sc), sc, exceeded) EXCEPT !.step = @ + 1]
=============================================================================
