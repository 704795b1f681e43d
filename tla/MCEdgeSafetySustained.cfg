\* An operator who only stops and starts the machine. ClockSpan is small enough for
\* millis() to wrap inside an overload.
SPECIFICATION Spec
CONSTANTS
    TripDelay = 4
    ClockSpan = 9
    MaxGap = 2
    RampTicks = 2
    Commands <- MCStopStart
PROPERTY OverloadTripIsSustained
