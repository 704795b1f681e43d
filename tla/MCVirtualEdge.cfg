SPECIFICATION FairSpec
CONSTANTS
    None = None
    RampTicks = 1
    Limits = {"TRIP_VIBRATION"}
    Scenarios <- MCScenarios
    Capacity = 2
    MaxSamples = 3
    MaxBreaks = 1
    MaxStrains = 1
INVARIANTS
    NothingLost
    RepeatsCaused
    StatusTruthful
    ScenarioTripsInTime
PROPERTY
    Delivered
CHECK_DEADLOCK FALSE
