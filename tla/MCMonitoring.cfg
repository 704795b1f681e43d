SPECIFICATION Spec
CONSTANTS
    None = None
    Fails = Fails
    m1 = m1
    m2 = m2
    vibration = vibration
    pressure = pressure
    Machines = {m1, m2}
    Sensors = {vibration, pressure}
    Messages <- MCMessages
    TypeOf <- MCTypeOf
    Models <- MCModels
    Statistics <- MCStatistics
    Continuous = {"Torque_Nm"}
    Categorical = {"Machine_Type"}
    MaxGap = 1
    MaxPoints = 2
    MinSample = 2
    Listings <- MCListings
    PageSize = 1
    MaxRows = 2
    MaxTime = 2
    MaxEvents = 1
CONSTRAINT Asking
SYMMETRY Symmetry
INVARIANTS
    AlarmsCover
    TrendKeepsAlarms
    ViewsAgree
    PagesComplete
    DriftHonest
