SPECIFICATION Spec
CONSTANTS
    u1 = u1
    u2 = u2
    Users <- MCUsers
    PrefixMap <- MCPrefixMap
    RawData <- MCRawData
    Trainings <- MCTrainings
    Lo = 0
    Hi = 10
    TrainPct = 70
    ValPct = 15
    NaN = NaN
    Margin = 1
    Floor = 1
    MaxOps = 2
SYMMETRY Symmetry
CHECK_DEADLOCK FALSE
INVARIANTS TypeOK AuditAgrees RetrainingsKeptApart TrainingDataSound ServedModelKnown
PROPERTY PromotionsProtected
