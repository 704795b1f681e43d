SPECIFICATION Spec
CONSTANTS
    AlertTypes = {failure_risk}
    MaxSamples = 2
    MaxInbox = 2
    None = None
INVARIANTS TypeOK LiveAnswersBacked PredictedOnce OneOpenAlert
PROPERTY NoReplay
