SPECIFICATION Spec
CONSTANTS
    MaxRuns = 1
    Calls = 7
    Kind <- MixedKinds
    Hinted = {3, 4}
    MaxSteps = 7
    MaxKills = 6
INVARIANTS EffectOnce JournalTrue
PROPERTY Settles
CHECK_DEADLOCK FALSE
