SPECIFICATION Spec
CONSTANTS
    Kinds <- MCKinds
    RuleSets <- MCRuleSets
    Sources = {"api", "channel"}
    MaxRuns = 1
    MaxCalls = 2
    MaxTurns = 2
    Limits = {0, 1}
    MaxEvents = 2
INVARIANTS
    EffectsAreOnRecord
    ConsentBeforeEffect
    NextRoundIsAnswered
    CancelStopsNextRound
CHECK_DEADLOCK FALSE
