SPECIFICATION MCSpec
CONSTANTS
    Apps = {"web", "desk"}
    MaxEdits = 2
    MaxKills = 1
    MaxRuns = 1
    Versions = {1, 2}
    Sources = {1, 2}
    Revisions = {1, 2}
    Nowhere = Nowhere
    Broken = Broken
    MaxTroubles = 2
CHECK_DEADLOCK FALSE
INVARIANT FreshMeansCurrent
PROPERTIES DecisionsKept BootstrapOnlyAdds AdviceConverges
