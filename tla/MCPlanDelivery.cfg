SPECIFICATION MCSpec
CONSTANTS
    Planned = {p}
    Others = {o}
    Tooling = {}
    Todos = {}
    MaxVersion = 1
    MaxRevision = 1
    MaxCommits = 3
    MaxMoves = 3
    None = None
    Judged = {review}
    Verifications = {}
    Live = {}
    Calls = {c1, c2}
    Outside = {r}
    x = x
    none = none
    Sources = {x, none}
    Load <- MCLoad
    Limit <- MCLimit
    Stages = {"IMPLEMENTATION", "REVIEW"}
    Tags <- MCTags
    MaxCalled = 2
    MaxResults = 1
    Claims = {"c"}
    VerificationIds = {"v"}
    Requirements = {"R"}
    Drafts <- MCDrafts
    Contents = {1, 2}
    Nil = Nil
    MaxChanges = 2
SYMMETRY MCSymmetry
CHECK_DEADLOCK FALSE
INVARIANTS
    BaselineIsHead
    FinalIsProven
    ClosedCallsAnswered
    DeliveredClaimsWereShown
PROPERTY RefreshOnlyRebindsPlan
