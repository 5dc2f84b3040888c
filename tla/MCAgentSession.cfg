SPECIFICATION MCSpec
CONSTANTS
    Facts <- MCFacts
    CallerFacts <- MCCallerFacts
    Texts <- MCTexts
    NoText = NoText
    FullCap = 1
    DeltaCap = 1
    Agents = {a, b}
    Cap = 3
    Planned = {p}
    Others = {}
    Tooling = {}
    Todos = {t}
    MaxVersion = 1
    MaxRevision = 0
    MaxCommits = 2
    MaxMoves = 1
    None = None
    Judged = {}
    Verifications = {v}
    Live = {v}
    BLOCKED = {"REVIEW_BLOCKED"}
    Items = {"RM-01", "RM-02"}
    Statuses = {"BACKLOG", "READY", "IN_PRD", "PLANNED", "DONE"}
    Attempted = {"DONE"}
    Schemas = {"v2"}
    RequireEvidenceScheme = TRUE
    MaxTries = 1
    MaxDisturbances = 1
    Domains = {"frontend"}
    ChangeIds = {"C01"}
    ChangeKinds = {"ui", "api"}
    Modes = {"auto", "always", "absent"}
    MaxEdits = 2
    NoPlan = NoPlan
    NoTable = NoTable
INVARIANTS
    CommitOnBaseline
    CheapReviewMeansLowRisk
CHECK_DEADLOCK FALSE
PROPERTIES
    StagesComplete
    RoutesAreConservative
    DeltaIsToReviewedText
