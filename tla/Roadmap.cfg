SPECIFICATION RoadmapSpec
CONSTANTS
    Items = {"RM-01", "RM-02"}
    Statuses = {"BACKLOG", "READY", "IN_PRD", "PLANNED", "DONE"}
    Attempted = {}
    Schemas = {"v3"}
    RequireEvidenceScheme = TRUE
    MaxTries = 0
    MaxDisturbances = 0
CHECK_DEADLOCK FALSE
INVARIANT DeliveredItemsCanClose
