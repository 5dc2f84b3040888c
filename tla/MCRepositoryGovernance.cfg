CONSTANTS
  Repo = {r1, r2}
  HumanTarget = {"PAUSED", "RETIRED", "OUT_OF_SYNC"}
  MaxOutside = 2
SPECIFICATION FairSpec
INVARIANT PublishedAuditConsistent
PROPERTIES RetirementIsFinal JobsActAlone SyncedRepositoriesSettle
