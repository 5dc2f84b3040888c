CONSTANTS
  WP = {"nodeskclaw", "copilot"}
  Provider = {"nodeskclaw"}
  c1 = c1
  c2 = c2
  Commit = {c1, c2}
  Nothing = Nothing
  Item = {"GRM02", "GRM04", "GRM05"}
  ContractExit <- MCContractExit
  WorkExit <- MCWorkExit
  IntegrationExit = {"GRM05"}
  Waiting = {"GRM05"}
  Staffed = {"GRM04"}
  Exempt = {"GRM05"}
  ScenarioContract = "CONSUMED"
  DocumentRelease = TRUE
  Awaited = "copilot"
  Receipts <- MCReceipts
  Attestations <- MCAttestations
  InitSot <- MCInitSot
  FromStart = "released"
  Delivered = TRUE
  MaxRuns = 3
  MaxOutside = 2
SPECIFICATION FairSpec
PROPERTIES FeatureCompletes ImplementsTransactions
