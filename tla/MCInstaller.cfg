SPECIFICATION Spec
CONSTANTS
    Skills = {"skill", "old"}
    Seeds = {"mine"}
    Copies = {"copy", "oldCopy", "seedCopy"}
    CopyOf <- MCCopyOf
    Rank <- MCRank
    Releases = {"first", "second"}
    Ships <- MCShips
    Policy <- MCPolicy
    Ids = {"one", "two"}
    Time <- MCTime
    Editable = {"skill", "mine", "oldCopy", "seedCopy", "profile"}
    Edits = {"edit"}
    MaxDisturb = 1
INVARIANT
    ConsumerBytesKept
PROPERTIES
    RollbackUndoesLatest
    ImplementsAtomicInstall
CHECK_DEADLOCK FALSE
