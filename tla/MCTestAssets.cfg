SPECIFICATION AssetsSpec
CONSTANTS
    Assets = {"TA-LIVE"}
    Contents = {"old", "new"}
    Ledgers <- MCLedgers
    NoFile = "no file"
    MaxChanges = 2
INVARIANT
    SyncKeepsPlanValid
