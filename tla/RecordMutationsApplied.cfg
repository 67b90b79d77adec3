SPECIFICATION Spec
CONSTANTS
  None = None
  Adapters = {"aliyun"}
  Zones <- MCZones
  EntryExts <- MCEntryExts
  SetExts <- MCSetExts
  Texts <- MCTexts
  Nums = {20}
  TTLs = {300}
  Names = {"mail"}
  Edits = 1
  MaxAttempts = 1
  MaxInterferences = 0
  Halts = {"ERROR"}
  FinalReads = 1
  Faults = FALSE
  Lag = FALSE
INVARIANT AppliedUpdatesSucceed
CHECK_DEADLOCK FALSE
