SPECIFICATION Spec
CONSTANTS
  None = None
  Adapters = {"aliyun", "tencent", "cloudflare", "huawei"}
  Zones <- MCZones
  EntryExts <- MCEntryExts
  SetExts <- MCSetExts
  Texts <- MCTexts
  Nums = {20, 60}
  TTLs = {300}
  Names = {"mail"}
  Edits = 2
  MaxAttempts = 2
  MaxInterferences = 1
  Halts = {"ERROR"}
  FinalReads = 2
  Faults = TRUE
  Lag = TRUE
INVARIANTS TypeOK SuccessShowsTheRequest RetriesChangeNothing ItemsChangeTTLsOnly EchoChangesNothing ListStaysReadable
PROPERTY Implements
CHECK_DEADLOCK FALSE
