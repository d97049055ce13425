CONSTANTS
  RecordBytes = 2
  WriteSizes = {0, 1, 2}
  MaxSamples = 3
  MaxTroubles = 2
  KeyLengths = {20, 48, 64, 65}
  PieceLengths = {8, 55, 65}
  MaxMessage = 130
  Vectors <- MCVectors
  WindowSizes = {57, 68, 69, 80}
  PageLength = 24
  SerCerSize = 300
  RequestLengths = {0, 11, 12}
  Paddings = {0, 11, 15, 16, 255}
  MaxRecords = 6
  MaxRequests = 1
  PemKeys <- MCPemKeys
  Certificates <- MCCertificates
  LineEnds <- MCLineEnds
  LineLengths = {64, 76}
  WORDS = 2
  BITS = 8
  BnValues = {0, 1, 255, 256, 257, 4095, 32768, 43690, 46340}
  BnPowers <- MCBnPowers
  BnTexts <- MCBnTexts
  SlowCount = 2
  SlowCalls <- MCSlowCalls
  DNS_MAX_LABEL_LENGTH = 3
  WIZ_LIST_NAME_LENGTH = 2
  WIZ_LIST_MAX_ITEMS = 2
  WIZ_SCHED_MAX_ITEMS = 2
  LogRecords = 2
  MaxSettings = 2
  WizStatuses <- MCWizStatuses
  WizMethods = {"syncPilot", "setPilot", "firstBeat"}
SPECIFICATION PartsSpec
INVARIANTS ValuesInv FileIsTheLog DigestIsOfMessage MacIsHmac CbcIsAes RecordsOpen PageArrives RequestsAreRead FilesAreRead BnIsArithmetic ModExpIsPower SettingsAreKept OnlyWhatIsSaidIsPassed
PROPERTIES ImplementsSampleLog FullLogIsHandedOver RecordsFit SlowImplementsDecryptSlots
CHECK_DEADLOCK FALSE
