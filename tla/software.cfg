CONSTANTS
  BootCores = {1, 2} BootFiles <- McFiles BootUcode <- McUcode BootCredits = 2
  BootCheckpoint <- McCheckpoint BootMemory <- McMemory
  PtFanout = 2 PtRoot = 32 PtSections <- McSections PtOthers <- McOthers
  PtRequests <- McRequests PtMisses = 1
  PhTraces <- McPhTraces
  BgTraces <- McBgTraces BgStats <- McBgStats BgCycles = {2, 4, 6} BgWidth = 2
  SpLogs <- McLogs SpBootPc = 8
  TgBytes = 8 TgByte = 2 TgTests = 2
SPECIFICATION Spec
INVARIANTS
  ImageLoaded ConfiguredBeforeRelease WalksTranslate SectionsMapped
  HistogramsExact HistogramsMade  PictureFits
  FetchesFollow WritesChecked TestPasses
PROPERTY CoresReleased
CHECK_DEADLOCK FALSE
