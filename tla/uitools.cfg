\* Two threads, up to two calls, one crash, every tool.
CONSTANTS
  t1 = t1
  t2 = t2
  Threads <- MCThreads
  Screens <- MCScreens
  Xml <- MCXml
  App <- MCApp
  SelectorOf <- MCSelectorOf
  Texts <- MCTexts
  Kinds <- MCKinds
  Histories <- MCHistories
  Stores <- MCStores
  Keys <- MCKeys
  Contents <- MCContents
  MaxScroll = 2
  MaxCalls = 2
  MaxCrashes = 1
SPECIFICATION Spec
INVARIANTS
  ToolsTypeOK
  HealingIsHonest
  AnswersMatchDevice
  RefsReadable
  MemoryKept
SYMMETRY Symmetry
CHECK_DEADLOCK FALSE
