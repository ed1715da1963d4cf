\* Four rows of any kind, and a component limit that some of them exceed.
SPECIFICATION Spec
CONSTANTS
  Row <- MCRow
  YaraRule = {"family", "broad", "gated", "vendor", "rumour"}
  Metadata <- MCMetadata
  MalwareRule = {"family", "gated"}
  ForeignRule = {"vendor"}
  Limit <- MCLimit
  NameRank <- MCNameRank
  Others <- MCOthers
  MaxComponents = 6
  MaxRows = 4
INVARIANTS TypeOK CriticalIsCorroborated BenignMemoryStaysContext RowOrderIrrelevant
  FindingsExported ExportOrderIrrelevant
  ChainsShowEvidence AdviceBacked SectionsKeepEvidence
PROPERTIES RepeatsDoNotInflate MoreEvidenceNeverLowers IndicatorsStay
\* Detection runs once.
CHECK_DEADLOCK FALSE
