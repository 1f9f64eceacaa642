CONSTANTS
  NoLabel = ""
  SourceLabels <- MCSourceLabels
  RootLabels <- MCRootLabels
  GeneratedLabels <- MCGeneratedLabels
  StaticLabels <- MCStaticLabels
  BankStarts <- MCBankStarts
  BankEnds <- MCBankEnds
  ExtraRoots <- MCExtraRoots
  Texts <- ConditionalEndTexts
SPECIFICATION Spec
INVARIANTS NeverStopsShort
CHECK_DEADLOCK FALSE
