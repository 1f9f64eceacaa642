CONSTANTS
  NoLabel = ""
  SourceLabels <- MCSourceLabels
  RootLabels <- MCRootLabels
  GeneratedLabels <- MCGeneratedLabels
  StaticLabels <- MCStaticLabels
  BankStarts <- MCBankStarts
  BankEnds <- MCBankEnds
  ExtraRoots <- MCExtraRoots
  Texts <- MCTexts
SPECIFICATION Spec
INVARIANTS NeverStopsShort NoDanglingLabels NothingKeptInVain
PROPERTIES RunsLikeOriginal StrippingEnds
CHECK_DEADLOCK FALSE
