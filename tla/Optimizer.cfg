SPECIFICATION Spec
CONSTANTS
  Width = 4
  Arguments <- MCArguments
  Programs <- MCPrograms
  Rounds = 3
  OracleLength = 3
CHECK_DEADLOCK FALSE
INVARIANT TypeOK
INVARIANT VerifierExact
INVARIANT FlowRight
INVARIANT LoopsKnown
PROPERTY PromotionKeepsMeaning
PROPERTY FoldingKeepsMeaning
PROPERTY TailCallsKeepMeaning
PROPERTY ForwardingKeepsMeaning
PROPERTY DeletionKeepsMeaning
PROPERTY CleaningKeepsMeaning
PROPERTY StaysWellFormed
PROPERTY OnlyKnownRaises
PROPERTY NoPromotableLeft
