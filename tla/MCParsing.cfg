SPECIFICATION CountedSpec
CONSTANTS
  Texts <- MCTexts
  Trees <- MCTrees
INVARIANTS
  TypeOK
  ReadsBack
  NestingKept
  AcceptedAsWritten
  LinearWork
PROPERTY
  HandleOnTop
