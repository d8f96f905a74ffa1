SPECIFICATION MCSpec
CONSTANT Texts <- MCTexts
INVARIANTS
  TypeOK
  TokensPlaced
  TokensInOrder
  OnlyCommentsLeftOut
  TokensWhole
  ReadsBack
  CompleteAsLexed
PROPERTY Terminates
CHECK_DEADLOCK FALSE
