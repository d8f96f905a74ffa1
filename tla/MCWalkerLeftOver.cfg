SPECIFICATION Spec
CONSTANTS
  Program <- LeftOverPrograms
  Graph <- MCGraph
  Meanings <- MCMeanings
INVARIANT
  SameLanguage
