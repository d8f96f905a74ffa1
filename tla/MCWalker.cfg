SPECIFICATION Spec
CONSTANTS
  Program <- MCProgram
  Graph <- MCGraph
  Meanings <- MCMeanings
INVARIANTS
  TypeOK
  EnvsMatchWalk
  ScopesReclaimed
  NothingAliased
  NothingHoldsItself
  WalkedAsMeant
PROPERTIES
  OpenChainsIntact
  WalkEnds
