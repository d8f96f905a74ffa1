SPECIFICATION Spec
CONSTANTS
  Program <- MCProgram
  Image <- MCImage
  Meanings <- MCMeanings
  Depth <- MCDepth
INVARIANTS
  TypeOK
  ParentsOlder
  FlagSound
  HeapReclaimed
  EscapingFunctionsWork
  EnoughOperands
  OwnOperandsOnly
PROPERTIES
  RunningChainsIntact
  DyingScopeReleased
  CallersOperandsKept
  ImplementsCallStack
