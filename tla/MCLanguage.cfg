SPECIFICATION Spec
CONSTANTS
  Program <- MCProgram
  Image <- MCImage
  Meanings <- MCMeanings
INVARIANTS
  CompiledAgrees
  OnlyLetGoLeaks
PROPERTY
  Terminates
