SPECIFICATION Spec
CONSTANTS
  Program <- HeldPrograms
  Image <- MCImage
  Meanings <- MCMeanings
  Depth <- MCDepth
INVARIANT
  Agrees
