SPECIFICATION Spec
CONSTANTS
  Program <- RecursivePrograms
  Image <- MCImage
  Meanings <- MCMeanings
  Depth <- MCDepth
INVARIANT
  Agrees
