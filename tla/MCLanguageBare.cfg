SPECIFICATION Spec
CONSTANTS
  Program <- BareConditionsOnly
  Image <- MCImage
  Meanings <- MCMeanings
INVARIANT
  Agrees
