SPECIFICATION CountedSpec
CONSTANTS
  Texts <- DividedTexts
  Trees <- DividedTrees
INVARIANT
  ReadsBack
