SPECIFICATION CountedSpec
CONSTANTS
  Texts <- NamesTexts
  Trees <- NamesTrees
INVARIANT
  ReadsBack
