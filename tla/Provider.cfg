CONSTANTS
  MaxRetries = 2
  Texts = 2
  Sizes = {1, 2}
  None = none
SPECIFICATION Spec
INVARIANTS
  RetriesAreUsedUp
  AnswersAreUsable
  VectorsMatchTexts
PROPERTY CallEnds
