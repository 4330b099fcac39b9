SPECIFICATION Spec
CONSTANTS
  Texts <- MCTexts
  Factors <- MCFactors
  None = None
INVARIANTS
  PasswardTypeOK
PROPERTIES
  ImplementsSecret
