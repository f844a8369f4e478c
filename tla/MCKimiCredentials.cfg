SPECIFICATION Spec
CONSTANTS
  Requests = {"r1", "r2"}
  MaxTokens = 3
INVARIANTS
  RefreshTokenLives
  PresentedOnce
PROPERTIES
  LoginSurvives
  CallsEnd
