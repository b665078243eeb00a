CONSTANTS
  a1 = a1  a2 = a2  b = b  A = A  v = v
  None = None
  Rows = {a1, a2, b}
  Concept <- Concepts
  Level <- Levels
  Weights <- SomeWeights
  Vectors = {v}
  Cosine <- Cosines
  Jobs = {1, 2, 3}
  People = {1, 2, 3}
  Forms <- AllForms
  Profiles <- WhoIs
  RETRIEVAL_LIMIT = 2
  CHUNK = 2
  ROUND = 1
  MinScore = 60
  Thresholds = {30, 60}
  Moves = 1
SPECIFICATION Spec
INVARIANTS BoundNeverUndercuts CountsAreTheScorers RoutesAgree BatchIsTheLoop NobodyIsConfirmedForNothing
CHECK_DEADLOCK FALSE
