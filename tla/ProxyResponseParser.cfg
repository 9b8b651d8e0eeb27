SPECIFICATION Spec
CONSTANTS
  Codes = {100, 200, 204}
  Lengths = {0, 1, 2, 4}
  MaxHeader = 5
  MaxBody = 3
  MaxLines = 3
  InterimHeaders = FALSE
INVARIANTS
  BodyBounded
  CompleteMeansWhole
  ReuseIsAgreed
