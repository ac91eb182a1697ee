SPECIFICATION Spec
CONSTANTS
  Scenarios <- Disputes
  Divisions <- TwoShares
  Disputed = "k"
  Packets = {1, 2}
  NoCase = NoCase
  NoRecord = NoRecord
INVARIANTS
  SignatureFits
  ActsOnRecords
PROPERTIES
  EvaluationRetried
CHECK_DEADLOCK FALSE
