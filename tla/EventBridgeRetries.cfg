\* The bridge alone, for what the test module says of the retries.
CONSTANTS
  MaxEvents = 4
  MaxRetries = 3
  MaxOutages = 4
SPECIFICATION Spec
CHECK_DEADLOCK FALSE
INVARIANTS
  GivesUpAfterMaxRetries
