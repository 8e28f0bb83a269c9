SPECIFICATION Spec
CONSTANTS
  cli = cli
  page = page
  Ingester = {cli}
  MayGarble = TRUE
  MaxLines = 5
  MaxFaults = 2
CHECK_DEADLOCK FALSE
INVARIANTS NothingLost ExactPrefix
