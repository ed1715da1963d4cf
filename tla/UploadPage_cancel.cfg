\* The button is pressed at any time.
SPECIFICATION Spec
CONSTANTS
  MaxSubmissions = 2
  Worker <- MCWorker
  PartCount <- MCPartCount
  MAX_PART_RETRIES = 2
  Faults = {}
  MaxFaults = 1
CHECK_DEADLOCK FALSE
INVARIANT CancelRemovesSession
