\* Two submissions of the form, cancelled at any time, with one failing request.
SPECIFICATION FairSpec
CONSTANTS
  MaxSubmissions = 2
  Worker <- MCWorker
  PartCount <- MCPartCount
  MAX_PART_RETRIES = 2
  Faults = {"request", "storage"}
  MaxFaults = 1
INVARIANT TypeOK
INVARIANT CancelHolds
INVARIANT CompletedIsQuiet
CHECK_DEADLOCK FALSE
PROPERTY UploadSettles
