\* No fault: two parts are recorded at the same time.
SPECIFICATION Spec
CONSTANTS
  Part = {1, 2}
  Thread = {t1, t2}
  MaxRecorders = 2
  Faults = {}
INVARIANT RecordedPartsComplete
CHECK_DEADLOCK FALSE
