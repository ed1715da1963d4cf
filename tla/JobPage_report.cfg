\* The report of a job analysed while its page is open.
SPECIFICATION Spec
CONSTANTS
  Listed = {"report"}
  Form = {}
  MaxSaves = 0
  MaxEvents = 0
  MaxPolls = 2
  Filter = {"all"}
  Faults = {}
INVARIANTS ReportShown
CHECK_DEADLOCK FALSE
