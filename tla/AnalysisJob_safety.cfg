\* One job, two workers, every kind of fault.
SPECIFICATION Spec
CONSTANTS
  Job = {j1}
  Worker = {w1, w2}
  Plugin = {"pslist", "netscan"}
  Plan <- MCTwoPlugins
  MaxCopies = 2
  Faults = {"publish", "ack", "rollback", "in_doubt", "storage", "plugin", "stage", "crash", "backend"}
INVARIANTS
  TypeOK AnalysedAtMostOnce ResultsAccounted StrandedOnlyByFault
PROPERTIES TerminalStatusKept ImplementsResults
\* The system stops when the last task has returned.
CHECK_DEADLOCK FALSE
