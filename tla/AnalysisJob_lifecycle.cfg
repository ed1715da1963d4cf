\* Two jobs compete for one worker, messages are redelivered, and any fault may
\* recur; scheduling is fair.
SPECIFICATION FairSpec
CONSTANTS
  Job = {j1, j2}
  Worker = {w1}
  Plugin = {"pslist"}
  Plan <- MCOnePlugin
  MaxCopies = 2
  Faults = {"ack", "rollback", "crash"}
PROPERTIES ImplementsLifecycle JobSettles
CHECK_DEADLOCK FALSE
