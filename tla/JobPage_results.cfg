\* A job analysed while its page is open; two analysts, one of them on the page.
SPECIFICATION FairSpec
CONSTANTS
  Listed = {"findings"}
  Form <- MCForm
  MaxSaves = 2
  MaxEvents = 1
  MaxPolls = 2
  Filter = {"all", "reviewed"}
  Faults = {"rollback"}
INVARIANTS
  TypeOK  OwnSaveShown ReviewIsWhole
PROPERTIES ShownStatusAdvances StatusShown
\* The page comes to rest.
CHECK_DEADLOCK FALSE
