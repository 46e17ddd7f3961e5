SPECIFICATION FairSpec
CONSTANTS
  Keys = {3, 4, 6}
  Masks = {{"readable"}, {"writable"}}
  Garbage = {{}}
INVARIANTS WatchedAsAsked NoAbort NothingLeftBehind NeverAstray
PROPERTIES OnlyReported MonitorReturns
CHECK_DEADLOCK FALSE
