SPECIFICATION FairSpec
CONSTANTS
  Root = "root"
  Dirs = {"d", "e"}
  Files = {"f", "g", "h"}
  In <- InDir
  Ignored = {"e"}
  Backups = {"h"}
  Recursive = TRUE
  Early = FALSE
  MAX_DIR_NUM = 3
  MaxEvents = 2
  MaxChanges = 3
  Asked = {"f"}
  MaxSockets = 1
INVARIANTS TypeOK 
PROPERTY RequestsAreAnswered
CHECK_DEADLOCK FALSE
