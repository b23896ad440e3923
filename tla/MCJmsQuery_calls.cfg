SPECIFICATION FairSpec
CONSTANTS
  Ids = {1, 2}
  Callers = {c1, c2}
  Absent = Absent
  MaxRequests = 2
  MaxChanges = 2
  MaxTimeouts = 1
  MaxCrashes = 1
CHECK_DEADLOCK FALSE
INVARIANTS TypeOK Accounted
PROPERTIES OwnReply CallsReturn
