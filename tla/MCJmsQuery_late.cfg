SPECIFICATION Spec
CONSTANTS
  Ids = {1}
  Absent = Absent
  Callers = {c1}
  MaxRequests = 2
  MaxChanges = 0
  MaxTimeouts = 1
  MaxCrashes = 0
CHECK_DEADLOCK FALSE
PROPERTIES PushesAllLines
