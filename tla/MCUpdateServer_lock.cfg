SPECIFICATION Spec
CONSTANTS
  Entities = {e1}
  Ids = {i1}
  Operators = {op1}
  Listener = listener
  NoThread = NoThread
  NoEntity = NoEntity
  Silent = Silent
  IdOnly = IdOnly
  MaxVersion = 1
  MaxQueue = 1
  MaxCrashes = 0
  MaxFailures = 1
PROPERTIES FinishReleasesLock
