SPECIFICATION FairSpec
CONSTANTS
  Entities = {e1}
  Ids = {i1}
  Loader = loader
  NoThread = NoThread
  NoEntity = NoEntity
  Absent = Absent
  Unset = Unset
  Header = Header
  NameId = NameId
  MaxBlocks = 2
  MaxLines = 3
  MaxReloads = 1
  MaxFailures = 1
CHECK_DEADLOCK FALSE
INVARIANTS Converged
PROPERTIES Converges
