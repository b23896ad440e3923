SPECIFICATION Spec
CONSTANTS
  Entities = {e1}
  Ids = {i1}
  Loader = loader
  NoThread = NoThread
  NoEntity = NoEntity
  Absent = Absent
  Unset = Unset
  Header = Header
  NameId = NameId
  MaxBlocks = 1
  MaxLines = 2
  MaxReloads = 0
  MaxFailures = 0
CHECK_DEADLOCK FALSE
PROPERTIES MergedAfterLoad
