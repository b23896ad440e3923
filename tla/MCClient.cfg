SPECIFICATION ClientSpec
CONSTANTS
  Entities = {e1, e2}
  Ids = {i1}
  Loader = loader
  NoThread = NoThread
  NoEntity = NoEntity
  Absent = Absent
  Unset = Unset
  Header = Header
  NameId = NameId
  MaxBlocks = 2
  MaxLines = 2
  MaxReloads = 0
  MaxFailures = 1
  BeanTypes = {t1, t2}
  Changing = {t1}
  LoadThread = LoadThread
  Nobody = Nobody
  Ended = Ended
  Qualities <- RowQualities
  MaxEnded = 1
  BeanIds = {b1, b2}
  IndexKeys = {k1, k2, null}
  Null = null
  NoBean = NoBean
CHECK_DEADLOCK FALSE
INVARIANTS TypeOK Converged ListenersApart GoesOnAlone UniqueAgrees CollectionAgrees
PROPERTIES OwnRow StaysBroken
SYMMETRY Symmetry
