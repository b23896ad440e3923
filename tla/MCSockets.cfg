SPECIFICATION MCSpec
CONSTANTS
  e1 = e1
  e2 = e2
  i1 = i1
  s1 = s1
  s2 = s2
  Entities = {e1, e2}
  Ids = {i1}
  Sockets = {s1, s2}
  Requests <- MCRequests
  NoEntity = NoEntity
  Absent = Absent
  Blank = Blank
  Header = Header
  MaxBlocks = 2
  MaxRows = 1
  Leaving = {s2}
  Letters = {"null", "'"}
  NullText = "null"
  MaxLength = 2
  MaxComponents = 2
  Runs = {"a", "b"}
  NullValue = "undefined"
  MaxTokens = 5
  RowHeight = 25
  BodyHeight = 450
  InitialHeight = 22
  MinRows = 25
  MaxRowsPerPage = 250
  BufferRows = 10
  FarOffRemoval = 2000
  Overlap = 1
  Sizes = {0, 1, 60, 400}
  Places = {0, 300, 2000, 4800}
  MaxMoves = 4
INVARIANTS
  TypeOK
  Shown
  KeysSurvive
  IdsDistinct
  RowsFound
  EachIdOnce
  RowsArrive
  RemovalsArrive
  RowsReachClients
  RemovalsReachClients
  ReadsAgree
  EachRowOnce
  Covered
  FewRows
PROPERTIES
  Silenced
  Unsubscribed
  LoadsEnd
  Settles
CHECK_DEADLOCK FALSE
