SPECIFICATION Spec
CONSTANTS
  Entities = {e1, e2}
  Ids = {i1}
  Operators = {op1}
  Listener = listener
  NoThread = NoThread
  NoEntity = NoEntity
  Silent = Silent
  IdOnly = IdOnly
  MaxVersion = 1
  MaxQueue = 1
  MaxCrashes = 1
  MaxFailures = 0
INVARIANTS TypeOK BlocksDoNotOverlap Coherent
PROPERTIES ServedRowsMoveForward
SYMMETRY Symmetry
