SPECIFICATION FairSpec
CONSTANTS
  Entities = {e1}
  Ids = {i1}
  Operators = {op1, op2}
  Listener = listener
  NoThread = NoThread
  NoEntity = NoEntity
  Silent = Silent
  IdOnly = IdOnly
  MaxVersion = 1
  MaxQueue = 1
  MaxCrashes = 1
  MaxFailures = 0
PROPERTIES ServesBlocks BlocksEnd NotifiedIsServed
