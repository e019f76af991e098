SPECIFICATION FairSpec
CHECK_DEADLOCK FALSE
CONSTANTS
  g1 = g1
  g2 = g2
  src = src
  a = a
  b = b
  GraphInputs = {g1, g2}
  Sources = {src}
  Nodes = {a, b}
  Idle = Idle
  None = None
  Streams = {1, 2, 3, 4}
  Producer <- MCProducer
  Consumer <- MCConsumer
  Runs <- MCRuns
  Failing = {a, g2}
INVARIANTS
  TypeOK
  BookkeepingExact
  NothingMissed
PROPERTIES
  AddReturns
