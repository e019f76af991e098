SPECIFICATION Spec
CHECK_DEADLOCK FALSE
CONSTANTS
  w1 = w1
  w2 = w2
  a1 = a1
  a2 = a2
  q0 = q0
  q1 = q1
  s0 = s0
  s1 = s1
  n0 = n0
  n1 = n1
  NoThread = NoThread
  Queues = {q0, q1}
  Workers = {w1, w2}
  AppThreads = {a1, a2}
  Nodes <- OneNodes
  Sources = {s0}
  QueueOf <- OneQueueOf
  Layer <- OneLayer
  Id <- LayersId
  Downstream <- OneDownstream
  InputNodes = {n1}
  OpenDeps <- OneOpenDeps
  LateAnnouncers = {}
  MayFail = {s0, n0}
  MayStop = {n1}
  MayThrottle = {}
  Packets <- OneLayer
  Budget <- PauseBudget
INVARIANTS
  ChecksHold
  RestsOnlyWhenDone
PROPERTIES
  StaysTerminated
