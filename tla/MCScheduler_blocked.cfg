SPECIFICATION FairSpec
CHECK_DEADLOCK FALSE
CONSTANTS
  w1 = w1
  w2 = w2
  a1 = a1
  a2 = a2
  q0 = q0
  q1 = q1
  s0 = s0
  s1 = s1
  n0 = n0
  n1 = n1
  NoThread = NoThread
  Queues = {q0, q1}
  Workers = {w1, w2}
  AppThreads = {a1}
  Nodes <- LayersNodes
  Sources <- LayersSources
  QueueOf <- LayersQueueOf
  Layer <- LayersLayer
  Id <- LayersId
  Downstream <- LayersDownstream
  InputNodes = {n1}
  OpenDeps <- LayersOpenDeps
  LateAnnouncers = {n1}
  MayFail = {}
  MayStop = {}
  MayThrottle = {}
  Packets <- LayersPackets
  Budget <- OnePacketBudget
PROPERTIES
  HandleIdleAlwaysEnds
