\* What Close() sends is later than the bounds that the worker sends.
SPECIFICATION FairSpec
CHECK_DEADLOCK FALSE
CONSTANTS
  MaxTimestamp = 3
  Packets = {1}
  Bounds = {1}
  ClosingPackets = {2}
  Fails = TRUE
  MaxRuns = 2
INVARIANTS TypeOK EveryPacketObserved
PROPERTIES EveryPacketPolled CallsReturn
