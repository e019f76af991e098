\* Close() sends a packet at the bound that the worker sends.
SPECIFICATION Spec
CHECK_DEADLOCK FALSE
CONSTANTS
  MaxTimestamp = 3
  Packets = {}
  Bounds = {2}
  ClosingPackets = {2}
  Fails = FALSE
  MaxRuns = 1
INVARIANT EveryPacketObserved
