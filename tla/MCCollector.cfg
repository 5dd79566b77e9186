SPECIFICATION Spec
CONSTANTS
  Writers = {w1, w2}
  Latencies <- MCLatencies
  kNsPerUs = 2
  NsPerSecond = 2
  qps_slot_count = 2
  MaxSamples = 3
  MaxNow = 7
INVARIANTS
  SnapshotBracketed
  WindowExact
