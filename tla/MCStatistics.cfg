CONSTANTS
  Counter = {"requests"}
  Gauge = {"in_queue"}
  Timestamp = {"server_ejected_at"}
  Bucket = {"latency"}
  MaxTotal = 1
  MaxClock = 2
SPECIFICATION AllSpec
INVARIANTS Conserved LastStampKept 
