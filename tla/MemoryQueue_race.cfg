\* Two keys, three goroutines; every call may interleave with a batch; under fairness.
SPECIFICATION FairSpec
CONSTANTS
  Keys = {k1, k2}
  Workers = {w1, w2, w3}
  MaxAdds = 3
  MaxFlushes = 1
  MaxClears = 1
INVARIANTS
  Triggered
  SignalIsKept
PROPERTIES
  NewestLast
  EveryAddIsProcessed
