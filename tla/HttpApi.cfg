SPECIFICATION Spec
CONSTANTS
  Requests = {r1, r2}
  Pids = {1}
  Burst = 2
  Rate = 1
  Scale = 2
  MaxNow = 3
  MaxSequence = 2
  MaxFaults = 1
  MaxRestarts = 1
SYMMETRY RequestSymmetry
INVARIANTS TypeOK AdmissionBounded ReadyExplained
