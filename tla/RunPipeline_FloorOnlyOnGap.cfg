SPECIFICATION Spec
CONSTANTS
  Traces = {t1, t2}
  K = 1
  Commands <- LiveOnly
  Switching = FALSE
  MaxFaults = 2
SYMMETRY Symmetry
INVARIANTS
  FloorOnlyOnGap
