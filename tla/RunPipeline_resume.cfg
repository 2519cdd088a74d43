SPECIFICATION FairSpec
CONSTANTS
  Traces = {t1, t2}
  K = 2
  Commands <- LiveOrDegraded
  Switching = FALSE
  MaxFaults = 3
INVARIANTS
  TypeOK
  CertCovers
  CertWhole
  MarkedMeansWritten
PROPERTIES
  EventuallyCertified
