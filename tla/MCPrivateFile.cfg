SPECIFICATION Spec
CHECK_DEADLOCK FALSE
CONSTANTS
  probe = probe
  dpapi = dpapi
  Writers = {probe, dpapi}
SYMMETRY EitherFirst
INVARIANTS
  PathIsWhole
  SecretsArePrivate
  ReturnsTellTheTruth
