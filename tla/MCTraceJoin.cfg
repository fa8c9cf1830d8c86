SPECIFICATION JoinSpec
CONSTANTS
  Requests = {q1}
  LocalPaths = {local_hbm}
  ExternalPaths = {lmcache_l1, mooncake_l2}
  NoPath = nopath
  MaxAttempts = 2
  MaxFaults = 1
SYMMETRY PathSymmetry
INVARIANTS JoinTellsTruth
CHECK_DEADLOCK FALSE
