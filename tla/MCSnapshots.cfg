SPECIFICATION Spec
CONSTANTS
  s1 = s1
  s2 = s2
  ra = ra
  Tasks <- MCTasks
  RepoOf <- MCRepoOf
  Workers = {w1, w2}
  NoOne = noone
  Attempts = 2
  MaxKills = 1
  MaxInvocations = 3
SYMMETRY WorkerSymmetry
INVARIANTS SnapshotsWhole RefusesOnlyCutOff
CHECK_DEADLOCK FALSE
