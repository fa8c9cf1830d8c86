SPECIFICATION Spec
CONSTANTS
  r1 = r1
  r2 = r2
  Mocked = {r1, r2}
  Foreign = rf
  Prefix <- MCPrefix
  Asked <- MCAsked
  OutputChunks = 2
  ForeignReplies <- MCForeignReplies
  CutAnywhere = {rf}
  MaxResets = 1
  MaxFaults = 1
INVARIANTS StreamsCounted RoundsAlike ReadAsMeant RouterAgrees
CHECK_DEADLOCK FALSE
