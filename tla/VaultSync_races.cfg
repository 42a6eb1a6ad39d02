SPECIFICATION Spec
CONSTANTS
  d1 = d1
  d2 = d2
  e1 = e1
  e2 = e2
  Devices = {d1, d2}
  Entities = {e1, e2}
  Skew <- D1Ahead
  Policy = "NewestWins"
  Batch = 1
  InPass = {"put"}
  MaxEdits = 2
  MaxTime = 2
  MaxAborts = 1
  MaxRotations = 0
  MaxChanges = 2
  MaxTrouble = 1
  MaxRoleChanges = 1
INVARIANT CursorComplete
SYMMETRY EntitySymmetry
