SPECIFICATION Spec
CONSTANTS
  d1 = d1
  d2 = d2
  e1 = e1
  e2 = e2
  Devices = {d1, d2}
  Entities = {e1}
  Skew <- InSync
  Policy = "NewestWins"
  Batch = 1
  InPass = {"put"}
  MaxEdits = 2
  MaxTime = 1
  MaxAborts = 0
  MaxRotations = 0
  MaxChanges = 2
  MaxTrouble = 0
  MaxRoleChanges = 0
INVARIANT CleanMeansSynced
