SPECIFICATION FairSpec
CONSTANTS
  d1 = d1
  d2 = d2
  e1 = e1
  e2 = e2
  Devices = {d1, d2}
  Entities = {e1}
  Skew <- InSync
  Policy = "NewestWins"
  Batch = 1
  InPass = {}
  MaxEdits = 1
  MaxTime = 1
  MaxAborts = 0
  MaxRotations = 1
  MaxChanges = 2
  MaxTrouble = 1
  MaxRoleChanges = 0
PROPERTY Rekeyed
