SPECIFICATION FairSpec
CONSTANTS
  d1 = d1
  d2 = d2
  e1 = e1
  e2 = e2
  Devices = {d1, d2}
  Entities = {e1}
  Skew <- InSync
  Policy = "NewestWins"
  Batch = 1
  InPass = {}
  MaxEdits = 3
  MaxTime = 2
  MaxAborts = 1
  MaxRotations = 1
  MaxChanges = 3
  MaxTrouble = 1
  MaxRoleChanges = 0
PROPERTIES Converges TombstoneUntilPushed
