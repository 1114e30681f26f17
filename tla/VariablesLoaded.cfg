SPECIFICATION Spec
CONSTANTS
  Jobs = {j1, j2}
  Disk <- MCDisk
  Remote <- MCRemote
  FileOrder <- MCFileOrder
  Inventories <- MCInventories
  MaxFaults = 1
INVARIANT AnswersWhole StartsLayered RecipeVarsAreOwn
CHECK_DEADLOCK FALSE
