SPECIFICATION Spec
CONSTANTS
  Key = {1, 2, 3, 4}
  BadKey = {3}
  LevelOf <- MCLevelOf
  NewLevel = 1
  MaxTime = 2
  Outputs <- MCOutputs
INVARIANTS SpendAccepted SpendComplete SignHashApart
