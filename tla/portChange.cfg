CONSTANTS
  Unset = Unset
  None = None
  Creator = Creator
  Operator = Operator
  User = User
  DefaultTag <- MCDefaultTag
  Original <- MCOriginal
  Values <- PortValues
  UserFields <- NoFields
  MaxEdits = 1
  MaxFaults = 0
SPECIFICATION FairSpec
PROPERTIES
  TakesEffect
CHECK_DEADLOCK FALSE
