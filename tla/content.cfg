CONSTANTS
  Unset = Unset
  None = None
  Creator = Creator
  Operator = Operator
  User = User
  DefaultTag <- MCDefaultTag
  Original <- MCOriginal
  Values <- DeploymentValues
  UserFields <- MCUserFields
  MaxEdits = 2
  MaxFaults = 1
SPECIFICATION FairSpec
INVARIANTS
  SettledContent
PROPERTIES
  UserFieldsKept
  TransitionTimeKept
  TakesEffect
  Quiesces
CHECK_DEADLOCK FALSE
