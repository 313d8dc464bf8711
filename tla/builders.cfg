CONSTANTS
  Unset = Unset
  DefaultTag <- MCDefaultTag
  Chars <- MCChars
  Dot = "."
  Dash = "-"
  Names <- MCNames
  Namespaces <- MCNamespaces
  Endings <- MCEndings
  Hash <- MCHash
  HashLen = 1
  Limit = 9
  Default <- MCDefault
  Values <- MCValues
  Labels <- MCLabels
  Plain <- MCPlain
  MaxEdits = 3
SPECIFICATION Spec
INVARIANTS
  PortsServed
  TlsComplete
  SettingsKept
  PodsApart
  NamesWithinLimit
  NamesApart
CHECK_DEADLOCK FALSE
