CONSTANTS
  i1 = i1
  i2 = i2
  n1 = n1
  n2 = n2
  tls = tls
  None = None
  Ghost = Ghost
  Instances <- Pair
  Namespaces <- TwoNamespaces
  NamespaceOf <- PairApart
  Bindings <- SharedBindings
  BindingName <- PairBindingName
  LegacyName <- SharedLegacyName
  Upgraded <- Pair
  CertSpecs <- Untied
  LateSecrets = {}
  Reinstalled = {}
  Laggy = {"clusterRoleBinding"}
  Lingering = {}
  Drifting = {}
  FaultKinds = {"read", "delete", "restart"}
  MaxFaults = 2
  MaxDisruptions = 0
SPECIFICATION Spec
INVARIANTS
  SettledMatchesSpec
PROPERTIES
  RequestedAccessKept
  LegacyCleanupConfirmed
CHECK_DEADLOCK FALSE
