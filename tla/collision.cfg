CONSTANTS
  i1 = i1
  i2 = i2
  n1 = n1
  n2 = n2
  tls = tls
  None = None
  Ghost = Ghost
  Instances <- Pair
  Namespaces <- TwoNamespaces
  NamespaceOf <- PairApart
  Bindings <- CollidingBindings
  BindingName <- PairBindingName
  LegacyName <- CollidingLegacyName
  Upgraded = {i1}
  CertSpecs <- Untied
  LateSecrets = {}
  Reinstalled = {}
  Laggy = {"clusterRoleBinding"}
  Lingering = {}
  Drifting = {}
  FaultKinds = {"restart"}
  MaxFaults = 1
  MaxDisruptions = 1
SPECIFICATION Spec
INVARIANTS
  BindingNeedsFinalizer
PROPERTIES
  GrantsImplemented
  RequestedAccessKept
  OthersKeepAccess
  LegacyCleanupConfirmed
CHECK_DEADLOCK FALSE
