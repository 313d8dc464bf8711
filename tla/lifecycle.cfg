CONSTANTS
  i1 = i1
  i2 = i2
  n1 = n1
  n2 = n2
  tls = tls
  None = None
  Ghost = Ghost
  Instances <- OneInstance
  Namespaces <- OneNamespace
  NamespaceOf <- OneNamespaceOf
  Bindings <- OneBindings
  BindingName <- OneBindingName
  LegacyName <- OneLegacyName
  Upgraded = {}
  CertSpecs <- Untied
  LateSecrets = {}
  Reinstalled = {}
  Laggy = {}
  Lingering = {"deployment", "serviceAccount"}
  Drifting = {}
  FaultKinds = {"read", "create", "update", "finalizer", "status", "restart"}
  MaxFaults = 1
  MaxDisruptions = 2
SPECIFICATION Spec
INVARIANTS
  TypeOK
  BindingNeedsFinalizer
  SettledMatchesSpec
  SettledStatus
PROPERTIES
  GrantsImplemented
  RolloutBacked
CHECK_DEADLOCK FALSE
