CONSTANTS
  i1 = i1
  i2 = i2
  n1 = n1
  n2 = n2
  tls = tls
  None = None
  Ghost = Ghost
  Instances <- OneInstance
  Namespaces <- OneNamespace
  NamespaceOf <- OneNamespaceOf
  Bindings <- OneBindings
  BindingName <- OneBindingName
  LegacyName <- OneLegacyName
  Upgraded = {}
  CertSpecs <- Untied
  LateSecrets = {}
  Reinstalled = {}
  Laggy = {"serviceAccount"}
  Lingering = {"serviceAccount"}
  Drifting = {"deployment"}
  FaultKinds = {}
  MaxFaults = 0
  MaxDisruptions = 3
SPECIFICATION Spec
INVARIANTS
  BindingNeedsFinalizer
  SettledMatchesSpec
PROPERTIES
  GrantsImplemented
  RolloutBacked
  SpecKept
CHECK_DEADLOCK FALSE
