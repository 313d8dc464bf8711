CONSTANTS
  i1 = i1
  i2 = i2
  n1 = n1
  n2 = n2
  tls = tls
  None = None
  Ghost = Ghost
  Instances <- Pair
  Namespaces <- OneNamespace
  NamespaceOf <- PairTogether
  Bindings <- OwnBindings
  BindingName <- PairBindingName
  LegacyName <- OwnLegacyName
  Upgraded <- Pair
  CertSpecs <- Untied
  LateSecrets = {}
  Reinstalled = {}
  Laggy = {}
  Lingering = {}
  Drifting = {}
  FaultKinds = {}
  MaxFaults = 0
  MaxDisruptions = 1
SPECIFICATION Spec
INVARIANTS
  LeaderRolePresent
CHECK_DEADLOCK FALSE
