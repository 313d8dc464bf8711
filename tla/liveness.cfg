CONSTANTS
  i1 = i1
  i2 = i2
  n1 = n1
  n2 = n2
  tls = tls
  None = None
  Ghost = Ghost
  Instances <- OneInstance
  Namespaces <- OneNamespace
  NamespaceOf <- OneNamespaceOf
  Bindings <- OneBindings
  BindingName <- OneBindingName
  LegacyName <- OneLegacyName
  Upgraded = {}
  CertSpecs <- Tied
  LateSecrets <- Late
  Reinstalled = {"manager"}
  Laggy = {}
  Lingering = {}
  Drifting = {}
  FaultKinds = {"finalizer", "status"}
  MaxFaults = 1
  MaxDisruptions = 2
SPECIFICATION FairSpec
INVARIANTS
  SettledMatchesSpec
PROPERTIES
  DeletionCompletes
  Converges
CHECK_DEADLOCK FALSE
