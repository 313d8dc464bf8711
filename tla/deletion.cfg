CONSTANTS
  i1 = i1
  i2 = i2
  n1 = n1
  n2 = n2
  tls = tls
  None = None
  Ghost = Ghost
  Instances <- OneInstance
  Namespaces <- OneNamespace
  NamespaceOf <- OneNamespaceOf
  Bindings <- OneBindings
  BindingName <- OneBindingName
  LegacyName <- OneLegacyName
  Upgraded = {i1}
  CertSpecs <- Untied
  LateSecrets = {}
  Reinstalled = {}
  Laggy = {}
  Lingering = {}
  Drifting = {}
  FaultKinds = {"delete"}
  MaxFaults = 1
  MaxDisruptions = 1
SPECIFICATION Spec
INVARIANTS
  DeletionRevokes
CHECK_DEADLOCK FALSE
