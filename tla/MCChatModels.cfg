CONSTANTS
  small = small
  large = large
  Callers = {u, v}
  u = u
  v = v
  Setups <- MCSetups
  MaxRetries = 2
  RegistryRows = 9
SPECIFICATION Spec
INVARIANTS SharedStateIsSound ModelsAreGivenUpForCause
PROPERTIES EveryCallEnds
CHECK_DEADLOCK FALSE
