SPECIFICATION Spec
CONSTANTS
  Node = {1, 2}
  Key = {1}
  Slot = {1, 2}
  Scopes <- SafetyScopes
INVARIANTS PendingTruthful AppliedTruthful UpToDateTruthful
PROPERTY ConsentRespected
