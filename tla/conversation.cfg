SPECIFICATION Spec
CONSTANTS
  SendKinds <- MCKinds
  Starts <- MCStarts
INVARIANTS TypeOK RowConstraints LeadEngineAgrees WordIsKept
PROPERTIES OnlyOwnerReopens
