SPECIFICATION Spec
CONSTANTS
  SendKinds <- MCKinds
  Starts <- MCStarts
INVARIANT ConfirmedSendIsKept
