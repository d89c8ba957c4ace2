SPECIFICATION Spec
CONSTANTS
  SendKinds <- MCKinds
  Starts <- MCStarts
INVARIANT HumanReplyIsKept
