SPECIFICATION MCSpec
CONSTANTS
  Listings <- MCListings
  KeyOf <- MCKeyOf
  TraitsOf <- MCTraits
  ListedMail <- MCListed
  SitesOf <- MCSites
  Intakes = {r1}
  Batches <- MCBatches
  OldRecords <- MCOld
  Handoffs = {"worker", "workflow"}
  Window = 2
  Ceiling = 3
  Chunk = 1
  BatchRuns = {b1, b2}
  BatchSize = 2
  SearchResults <- MCResults
  IdOrder <- MCOrder
  MaxTokens = 2
  MCActors = {{"search", "import", "recheck"}, {"search", "handoff", "sender"}, {"filled", "recheck", "handoff"},
              {"filled", "handoff", "sender", "guard"}, {"import", "recheck", "handoff", "sender"},
              {"import", "batch", "recheck"}, {"import", "batch", "handoff"}, {"filled", "handoff", "worker", "guard"}}
INVARIANTS BookTypeOK WindowKept HandedOffIsInTray
PROPERTIES HolderKeepsLock
CHECK_DEADLOCK FALSE
