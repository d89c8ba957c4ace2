SPECIFICATION MCSpec
CONSTANTS
  Listings <- MCListings
  KeyOf <- MCKeyOf
  TraitsOf <- MCTraits
  ListedMail <- MCListed
  SitesOf <- MCSites
  Intakes = {r1}
  Batches <- MCBatches
  OldRecords <- MCOld
  Handoffs = {"worker", "workflow"}
  Window = 2
  Ceiling = 3
  Chunk = 1
  BatchRuns = {b1, b2}
  BatchSize = 2
  SearchResults <- MCResults
  IdOrder <- MCOrder
  MaxTokens = 2
  MCActors = {{"batch"}}
INVARIANTS ReadyLeadsAreStored
CHECK_DEADLOCK FALSE
