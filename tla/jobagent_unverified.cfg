SPECIFICATION MCSpec
CONSTANTS
  Chosen = {"job agent"}
  Requests = {r1, r2}
  Providers = {"codex", "gemini"}
  Order <- MCOrder
  Asks <- MCAsks
  Setups <- MCSetups
  QuotaTicks = 1
  AuthTicks = 1
  MaxTime = 2
  Notes = {1, 2}
  PrivacyFiles <- MCPrivacyFiles
  NoteContents <- MCNoteContents
  Indexers = {i1, i2}
  MaxFiles = 1
  MaxEdits = 2
  Drafts = {"d1"}
  DraftContents <- MCDraftContents
  OwnAddresses = {"me"}
  MaxEmails = 2
  MaxMail = 3
  ClientLeads = {c1, c2}
  LeadFacts <- MCLeadFacts
  MaxLedger = 4
  Notices = {1, 2}
  ChannelOf <- MCChannelOf
  Tellers = {t1, t2}
  TriesOf <- MCTriesOf
  MaxPosts = 2
  MaxDeaths = 1
  FindRuns = {e1, e2}
  Catalog <- MCCatalog
  BatchSources = {"osm"}
  BatchLimit = 2
  DisableAfter = 2
  BenchTicks = 1
  LowWatermark = 1
  TargetReady = 1
  DailyTarget = 1
  RunTicks = 1
  MaxYield = 1
  MaxReady = 2
  MaxClock = 2
  Mails = {1, 2, 3}
  FeaturesOf <- MCFeaturesOf
  WatchRuns = {w1, w2}
  MaxAlerts = 2
  Kind <- MCKind
  Unreadable = {1}
  Readers = {g1, g2}
  Batch = 2
  MaxRebuilds = 1
  MaxBreaks = 1
  Postings = {1, 2}
  PostingOf <- MCPostingOf
  AgentRuns = {a1}
  PerRun = 2
  MaxCustom = 1
  MaxStarts = 3
  Cycles = {k1, k2}
  Faulty = {"outreach_qa"}
  w1 = w1
  w2 = w2
  j1 = j1
  j2 = j2
  NoName = NoName
  Jobs <- MCJobs
  Workers <- MCWorkers
  Names <- MCNames
  NameOf <- MCNameOf
  MaxAttempts <- MCMaxAttempts
  MaxCrashes = 2
  MaxDrops = 2
INVARIANTS UnverifiedIsFailed
CHECK_DEADLOCK FALSE
