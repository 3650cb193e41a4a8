\* Liveness with storage errors, a hung-up client and a SIGTERM.
CONSTANTS
  Slugs = {s1}
  Uploads = {u1}
  Replaces = {p1}
  Deletes = {d1}
  Gets = {}
  Exts = {html, partial}
  PartialExt = partial
  SentExts = {html}
  AskedTTLs = {1}
  MinTTL = 1
  MaxTTL = 1
  ReapAge = 1
  MaxNow = 1
  MaxFaults = 1
  NoRow = NoRow
  NoFile = NoFile
  NoSlug = NoSlug
  SlugRetries = 1
  MayHangUp = {p1}
  QueriesFail = TRUE
  Overlap = TRUE
  Stalls = TRUE
  MaxCrashes = 1
  MaxStops = 1
SPECIFICATION FairSpec
PROPERTY AllAnswered
PROPERTY LapsedRowGoes
PROPERTY RetiredBytesGo
PROPERTY StaleScratchGoes
PROPERTY ShutdownEnds
