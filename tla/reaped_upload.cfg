\* A live upload named *.partial, and a restart.
CONSTANTS
  Slugs = {s1}
  Uploads = {u1}
  Replaces = {}
  Deletes = {}
  Gets = {}
  Exts = {partial}
  PartialExt = partial
  SentExts = {partial}
  AskedTTLs = {2}
  MinTTL = 1
  MaxTTL = 2
  ReapAge = 1
  MaxNow = 1
  MaxFaults = 0
  NoRow = NoRow
  NoFile = NoFile
  NoSlug = NoSlug
  SlugRetries = 1
  MayHangUp = {}
  QueriesFail = TRUE
  Overlap = TRUE
  Stalls = TRUE
  MaxCrashes = 1
  MaxStops = 0
SPECIFICATION Spec
SYMMETRY Symmetry
PROPERTY ReapSparesLinks
