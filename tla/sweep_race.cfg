\* A replace renews a link between the sweeper's query and its DELETE.
CONSTANTS
  Slugs = {s1}
  Uploads = {u1}
  Replaces = {p1}
  Deletes = {}
  Gets = {}
  Exts = {html, pdf, partial}
  PartialExt = partial
  SentExts = {html, pdf}
  AskedTTLs = {1}
  MinTTL = 1
  MaxTTL = 1
  ReapAge = 1
  MaxNow = 1
  MaxFaults = 0
  NoRow = NoRow
  NoFile = NoFile
  NoSlug = NoSlug
  SlugRetries = 1
  MayHangUp = {}
  QueriesFail = TRUE
  Overlap = TRUE
  Stalls = TRUE
  MaxCrashes = 0
  MaxStops = 0
SPECIFICATION Spec
SYMMETRY Symmetry
PROPERTY SweepsOnlyExpired
