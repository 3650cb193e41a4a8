\* Two replaces, a GET and the sweeper meeting on one link, with a storage error.
CONSTANTS
  Slugs = {s1}
  Uploads = {u1}
  Replaces = {p1, p2}
  Deletes = {}
  Gets = {g1}
  Exts = {html, pdf, partial}
  PartialExt = partial
  SentExts = {html, pdf}
  AskedTTLs = {1}
  MinTTL = 1
  MaxTTL = 1
  ReapAge = 1
  MaxNow = 1
  MaxFaults = 1
  NoRow = NoRow
  NoFile = NoFile
  NoSlug = NoSlug
  SlugRetries = 1
  MayHangUp = {}
  QueriesFail = TRUE
  Overlap = TRUE
  Stalls = TRUE
  MaxCrashes = 0
  MaxStops = 0
SPECIFICATION Spec
SYMMETRY Symmetry
INVARIANT Serving
INVARIANT ServedFaithful
PROPERTY KeepsPromise
