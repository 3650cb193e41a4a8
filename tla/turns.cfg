\* Two replaces of one link that take turns, a delete whose client may hang up
\* and the sweeper, then a SIGTERM; no storage call is slow.
CONSTANTS
  Slugs = {s1}
  Uploads = {u1}
  Replaces = {p1, p2}
  Deletes = {d1}
  Gets = {}
  Exts = {html, pdf, partial}
  PartialExt = partial
  SentExts = {html, pdf}
  AskedTTLs = {1, 2}
  MinTTL = 2
  MaxTTL = 2
  ReapAge = 1
  MaxNow = 5
  MaxFaults = 0
  NoRow = NoRow
  NoFile = NoFile
  NoSlug = NoSlug
  SlugRetries = 1
  MayHangUp = {d1}
  QueriesFail = TRUE
  Overlap = FALSE
  Stalls = FALSE
  MaxCrashes = 0
  MaxStops = 1
SPECIFICATION Spec
SYMMETRY Symmetry
INVARIANT Turns
INVARIANT Schedule
INVARIANT Accounts
INVARIANT RowDescribesFile
INVARIANT SweptOnTime
PROPERTY CleanStop
