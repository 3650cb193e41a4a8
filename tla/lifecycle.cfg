\* Two uploads and a replace over two slugs: slug collisions, a storage error,
\* a crash and the boot after it, an upload named *.partial.
CONSTANTS
  Slugs = {s1, s2}
  Uploads = {u1, u2}
  Replaces = {p1}
  Deletes = {}
  Gets = {}
  Exts = {html, partial}
  PartialExt = partial
  SentExts = {html, partial}
  AskedTTLs = {1}
  MinTTL = 1
  MaxTTL = 2
  ReapAge = 1
  MaxNow = 1
  MaxFaults = 1
  NoRow = NoRow
  NoFile = NoFile
  NoSlug = NoSlug
  SlugRetries = 2
  MayHangUp = {}
  QueriesFail = TRUE
  Overlap = TRUE
  Stalls = TRUE
  MaxCrashes = 1
  MaxStops = 0
SPECIFICATION Spec
SYMMETRY Symmetry
INVARIANT TypeOK
INVARIANT IInv
INVARIANT DurableUpload
INVARIANT FailedUploadUndone
INVARIANT AnsweredLeavesNoScratch
PROPERTY BootRepairs
