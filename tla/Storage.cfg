CONSTANTS
  r1 = r1
  r2 = r2
  Ids <- MCIds
  Handlers = {h1, h2}
  RecHandlers = {h1, h2}
  Temps <- MCTemps
  Size <- MCSize
  Category <- MCCategory
  Source <- MCSource
  Quotas <- MCQuotas
  Disk = 1000
  MaxUserUploads = 2
  MaxUploads = 8
  Loads <- MCLoads
  Recs = {r1, r2}
  Sizes = {1, 2, 3}
  MaxFileBytes = 2
  PreviewBytes = 1
  Allowances = {2, 3}
  MaxActive = 2
  Works <- MCRecordings
SPECIFICATION StorageSpec
CHECK_DEADLOCK FALSE
INVARIANTS AttachmentsKept 
PROPERTIES StorageSettles
