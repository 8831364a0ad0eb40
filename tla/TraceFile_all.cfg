SPECIFICATION Spec
CONSTANTS
  ByteBase = 14
  MaxRecordSize = 400
  MaxMapRegions = 4
  MaxCategories = 3
  NsPerSecond = 10
  Metadata <- MCMetadata
  Headers <- MCHeaders
  Chunks <- MCChunks
  FaultsOf <- MCFaultsOf
  Queries <- MCQueries
  MaxChunks = 2
  MaxFileSize = 1200
  ReservedTail = 300
  MaxStored = 500
  MaxRatio = 4
  MaxHeader = 100
INVARIANTS
  ReadsBack
  ViewsAgree
