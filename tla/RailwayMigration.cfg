SPECIFICATION Spec
CONSTANTS
  Rows <- AllRows
  Source <- SourceRows
  Parents <- References
  Secrets <- SecretRows
  Files <- ReportFiles
  Seeded <- AppSeeds
  Refused <- None
  Envs <- AnyEnvironment
  MaxFaults = 3
INVARIANTS
  TypeOK
  ExitZeroIsComplete
PROPERTIES
  ExistingRowsKept
  EventuallyComplete
