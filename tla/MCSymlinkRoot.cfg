SPECIFICATION Spec
CONSTANTS
  Paths <- MCPaths
  KindsAt <- MCKindsAt
  NameRank <- MCNameRank
  PathRank <- MCPathRank
  MaxChanges = 2
INVARIANT ListsFilesUnderRoot
