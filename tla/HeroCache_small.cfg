SPECIFICATION RolesSpec
CONSTANTS
  reader = reader
  one = one
  two = two
  old = old
  new = new
  other = other
  third = third
  Call = {reader, one, two}
  Data <- SmallData
  Requests <- SmallRequests
  Rows <- SmallRows
  None = None
  MaxId = 4
INVARIANTS
  WritesLand
  CacheHonest
PROPERTIES
  CacheHeals
