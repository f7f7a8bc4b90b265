SPECIFICATION StoreSpec
CONSTANTS
  x = x
  y = y
  e = e
  a = a
  b = b
  plain = plain
  renamed = renamed
  Absent = Absent
  Calls = {r1, r2, r3}
  KnownNodes = {x, y}
  KnownEdges = {e}
  Configs = {a, b}
  Names = {plain, renamed}
  Ends <- MCEnds
  Seed <- MCSeed
  Patches <- MCPatches
CHECK_DEADLOCK FALSE
PROPERTY RestoreIsNeverDestructive
