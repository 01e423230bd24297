SPECIFICATION LiveSpec
CONSTANTS
  s1 = s1  s2 = s2  x1 = x1  x2 = x2  x3 = x3  g1 = g1  g2 = g2
  Nil = Nil
  Gone = Gone
  Clean = Clean
  Communities = {g1, g2}
  Rows = {x1, x2, x3}
  Sessions = {s1, s2}
  TableOf <- Mirrored
  MaxStatements = 2
  MaxVersion = 2
INVARIANT TypeOK
INVARIANT VersionCountsChanges
INVARIANT NoFriendship
PROPERTY SameVersionSameRows
PROPERTY WaitEnds
