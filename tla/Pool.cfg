SPECIFICATION LiveSpec
CONSTANTS
  r1 = r1  r2 = r2  k1 = k1  g1 = g1
  Nil = Nil
  Orphan = Orphan
  Requests = {r1, r2}
  Slots = {k1}
  Communities = {g1}
  Handled <- Mixed
INVARIANT TypeOK
INVARIANT NothingLeaks
INVARIANT AnswerIsTrue
INVARIANT FaultsStayBehind
PROPERTY RequestEnds
