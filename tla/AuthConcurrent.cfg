SPECIFICATION LiveSpec
CONSTANTS
  u1 = u1  u2 = u2  c1 = c1  r1 = r1  r2 = r2
  p1 = p1  g1 = g1  g2 = g2
  Nil = Nil
  Users = {u1, u2}
  Challenges = {c1}
  Requests = {r1, r2}
  MobileOf <- MobileShared
  CommunityOf <- OneCommunity
  MaxAttempts = 1
  MaxGuesses = 1
INVARIANT NoOvercount
INVARIANT UniqueMobile
PROPERTY DeletedStaysDeleted
PROPERTY RequestCompletes
