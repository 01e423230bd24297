SPECIFICATION Spec
CONSTANTS
  u1 = u1  u2 = u2  c1 = c1  r1 = r1  r2 = r2
  p1 = p1  g1 = g1  g2 = g2
  Nil = Nil
  Users = {u1}
  Challenges = {c1}
  Requests = {r1, r2}
  MobileOf <- MobileOne
  CommunityOf <- CommunityOne
  MaxAttempts = 2
  MaxGuesses = 3
INVARIANT CapRespected
