SPECIFICATION Spec
CONSTANTS
  u1 = u1  u2 = u2  c1 = c1  r1 = r1  r2 = r2
  p1 = p1  g1 = g1  g2 = g2
  Nil = Nil
  Users = {u1, u2}
  Challenges = {c1}
  Requests = {r1}
  MobileOf <- MobileShared
  CommunityOf <- TwoCommunities
  MaxAttempts = 2
  MaxGuesses = 3
INVARIANT TypeOK
INVARIANT AttemptsExact
INVARIANT HolderAnsweredCode
PROPERTY RevocationStands
PROPERTY ImplementsOtp
