--------------------------- MODULE MCAuthService ---------------------------
(* Small instances of AuthService.                                         *)
EXTENDS AuthServiceSequential, TLC

CONSTANTS u1, u2, c1, r1, r2, p1, g1, g2

\* Two people with one mobile: rows of two communities, so that a challenge
\* to the mobile is ambiguous while both exist.
MobileShared == u1 :> p1 @@ u2 :> p1
TwoCommunities == u1 :> g1 @@ u2 :> g2

\* Two ids for one mobile in one community: only one can exist at a time.
OneCommunity == u1 :> g1 @@ u2 :> g1

\* One person.
MobileOne == u1 :> p1
CommunityOne == u1 :> g1
=============================================================================
