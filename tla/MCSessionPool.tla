---------------------------- MODULE MCSessionPool ----------------------------
(* Small instances of SessionPool.                                         *)
EXTENDS SessionPool, TLC

CONSTANTS r1, r2, k1, g1

\* A promotion, one whose user is deleted meanwhile, a new challenge, a wrong code, a revoked user, a code that
\* compare_digest refuses, and bodies that are refused.
Mixed ==
  {Path(<<"redis", "select", "update", "redis">>, "OK"),
   Path(<<"redis", "select", "select">>, "StaleDataError"),
   Path(<<"select", "redis">>, "OK"),
   Path(<<"redis", "redis">>, "AuthenticationError"),
   Path(<<"redis", "select">>, "AuthenticationError"),
   Path(<<"redis">>, "TypeError")} \cup Malformed
==============================================================================
