-------------------------- MODULE MCTokenLifecycle --------------------------
(* Small instances of TokenLifecycle.                                      *)
EXTENDS TokenLifecycle, TLC

CONSTANTS u1, g1, g2, j1, j2, r1

\* A jti is only ever compared with another.
JtiSymmetry == Permutations(Jtis)
=============================================================================
