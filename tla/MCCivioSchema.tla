--------------------------- MODULE MCCivioSchema ---------------------------
(* Small instances of CivioSchema.                                         *)
EXTENDS CivioSchema, TLC

CONSTANTS g1, u1, c1, t1, k1, l1, l2, b1, b2, i1

\* A user with a consent and an announcement, a call, and what was charged
\* for it, to the user or to the community.
Estate ==
  g1 :> "communities" @@ u1 :> "users" @@ c1 :> "consent_records" @@
  t1 :> "announcements" @@ k1 :> "call_logs" @@ l1 :> "token_ledger" @@
  l2 :> "token_ledger" @@ b1 :> "billing_records" @@ b2 :> "billing_records"
=============================================================================
