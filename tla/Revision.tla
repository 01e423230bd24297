------------------------------ MODULE Revision ------------------------------
(***************************************************************************)
(* What migrating promises: a database is at one of two revisions and      *)
(* moves between them at once, for the one migrator that set out from the  *)
(* revision it is at; whoever else set out from there has failed.          *)
(***************************************************************************)
CONSTANT Migrators

VARIABLES
  at,      \* the revision of the database: "base" or "head"
  aim      \* the revision a migrator is working towards, or how it stands

Init ==
  /\ at = "base"
  /\ aim = [m \in Migrators |-> "idle"]

\* A migrator that finds the database where it wants it has nothing to do.
Begin(m, to) ==
  /\ aim[m] = "idle"
  /\ aim' = [aim EXCEPT ![m] = IF at = to THEN "nothing" ELSE to]
  /\ UNCHANGED at

Succeed(m) ==
  /\ \/ aim[m] = "nothing" /\ UNCHANGED at
     \/ aim[m] \in {"base", "head"} \ {at} /\ at' = aim[m]
  /\ aim' = [aim EXCEPT ![m] = "idle"]

Fail(m) ==
  /\ aim[m] # "idle"
  /\ aim' = [aim EXCEPT ![m] = "idle"]
  /\ UNCHANGED at

Next ==
  \E m \in Migrators : Succeed(m) \/ Fail(m) \/ \E to \in {"base", "head"} : Begin(m, to)

Spec == Init /\ [][Next]_<<at, aim>>
=============================================================================
