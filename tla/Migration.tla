----------------------------- MODULE Migration -----------------------------
(***************************************************************************)
(* "alembic upgrade head" and "alembic downgrade base", run by any number  *)
(* of processes at any time: each sends the statements of its script on    *)
(* one connection and in one transaction.  PostgreSQL keeps what a         *)
(* transaction creates and drops from the others until it commits, makes   *)
(* them wait where they touch it, and rolls all of it back if a statement  *)
(* is refused or the process goes away.                                    *)
(***************************************************************************)
EXTENDS Naturals, InitialSchema, Models

CONSTANT Migrators

\* alembic_version and the one row it holds at the head.
VersionTable == Object("table", "alembic_version", "", {}, <<>>)
Stamp == Object("revision", "61aa11b09d9f", "alembic_version", {}, <<>>)

\* What run_migrations sends, by what it reads in alembic_version first.
Scripts ==
  [upgrade |-> << CreateIfMissing({VersionTable}) >> \o Upgrade \o << Create({Stamp}) >>,
   downgrade |-> Downgrade \o << Drop(Stamp) >>,
   table |-> << CreateIfMissing({VersionTable}) >>,
   nothing |-> << >>]

\* A plausible bug: alembic_version is not read.
ScriptForUnread(to, stamped) == IF to = "head" THEN "upgrade" ELSE "downgrade"

ScriptFor(to, stamped) ==
  CASE to = "head" /\ stamped -> "nothing"
    [] to = "head" /\ ~stamped -> "upgrade"
    [] to = "base" /\ stamped -> "downgrade"
    [] to = "base" /\ ~stamped -> "table"

VARIABLES
  catalog,   \* the committed objects
  mig        \* the processes

vars == <<catalog, mig>>

(* A process: done counts the statements of its script that have run; made *)
(* and dropped are what they did, uncommitted.  overtaken is history: some *)
(* other transaction has committed since this one began.                   *)
Resting(pc) == [pc |-> pc, script |-> "nothing", done |-> 0,
                made |-> {}, dropped |-> {}, overtaken |-> FALSE]

Init ==
  /\ catalog = {}
  /\ mig = [m \in Migrators |-> Resting("idle")]

-----------------------------------------------------------------------------
(* Two more, for the promise and for liveness.                             *)

\* The process runs without a transaction.
DoneSoFar(m) == (catalog \ mig[m].dropped) \cup mig[m].made
AbortedHolding(t) == [t EXCEPT !.pc = "refused"]

-----------------------------------------------------------------------------
Running(m) == mig[m].pc \in {"run", "wait"}
Statement(m) == Scripts[mig[m].script][mig[m].done + 1]

\* The database as the transaction sees it.
View(m) == (catalog \ mig[m].dropped) \cup mig[m].made

\* The objects a statement names: those the DO block finds are the tables in
\* sight that have an updated_at.
Named(m) ==
  IF Statement(m).op = "attach"
    THEN {Trigger("trg_updated_at", o.on, "tg_set_updated_at") :
            o \in {c \in View(m) : c.kind = "column" /\ c.name = "updated_at"}}
    ELSE Statement(m).objects

DependsOn(o, x) == x.name \in o.needs \cup {o.on}

\* The statement waits for the transaction of n to end: to create a name that
\* n has created or dropped, to create something on or with an object n has
\* dropped, to drop what n has dropped or something that n's objects need.
WaitsFor(m, n) ==
  \E x \in Named(m) :
    IF Statement(m).op = "drop"
      THEN /\ Id(x) \in Ids(View(m))
           /\ \/ Id(x) \in Ids(mig[n].dropped)
              \/ \E o \in mig[n].made \cup mig[n].dropped : DependsOn(o, x)
      ELSE \/ Id(x) \in Ids(mig[n].made \cup mig[n].dropped)
           \/ \E o \in mig[n].dropped : DependsOn(x, o)

MustWait(m) == \E n \in Migrators \ {m} : WaitsFor(m, n)

\* A cycle of transactions that wait for each other passes through m.
Deadlocked(m) ==
  \E S \in SUBSET Migrators :
    /\ m \in S
    /\ \A o \in S : /\ mig[o].pc = "wait"
                    /\ \E p \in S \ {o} : WaitsFor(o, p)
                    /\ \E p \in S \ {o} : mig[p].pc = "wait" /\ WaitsFor(p, o)

Present(m) == \E x \in Named(m) : Id(x) \in Ids(View(m))

\* Everything a new object needs is there, or is made by the same statement.
Supported(m) ==
  LET there == Names(View(m) \cup Named(m)) IN
  \A x \in Named(m) : x.needs \cup ({x.on} \ {""}) \subseteq there

\* What goes when x is dropped: x and what is on it.  Without CASCADE a
\* DROP is refused while anything else depends on x.
GoesWith(m, x) == {o \in View(m) : Id(o) = Id(x) \/ o.on = x.name}
Kept(m, x) == \E o \in View(m) \ GoesWith(m, x) : x.name \in o.needs

Skipped(m) ==
  /\ Statement(m).lenient
  /\ IF Statement(m).op = "drop" THEN ~Present(m) ELSE Present(m) /\ mig[m].pc # "wait"

Accepted(m) ==
  IF Statement(m).op = "drop"
    THEN Present(m) /\ \A x \in Named(m) : ~Kept(m, x)
    ELSE ~Present(m) /\ Supported(m)

-----------------------------------------------------------------------------
(* What becomes of a process whose statement is refused, whose connection  *)
(* is lost or which is stopped.                                            *)
Aborted(t) == [Resting("refused") EXCEPT !.overtaken = t.overtaken]

\* What the database is left with when a transaction does not commit.
LeftBehind(m) == catalog

Become(m, t) == mig' = [mig EXCEPT ![m] = t]

Advanced(t) == [t EXCEPT !.pc = "run", !.done = @ + 1]

\* connectable.connect(), context.begin_transaction(), get_current_heads().
Begin(m, to) ==
  /\ mig[m].pc \in {"idle", "refused"}
  /\ Become(m, [Resting("run") EXCEPT !.script = ScriptFor(to, Stamp \in catalog)])
  /\ UNCHANGED catalog

Pending(m) == Running(m) /\ mig[m].done < Len(Scripts[mig[m].script])

Wait(m) ==
  /\ Pending(m) /\ mig[m].pc = "run"
  /\ MustWait(m)
  /\ Become(m, [mig[m] EXCEPT !.pc = "wait"])
  /\ UNCHANGED catalog

\* The next statement; one that is refused ends the process.
Run(m) ==
  LET x == Named(m)
      gone == UNION {GoesWith(m, y) : y \in x}
  IN
  /\ Pending(m)
  /\ ~MustWait(m)
  /\ IF Skipped(m) THEN Become(m, Advanced(mig[m]))
     ELSE IF ~Accepted(m) THEN Become(m, Aborted(mig[m]))
     ELSE IF Statement(m).op = "drop"
       THEN Become(m, [Advanced(mig[m]) EXCEPT !.made = @ \ gone,
                                               !.dropped = @ \cup (gone \cap catalog)])
       ELSE Become(m, [Advanced(mig[m]) EXCEPT !.made = @ \cup x])
  /\ UNCHANGED catalog

\* The script is through: the transaction commits as a whole.
Finish(m) ==
  /\ Running(m)
  /\ mig[m].done = Len(Scripts[mig[m].script])
  /\ catalog' = View(m)
  /\ mig' = [n \in Migrators |->
               IF n = m THEN Resting("idle")
               ELSE IF Running(n) /\ View(m) # catalog THEN [mig[n] EXCEPT !.overtaken = TRUE]
               ELSE mig[n]]

\* The process is stopped or loses its connection.
Stop(m) ==
  /\ Running(m)
  /\ catalog' = LeftBehind(m)
  /\ Become(m, Resting("idle"))

\* PostgreSQL's deadlock detector aborts one transaction of the cycle.
AbortDeadlocked(m) ==
  /\ Deadlocked(m)
  /\ Become(m, Resting("idle"))
  /\ UNCHANGED catalog

Next ==
  \E m \in Migrators :
    \/ Wait(m) \/ Run(m) \/ Finish(m) \/ Stop(m) \/ AbortDeadlocked(m)
    \/ \E to \in {"head", "base"} : Begin(m, to)

Spec == Init /\ [][Next]_vars

\* A process goes on, the deadlock detector runs, and lock queues are first
\* come, first served: a statement that may run again and again does.
Fairness ==
  \A m \in Migrators :
    WF_vars(Wait(m)) /\ WF_vars(Finish(m)) /\ WF_vars(AbortDeadlocked(m)) /\ SF_vars(Run(m))

LiveSpec == Spec /\ Fairness

-----------------------------------------------------------------------------
(* "re-upgrading does not hit 'type already exists'": no statement of a    *)
(* process is ever refused, whatever was migrated up and down and cut off  *)
(* before it, unless another process committed a migration meanwhile: the  *)
(* drops come in an order the dependencies allow and undo all there was.   *)
(* Nor do two processes block each other, unless one of them has set out   *)
(* from a revision that is gone.                                           *)
FailsOnlyIfOvertaken ==
  /\ \A m \in Migrators : mig[m].pc = "refused" => mig[m].overtaken
  /\ (\E m \in Migrators : Deadlocked(m)) => \E n \in Migrators : Running(n) /\ mig[n].overtaken

\* Both ends: everything the models declare and the stamp; or nothing, but
\* for the extensions and the empty alembic_version.
Revised ==
  IF Stamp \in catalog /\ Declared \subseteq catalog THEN "head"
  ELSE IF \A o \in catalog : o.kind = "extension" \/ o = VersionTable THEN "base"
  ELSE "torn"

Aim(m) ==
  IF ~Running(m) THEN "idle"
  ELSE CASE mig[m].script = "upgrade" -> "head"
         [] mig[m].script = "downgrade" -> "base"
         [] mig[m].script \in {"table", "nothing"} -> "nothing"

Promise == INSTANCE Revision WITH at <- Revised, aim <- [m \in Migrators |-> Aim(m)]

(* All or nothing: seen from outside, the database holds all the models    *)
(* declare or nothing at all, whichever processes were stopped where, and  *)
(* of those that set out from one revision one at most succeeds.           *)
ImplementsRevision == Promise!Spec

(* A migration ends, done or refused, however often others are started     *)
(* that hold what it waits for.                                            *)
MigrationEnds == \A m \in Migrators : Running(m) ~> ~Running(m)
=============================================================================
