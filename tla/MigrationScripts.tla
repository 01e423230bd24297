-------------------------- MODULE MigrationScripts --------------------------
(***************************************************************************)
(* The two scripts of Migration, statement by statement: what each of them *)
(* makes or takes away when nobody interferes.  The assumptions are closed *)
(* formulas about the scripts; TLC evaluates them with every run of        *)
(* Migration, and the theorems about any number of processes start from    *)
(* them.                                                                   *)
(***************************************************************************)
EXTENDS Migration

Up == Scripts["upgrade"]
Down == Scripts["downgrade"]

\* The statements before the first that is not IF NOT EXISTS: the table
\* alembic_version and the extensions, which no downgrade takes away.
Preamble == 4

\* What the i-th statement of the upgrade makes, the DO block included.
Stamped ==
  {o \in UNION {Up[i].objects : i \in 1 .. Len(Up)} : o.kind = "column" /\ o.name = "updated_at"}
Makes(i) ==
  IF Up[i].op = "attach"
    THEN {Trigger("trg_updated_at", o.on, "tg_set_updated_at") : o \in Stamped}
    ELSE Up[i].objects

\* The database after k statements, before the first and after the last of
\* the tables, and at the head.
Built(k) == UNION {Makes(i) : i \in 1 .. k}
Ground == Built(Preamble)
Whole == Built(Len(Up))

\* What the i-th statement of the downgrade takes away, and the first k do.
Takes(i) == {o \in Whole : \E x \in Down[i].objects : Id(o) = Id(x) \/ o.on = x.name}
Taken(k) == UNION {Takes(i) : i \in 1 .. k}

-----------------------------------------------------------------------------
(* Kind, name and table tell the objects of the head apart.                *)
ASSUME NamesAssumption ==
  /\ \A a, b \in Whole : Id(a) = Id(b) => a = b
  /\ \A a \in Whole : a.name # ""

(* Both ends: the stamp and all the models declare are made, the stamp not *)
(* before the tables; before them there is nothing but alembic_version and *)
(* the extensions.                                                         *)
ASSUME EndsAssumption ==
  /\ Declared \subseteq Whole
  /\ Stamp \in Whole \ Ground
  /\ \A o \in Ground : o.kind = "extension" \/ o = VersionTable

(* The preamble says IF NOT EXISTS and needs nothing; the statement after  *)
(* it does not.  A downgrade with nothing to undo only makes               *)
(* alembic_version.                                                        *)
ASSUME PreambleAssumption ==
  /\ Len(Up) \in Nat /\ Len(Down) \in Nat /\ Preamble < Len(Up)
  /\ \A i \in 1 .. Preamble :
       /\ Up[i].op = "create" /\ Up[i].lenient
       /\ \E x \in Up[i].objects : Up[i].objects = {x} /\ x.on = "" /\ x.needs = {}
  /\ Up[Preamble + 1].op = "create" /\ ~Up[Preamble + 1].lenient
  /\ Scripts["table"] = << Up[1] >>

(* Every statement of the upgrade makes something, all of it new, and what *)
(* that needs is there: the DO block finds every updated_at.               *)
ASSUME UpAssumption ==
  \A i \in 1 .. Len(Up) :
    /\ Up[i].op \in {"create", "attach"}
    /\ Up[i].op = "attach" => Stamped \subseteq Built(i - 1)
    /\ Makes(i) # {}
    /\ \A x \in Makes(i) :
         /\ Id(x) \notin Ids(Built(i - 1))
         /\ x.needs \cup ({x.on} \ {""}) \subseteq Names(Built(i - 1) \cup Makes(i))

(* Every statement of the downgrade drops one object, which is there and   *)
(* which nothing else needs any more, and in the end only what precedes    *)
(* the tables is left.                                                     *)
ASSUME DownAssumption ==
  /\ \A i \in 1 .. Len(Down) :
       /\ Down[i].op = "drop"
       /\ \E x \in Down[i].objects :
            /\ Down[i].objects = {x}
            /\ Id(x) \in Ids(Whole \ (Taken(i - 1) \cup Ground))
            /\ \A o \in Whole \ Taken(i) : x.name \notin o.needs
  /\ Whole \ Taken(Len(Down)) = Ground

(* The first statement of the downgrade, DROP ... IF EXISTS, drops the     *)
(* view, the second fails without its object.  The view goes with no other *)
(* object, and a later statement is refused while the view is there.       *)
ASSUME ViewAssumption ==
  /\ Balances \in Takes(1) /\ Balances \notin Ground
  /\ \A i \in 2 .. Len(Down) : Balances \notin Takes(i)
  /\ ~Down[2].lenient
  /\ \E i \in 3 .. Len(Down) :
       /\ ~Down[i].lenient
       /\ \E x \in Down[i].objects : x.name \in Balances.needs
=============================================================================
