-------------------------- MODULE MigrationProofs --------------------------
(***************************************************************************)
(* Any number of alembic processes over one database, whatever is stopped, *)
(* refused or deadlocked: from what each script does when nobody           *)
(* interferes (MigrationScripts) to what they do together.                 *)
(***************************************************************************)
EXTENDS MigrationScripts, TLAPS

-----------------------------------------------------------------------------
(* The inductive invariant.                                                *)

Process ==
  [pc : {"idle", "refused", "run", "wait"}, script : {"upgrade", "downgrade", "table", "nothing"},
   done : Nat, made : SUBSET Whole, dropped : SUBSET Whole, overtaken : BOOLEAN]

TypeOK ==
  /\ catalog \subseteq Whole
  /\ mig \in [Migrators -> Process]
  /\ \A m \in Migrators :
       /\ mig[m].done <= Len(Scripts[mig[m].script])
       /\ ~Running(m) => mig[m].done = 0 /\ mig[m].made = {} /\ mig[m].dropped = {}

\* What the committed database can be: nothing, some of the preamble, or all.
Levels == catalog = Whole \/ \E j \in 0 .. Preamble : catalog = Built(j)

\* An upgrade (or the part of it that a needless downgrade runs) sees all it
\* has made or found, and makes a table only where there is none.
Building(t) ==
  /\ t.dropped = {}
  /\ t.made \cap catalog = {}
  /\ t.made \subseteq Built(t.done)
  /\ Built(t.done) \subseteq catalog \cup t.made
  /\ t.done > Preamble => catalog # Whole

\* A statement of the downgrade that is refused while the view is there.
Blocked(i) == ~Down[i].lenient /\ \E x \in Down[i].objects : x.name \in Balances.needs

\* A downgrade drops from a whole database.  One that has skipped the view,
\* because there was none, and has found a whole database later, is doomed.
Dropping(t) ==
  /\ t.made = {}
  /\ t.dropped \subseteq Taken(t.done)
  /\ t.dropped # {} => catalog = Whole
  /\ t.done >= 2 => t.dropped # {}
  /\ IF Balances \in t.dropped THEN t.dropped = Taken(t.done)
     ELSE \A i \in 3 .. t.done : ~Blocked(i)

Sound(t) == IF t.script = "downgrade" THEN Dropping(t) ELSE Building(t)

\* No two processes have made, or dropped, the same object.
Exclusive ==
  \A m, n \in Migrators :
    m # n => mig[m].made \cap mig[n].made = {} /\ mig[m].dropped \cap mig[n].dropped = {}

\* A process that no commit has overtaken works on the database it has read.
\* It waits to create only what it does not see.
Fresh(t) ==
  /\ t.script = "downgrade" => catalog = Whole /\ (t.done > 0 => Balances \in t.dropped)
  /\ t.script \in {"upgrade", "table"} =>
       /\ catalog # Whole
       /\ t.pc = "wait" /\ t.done < Preamble => Makes(t.done + 1) \cap (catalog \cup t.made) = {}

IInv ==
  /\ TypeOK
  /\ Levels
  /\ \A m \in Migrators : Sound(mig[m])
  /\ Exclusive
  /\ \A m \in Migrators : Running(m) /\ ~mig[m].overtaken => Fresh(mig[m])
  /\ \A m \in Migrators : mig[m].pc = "refused" => mig[m].overtaken

-----------------------------------------------------------------------------
(* The scripts.                                                            *)

LEMMA Sizes == Len(Up) \in Nat /\ Len(Down) \in Nat /\ 4 < Len(Up) /\ 2 < Len(Down)
<1>1. Len(Up) \in Nat /\ Len(Down) \in Nat /\ 4 < Len(Up)
  BY PreambleAssumption DEF Preamble
<1>2. \E i \in 3 .. Len(Down) : TRUE
  BY ViewAssumption
<1> QED
  BY <1>1, <1>2

LEMMA BuiltGrows ==
  /\ Built(0) = {}
  /\ \A k \in Nat : Built(k + 1) = Built(k) \cup Makes(k + 1)
  /\ \A j, k \in Nat : j <= k => Built(j) \subseteq Built(k)
<1>1. Built(0) = {}
  BY DEF Built
<1>2. ASSUME NEW k \in Nat PROVE Built(k + 1) = Built(k) \cup Makes(k + 1)
  <2>1. 1 .. k + 1 = (1 .. k) \cup {k + 1}
    OBVIOUS
  <2> QED
    BY <2>1 DEF Built
<1>3. ASSUME NEW j \in Nat, NEW k \in Nat, j <= k PROVE Built(j) \subseteq Built(k)
  <2>1. 1 .. j \subseteq 1 .. k
    BY <1>3
  <2> QED
    BY <2>1 DEF Built
<1> QED
  BY <1>1, <1>2, <1>3

LEMMA TakenGrows ==
  /\ Taken(0) = {}
  /\ \A k \in Nat : Taken(k + 1) = Taken(k) \cup Takes(k + 1)
  /\ \A j, k \in Nat : j <= k => Taken(j) \subseteq Taken(k)
  /\ \A k \in Nat : Taken(k) \subseteq Whole
<1>1. Taken(0) = {}
  BY DEF Taken
<1>2. ASSUME NEW k \in Nat PROVE Taken(k + 1) = Taken(k) \cup Takes(k + 1)
  <2>1. 1 .. k + 1 = (1 .. k) \cup {k + 1}
    OBVIOUS
  <2> QED
    BY <2>1 DEF Taken
<1>3. ASSUME NEW j \in Nat, NEW k \in Nat, j <= k PROVE Taken(j) \subseteq Taken(k)
  <2>1. 1 .. j \subseteq 1 .. k
    BY <1>3
  <2> QED
    BY <2>1 DEF Taken
<1>4. ASSUME NEW k \in Nat PROVE Taken(k) \subseteq Whole
  BY DEF Taken, Takes
<1> QED
  BY <1>1, <1>2, <1>3, <1>4

\* A statement of the upgrade makes nothing that an earlier one has made.
LEMMA MakesNew ==
  ASSUME NEW i \in 1 .. Len(Up)
  PROVE  /\ Makes(i) # {} /\ Makes(i) \subseteq Whole
         /\ Makes(i) \cap Built(i - 1) = {}
         /\ Built(i) = Built(i - 1) \cup Makes(i)
         /\ Built(i) \subseteq Whole
<1>1. i - 1 \in Nat /\ i = (i - 1) + 1 /\ Len(Up) \in Nat /\ i <= Len(Up)
  BY Sizes
<1>2. Makes(i) # {} /\ \A x \in Makes(i) : Id(x) \notin Ids(Built(i - 1))
  BY UpAssumption
<1>3. Makes(i) \cap Built(i - 1) = {}
  BY <1>2 DEF Ids
<1>4. Built(i) = Built(i - 1) \cup Makes(i)
  BY <1>1, BuiltGrows
<1>5. Built(i) \subseteq Whole
  BY <1>1, BuiltGrows, Sizes DEF Whole
<1> QED
  BY <1>2, <1>3, <1>4, <1>5

\* Seen from the committed database: not the whole is the ground or less.
LEMMA Partial ==
  ASSUME Levels, catalog # Whole
  PROVE  catalog \subseteq Ground
BY BuiltGrows DEF Levels, Ground, Preamble

LEMMA GroundFirst ==
  /\ Ground \subseteq Whole /\ Ground # Whole
  /\ Makes(Preamble + 1) \cap Ground = {} /\ Makes(Preamble + 1) # {}
  /\ Preamble + 1 \in 1 .. Len(Up)
<1>1. Preamble + 1 \in 1 .. Len(Up) /\ (Preamble + 1) - 1 = Preamble
  BY Sizes DEF Preamble
<1>2. Ground \subseteq Whole
  BY Sizes, BuiltGrows DEF Ground, Whole, Preamble
<1> QED
  BY <1>1, <1>2, MakesNew, EndsAssumption DEF Ground

LEMMA StampTells ==
  ASSUME Levels
  PROVE  Stamp \in catalog <=> catalog = Whole
BY Partial, EndsAssumption

\* The statement a process is at, by the script it is in.
LEMMA AtStatement ==
  ASSUME TypeOK, NEW m \in Migrators, Pending(m)
  PROVE  \/ /\ mig[m].script \in {"upgrade", "table"}
            /\ mig[m].done + 1 \in 1 .. Len(Up)
            /\ Statement(m) = Up[mig[m].done + 1]
         \/ /\ mig[m].script = "downgrade"
            /\ mig[m].done + 1 \in 1 .. Len(Down)
            /\ Statement(m) = Down[mig[m].done + 1]
<1> DEFINE t == mig[m]
<1>1. t \in Process /\ t.done < Len(Scripts[t.script])
  BY DEF TypeOK, Pending
<1>2. t.done \in Nat /\ Len(Up) \in Nat /\ Len(Down) \in Nat
  BY <1>1, Sizes DEF Process
<1>3. CASE t.script = "upgrade"
  BY <1>1, <1>2, <1>3 DEF Statement, Up
<1>4. CASE t.script = "table"
  <2>1. Scripts["table"] = << Up[1] >>
    BY PreambleAssumption
  <2>2. t.done < 1
    BY <1>1, <1>4, <2>1
  <2>3. t.done = 0 /\ 1 \in 1 .. Len(Up)
    BY <1>2, <2>2, Sizes
  <2> QED
    BY <1>4, <2>1, <2>3 DEF Statement
<1>5. CASE t.script = "downgrade"
  BY <1>1, <1>2, <1>5 DEF Statement, Down
<1>6. CASE t.script = "nothing"
  <2>1. Scripts["nothing"] = << >>
    BY DEF Scripts
  <2> QED
    BY <1>1, <1>2, <1>6, <2>1
<1> QED
  BY <1>1, <1>3, <1>4, <1>5, <1>6 DEF Process

\* Sets of objects of the head overlap when their names do.
LEMMA SameObject ==
  ASSUME NEW S \in SUBSET Whole, NEW x \in Whole
  PROVE  Id(x) \in Ids(S) <=> x \in S
BY NamesAssumption DEF Ids

\* A DO block that finds every updated_at attaches to these and no other.
LEMMA ColumnsFound ==
  ASSUME NEW i \in 1 .. Len(Up), Stamped \subseteq Built(i - 1)
  PROVE  {c \in Built(i - 1) : c.kind = "column" /\ c.name = "updated_at"} = Stamped
<1>1. ASSUME NEW c \in Built(i - 1), c.kind = "column", c.name = "updated_at"
      PROVE  c \in Stamped
  <2>1. PICK k \in 1 .. i - 1 : c \in Makes(k)
    BY DEF Built
  <2>2. k \in 1 .. Len(Up)
    BY Sizes
  <2>3. Up[k].op # "attach"
    BY <1>1, <2>1 DEF Makes, Trigger, Object
  <2>4. c \in Up[k].objects
    BY <2>1, <2>3 DEF Makes
  <2> QED
    BY <1>1, <2>2, <2>4 DEF Stamped
<1>2. \A c \in Stamped : c.kind = "column" /\ c.name = "updated_at"
  BY DEF Stamped
<1> QED
  BY <1>1, <1>2

-----------------------------------------------------------------------------
(* What a process sees and names.                                          *)

LEMMA Sight ==
  ASSUME TypeOK, NEW m \in Migrators
  PROVE  /\ mig[m] \in Process /\ View(m) \subseteq Whole
         /\ mig[m].done \in Nat /\ mig[m].made \subseteq Whole /\ mig[m].dropped \subseteq Whole
BY DEF TypeOK, Process, View

LEMMA BuilderSees ==
  ASSUME TypeOK, Levels, NEW m \in Migrators, Building(mig[m])
  PROVE  /\ View(m) = catalog \cup mig[m].made
         /\ mig[m].done >= Preamble /\ catalog # Whole => View(m) = Built(mig[m].done)
<1>1. View(m) = catalog \cup mig[m].made
  BY DEF Building, View
<1>2. ASSUME mig[m].done >= Preamble, catalog # Whole
      PROVE  View(m) = Built(mig[m].done)
  <2>1. catalog \subseteq Built(mig[m].done)
    BY <1>2, Partial, Sight, BuiltGrows DEF Ground, Preamble
  <2> QED
    BY <1>1, <2>1 DEF Building
<1> QED
  BY <1>1, <1>2

LEMMA BuilderNames ==
  ASSUME TypeOK, Levels, NEW m \in Migrators, Building(mig[m]), Pending(m),
         mig[m].script \in {"upgrade", "table"}
  PROVE  /\ Named(m) = Makes(mig[m].done + 1)
         /\ Present(m) <=> Makes(mig[m].done + 1) \cap View(m) # {}
<1> DEFINE i == mig[m].done + 1
<1>1. i \in 1 .. Len(Up) /\ Statement(m) = Up[i] /\ i - 1 = mig[m].done
  BY AtStatement, Sight
<1>2. CASE Up[i].op = "attach"
  <2>1. Stamped \subseteq Built(i - 1)
    BY <1>1, <1>2, UpAssumption
  <2>2. ~(i \in 1 .. Preamble) /\ i # Preamble + 1
    BY <1>2, PreambleAssumption
  <2>3. mig[m].done > Preamble
    BY <1>1, <2>2, Sight DEF Preamble
  <2>4. View(m) = Built(i - 1)
    BY <1>1, <2>3, BuilderSees, Sight DEF Building, Preamble
  <2>5. {c \in View(m) : c.kind = "column" /\ c.name = "updated_at"} = Stamped
    BY <1>1, <2>1, <2>4, ColumnsFound
  <2> QED
    BY <1>1, <1>2, <2>5, MakesNew, Sight, SameObject DEF Named, Makes, Present
<1>3. CASE Up[i].op # "attach"
  BY <1>1, <1>3, MakesNew, Sight, SameObject DEF Named, Makes, Present
<1> QED
  BY <1>2, <1>3

-----------------------------------------------------------------------------
(* The invariant.                                                          *)

LEMMA IInvInit == Init => IInv
<1> SUFFICES ASSUME Init PROVE IInv
  OBVIOUS
<1>1. \A m \in Migrators : mig[m] = Resting("idle")
  BY DEF Init
<1>2. Len(Scripts["nothing"]) = 0
  BY DEF Scripts
<1>3. TypeOK
  BY <1>2 DEF Init, TypeOK, Process, Resting, Running
<1>4. Levels
  BY BuiltGrows DEF Init, Levels, Preamble
<1>5. \A m \in Migrators : Sound(mig[m])
  BY <1>1, BuiltGrows DEF Resting, Sound, Building, Preamble
<1>6. Exclusive
  BY <1>1 DEF Exclusive, Resting
<1> QED
  BY <1>1, <1>3, <1>4, <1>5, <1>6 DEF IInv, Running, Resting

\* A process moves, the committed database does not.
LEMMA Move ==
  ASSUME IInv, NEW m \in Migrators, NEW t \in Process, Become(m, t), UNCHANGED catalog,
         t.done <= Len(Scripts[t.script]),
         t.pc \notin {"run", "wait"} => t.done = 0 /\ t.made = {} /\ t.dropped = {},
         Sound(t),
         \A n \in Migrators \ {m} :
           t.made \cap mig[n].made = {} /\ t.dropped \cap mig[n].dropped = {},
         t.pc \in {"run", "wait"} /\ ~t.overtaken => Fresh(t),
         t.pc = "refused" => t.overtaken
  PROVE  IInv'
<1>1. /\ mig \in [Migrators -> Process] /\ mig'[m] = t
      /\ \A n \in Migrators \ {m} : mig'[n] = mig[n]
      /\ mig' \in [Migrators -> Process]
  BY DEF IInv, TypeOK, Become
<1>2. TypeOK'
  BY <1>1 DEF IInv, TypeOK, Running
<1>3. Levels'
  BY DEF IInv, Levels
<1>4. ASSUME NEW n \in Migrators PROVE Sound(mig[n])'
  <2>1. CASE n = m
    BY <1>1, <2>1 DEF Sound, Building, Dropping
  <2>2. CASE n # m
    BY <1>1, <2>2 DEF IInv, Sound, Building, Dropping
  <2> QED
    BY <2>1, <2>2
<1>5. Exclusive'
  BY <1>1 DEF IInv, Exclusive
<1>6. ASSUME NEW n \in Migrators, Running(n)', ~mig'[n].overtaken PROVE Fresh(mig[n])'
  <2>1. CASE n = m
    BY <1>1, <1>6, <2>1 DEF Fresh, Running
  <2>2. CASE n # m
    BY <1>1, <1>6, <2>2 DEF IInv, Fresh, Running
  <2> QED
    BY <2>1, <2>2
<1>7. \A n \in Migrators : mig'[n].pc = "refused" => mig'[n].overtaken
  BY <1>1 DEF IInv
<1> QED
  BY <1>2, <1>3, <1>4, <1>5, <1>6, <1>7 DEF IInv

LEMMA Lengths ==
  /\ Len(Scripts["upgrade"]) = Len(Up) /\ Len(Scripts["downgrade"]) = Len(Down)
  /\ Len(Scripts["table"]) = 1 /\ Len(Scripts["nothing"]) = 0
<1>1. Len(Scripts["table"]) = 1
  <2>1. Scripts["table"] = << Up[1] >>
    BY PreambleAssumption
  <2> QED
    BY <2>1
<1>2. Len(Scripts["nothing"]) = 0
  BY DEF Scripts
<1> QED
  BY <1>1, <1>2 DEF Up, Down

\* A process that comes to rest.
AtRest(t) ==
  /\ t \in Process /\ t.pc \in {"idle", "refused"} /\ t.script = "nothing"
  /\ t.done = 0 /\ t.made = {} /\ t.dropped = {}

LEMMA RestingFields ==
  /\ AtRest(Resting("idle")) /\ Resting("idle").pc = "idle"
  /\ \A q \in Process : AtRest(Aborted(q)) /\ Aborted(q).overtaken = q.overtaken
BY DEF AtRest, Aborted, Resting, Process

LEMMA Rests ==
  ASSUME IInv, NEW m \in Migrators, NEW t, AtRest(t), Become(m, t), UNCHANGED catalog,
         t.pc = "refused" => t.overtaken
  PROVE  IInv'
<1>1. Sound(t)
  BY BuiltGrows DEF AtRest, Sound, Building, Preamble
<1> QED
  BY <1>1, Lengths, Move DEF AtRest

LEMMA BeginStep ==
  ASSUME IInv, NEW m \in Migrators, NEW to \in {"head", "base"}, Begin(m, to)
  PROVE  IInv'
<1> DEFINE s == ScriptFor(to, Stamp \in catalog)
           t == [Resting("run") EXCEPT !.script = s]
<1>1. /\ s \in {"upgrade", "downgrade", "table", "nothing"}
      /\ s \in {"upgrade", "table"} => catalog # Whole
      /\ s = "downgrade" => catalog = Whole
  BY StampTells DEF IInv, ScriptFor
<1>2. /\ t.pc = "run" /\ t.script = s /\ t.done = 0 /\ t.made = {} /\ t.dropped = {}
      /\ t.overtaken = FALSE /\ t \in Process
  BY <1>1 DEF Resting, Process
<1>3. Become(m, t) /\ UNCHANGED catalog
  BY DEF Begin
<1> HIDE DEF s, t
<1>4. Sound(t)
  <2>1. Balances \notin t.dropped /\ \A i \in 3 .. t.done : FALSE
    BY <1>2
  <2> QED
    BY <1>2, <2>1, BuiltGrows, TakenGrows DEF Sound, Building, Dropping, Preamble
<1>5. Fresh(t)
  BY <1>1, <1>2 DEF Fresh
<1>6. 0 <= Len(Scripts[s])
  BY <1>1, Lengths, Sizes
<1> QED
  BY <1>2, <1>3, <1>4, <1>5, <1>6, Move

LEMMA WaitStep ==
  ASSUME IInv, NEW m \in Migrators, Wait(m)
  PROVE  IInv'
<1> DEFINE q == mig[m]
           t == [q EXCEPT !.pc = "wait"]
           i == q.done + 1
<1>1. q \in Process /\ Pending(m) /\ Running(m) /\ MustWait(m)
  BY DEF Wait, IInv, TypeOK, Pending
<1>2. /\ t.pc = "wait" /\ t.script = q.script /\ t.done = q.done /\ t.made = q.made
      /\ t.dropped = q.dropped /\ t.overtaken = q.overtaken /\ t \in Process
  BY <1>1 DEF Process
<1>3. Become(m, t) /\ UNCHANGED catalog
  BY DEF Wait
<1>4. ASSUME ~q.overtaken, q.script \in {"upgrade", "table"}, q.done < Preamble
      PROVE  Makes(i) \cap (catalog \cup q.made) = {}
  <2>1. catalog # Whole /\ Building(q)
    BY <1>1, <1>4 DEF IInv, Fresh, Sound
  <2>2. i \in 1 .. Len(Up) /\ Statement(m) = Up[i] /\ i \in 1 .. Preamble
    BY <1>1, <1>4, AtStatement, Sight DEF IInv, Preamble
  <2>3. PICK x \in Up[i].objects : Up[i].objects = {x} /\ x.on = "" /\ x.needs = {}
    BY <2>2, PreambleAssumption
  <2>4. Up[i].op = "create" /\ Makes(i) = {x} /\ Named(m) = {x} /\ x \in Whole
    BY <2>2, <2>3, PreambleAssumption, MakesNew DEF Makes, Named
  <2>5. PICK n \in Migrators \ {m} : WaitsFor(m, n)
    BY <1>1 DEF MustWait
  <2>6. mig[n].dropped = {} /\ mig[n].made \cap catalog = {} /\ mig[n].made \subseteq Whole
    BY <2>1, Sight DEF IInv, Sound, Building, Dropping
  <2>7. Id(x) \in Ids(mig[n].made)
    BY <2>2, <2>4, <2>5, <2>6 DEF WaitsFor
  <2>8. x \in mig[n].made
    BY <2>4, <2>6, <2>7, SameObject
  <2> QED
    BY <2>4, <2>6, <2>8 DEF IInv, Exclusive
<1> HIDE DEF t, q, i
<1>5. Sound(t)
  BY <1>2 DEF IInv, Sound, Building, Dropping, q
<1>6. ~t.overtaken => Fresh(t)
  BY <1>1, <1>2, <1>4 DEF IInv, Fresh, q, i
<1>7. t.done <= Len(Scripts[t.script])
  BY <1>2 DEF IInv, TypeOK, q
<1>8. \A n \in Migrators \ {m} :
        t.made \cap mig[n].made = {} /\ t.dropped \cap mig[n].dropped = {}
  BY <1>2 DEF IInv, Exclusive, q
<1> QED
  BY <1>2, <1>3, <1>5, <1>6, <1>7, <1>8, Move

LEMMA AdvancedFields ==
  ASSUME NEW q \in Process
  PROVE  /\ Advanced(q) \in Process /\ Advanced(q).pc = "run"
         /\ Advanced(q).script = q.script /\ Advanced(q).done = q.done + 1
         /\ Advanced(q).made = q.made /\ Advanced(q).dropped = q.dropped
         /\ Advanced(q).overtaken = q.overtaken
<1>1. PICK k \in Nat : k = q.done + 1
  BY DEF Process
<1>2. Advanced(q) = [q EXCEPT !.pc = "run", !.done = k]
  BY <1>1 DEF Advanced
<1> QED
  BY <1>1, <1>2 DEF Process

\* A statement of the upgrade, or the one of a needless downgrade.
LEMMA CreateStep ==
  ASSUME IInv, NEW m \in Migrators, Run(m), mig[m].script # "downgrade"
  PROVE  IInv'
<1> DEFINE q == mig[m]
           i == q.done + 1
<1>1. q \in Process /\ Pending(m) /\ Running(m) /\ ~MustWait(m) /\ UNCHANGED catalog
  BY DEF Run, IInv, TypeOK, Pending
<1>2. /\ i \in 1 .. Len(Up) /\ Statement(m) = Up[i] /\ q.done = i - 1
      /\ q.script \in {"upgrade", "table"}
  BY <1>1, AtStatement, Sight DEF IInv
<1>3. Building(q)
  BY DEF IInv, Sound
<1>4. /\ Named(m) = Makes(i) /\ View(m) = catalog \cup q.made
      /\ Present(m) <=> Makes(i) \cap View(m) # {}
      /\ q.done >= Preamble /\ catalog # Whole => View(m) = Built(i - 1)
  BY <1>1, <1>2, <1>3, BuilderNames, BuilderSees DEF IInv
<1>5. Up[i].op # "drop"
  BY <1>2, UpAssumption
<1>m. /\ Makes(i) # {} /\ Makes(i) \subseteq Whole
      /\ Makes(i) \cap Built(i - 1) = {}
      /\ Built(i) = Built(i - 1) \cup Makes(i)
  BY <1>2, MakesNew
\* In the preamble there is one object, past it no statement is skipped.
<1>6. q.done < Preamble => Up[i].lenient /\ \E x : Makes(i) = {x} /\ x.on = "" /\ x.needs = {}
  <2>1. q.done < Preamble => i \in 1 .. Preamble
    BY <1>2, Sizes DEF Preamble
  <2>2. \A k \in 1 .. Preamble :
          Up[k].lenient /\ \E x : Makes(k) = {x} /\ x.on = "" /\ x.needs = {}
    BY PreambleAssumption DEF Makes
  <2> HIDE DEF q, i
  <2> QED
    BY <2>1, <2>2
<1>7. q.done >= Preamble /\ Present(m) => ~Up[i].lenient /\ catalog = Whole
  <2> SUFFICES ASSUME q.done >= Preamble, Present(m) PROVE ~Up[i].lenient /\ catalog = Whole
    OBVIOUS
  <2>1. catalog = Whole
    BY <1>4, <1>m
  <2>2. q.done = Preamble
    BY <1>2, <1>3, <2>1 DEF Building, Preamble
  <2>3. i = Preamble + 1
    BY <1>2, <2>2
  <2> QED
    BY <2>1, <2>3, PreambleAssumption
<1>8. Len(Scripts[q.script]) \in Nat /\ i <= Len(Scripts[q.script])
  BY <1>1, <1>2, Lengths, Sizes DEF Pending
<1> DEFINE ahead == Advanced(q)
           after == [ahead EXCEPT !.made = @ \cup Makes(i)]
<1>9. /\ ahead \in Process /\ ahead.pc = "run" /\ ahead.script = q.script /\ ahead.done = i
      /\ ahead.made = q.made /\ ahead.dropped = q.dropped /\ ahead.overtaken = q.overtaken
  BY <1>1, AdvancedFields
<1>10. /\ after.pc = "run" /\ after.script = q.script /\ after.done = i
       /\ after.made = q.made \cup Makes(i) /\ after.dropped = q.dropped
       /\ after.overtaken = q.overtaken /\ after \in Process
  <2> HIDE DEF ahead
  <2> QED
    BY <1>9, <1>m DEF Process
<1>11. CASE Skipped(m)
  <2>1. Present(m) /\ Up[i].lenient /\ Become(m, ahead)
    BY <1>2, <1>5, <1>11 DEF Skipped, Run
  <2>2. q.done < Preamble
    BY <1>2, <1>7, <2>1 DEF Preamble
  <2>3. Makes(i) \subseteq View(m)
    BY <1>4, <1>6, <2>1, <2>2
  <2> HIDE DEF ahead, after, q, i
  <2>4. Building(ahead)
    BY <1>2, <1>3, <1>4, <1>9, <1>m, <2>2, <2>3 DEF Building, Preamble
  <2>5. Sound(ahead)
    BY <1>2, <1>9, <2>4 DEF Sound
  <2>6. ~ahead.overtaken => Fresh(ahead)
    BY <1>1, <1>2, <1>9 DEF IInv, Fresh, q
  <2>7. \A n \in Migrators \ {m} :
          ahead.made \cap mig[n].made = {} /\ ahead.dropped \cap mig[n].dropped = {}
    BY <1>9 DEF IInv, Exclusive, q
  <2> QED
    BY <1>1, <1>8, <1>9, <2>1, <2>5, <2>6, <2>7, Move
<1>12. CASE ~Skipped(m) /\ Accepted(m)
  <2>1. Makes(i) \cap View(m) = {} /\ Become(m, after)
    BY <1>2, <1>4, <1>5, <1>12 DEF Accepted, Run
  <2>2. ASSUME NEW n \in Migrators \ {m} PROVE Makes(i) \cap mig[n].made = {}
    <3>1. ~WaitsFor(m, n)
      BY <1>1 DEF MustWait
    <3>2. \A x \in Makes(i) : Id(x) \notin Ids(mig[n].made \cup mig[n].dropped)
      BY <1>2, <1>4, <1>5, <3>1 DEF WaitsFor
    <3> QED
      BY <3>2 DEF Ids
  <2>3. i > Preamble => catalog # Whole
    BY <1>4, <1>m, <2>1
  <2> HIDE DEF ahead, after, q, i
  <2>4. Building(after)
    BY <1>2, <1>3, <1>4, <1>10, <1>m, <2>1, <2>3 DEF Building, Preamble
  <2>5. Sound(after)
    BY <1>2, <1>10, <2>4 DEF Sound
  <2>6. ~after.overtaken => Fresh(after)
    BY <1>1, <1>2, <1>10 DEF IInv, Fresh, q
  <2>7. \A n \in Migrators \ {m} :
          after.made \cap mig[n].made = {} /\ after.dropped \cap mig[n].dropped = {}
    BY <1>10, <2>2 DEF IInv, Exclusive, q
  <2> QED
    BY <1>1, <1>8, <1>10, <2>1, <2>5, <2>6, <2>7, Move
<1>13. CASE ~Skipped(m) /\ ~Accepted(m)
  <2>1. Become(m, Aborted(q))
    BY <1>13 DEF Run
  <2>2. ASSUME ~q.overtaken PROVE FALSE
    <3>1. catalog # Whole
      BY <1>1, <1>2, <2>2 DEF IInv, Fresh
    <3>2. Present(m) \/ ~Supported(m)
      BY <1>2, <1>5, <1>13 DEF Accepted
    <3>3. CASE q.done < Preamble
      <4>1. PICK x : Makes(i) = {x} /\ x.on = "" /\ x.needs = {}
        BY <1>6, <3>3
      <4>2. Supported(m)
        BY <1>4, <4>1 DEF Supported
      <4>3. q.pc = "wait"
        BY <1>2, <1>5, <1>6, <1>13, <3>2, <3>3, <4>2 DEF Skipped
      <4>4. Makes(i) \cap View(m) = {}
        BY <1>1, <1>2, <1>4, <2>2, <3>3, <4>3 DEF IInv, Fresh
      <4> QED
        BY <1>4, <3>2, <4>2, <4>4
    <3>4. CASE q.done >= Preamble
      <4>1. View(m) = Built(i - 1) /\ ~Present(m)
        BY <1>4, <1>m, <3>1, <3>4
      <4>2. Supported(m)
        BY <1>2, <1>4, <4>1, UpAssumption DEF Supported
      <4> QED
        BY <3>2, <4>1, <4>2
    <3> QED
      BY <1>1, <3>3, <3>4 DEF Preamble, Process
  <2>3. q.overtaken = TRUE
    BY <1>1, <2>2 DEF Process
  <2> QED
    BY <1>1, <2>1, <2>3, Rests, RestingFields
<1> QED
  BY <1>11, <1>12, <1>13

\* What a downgrade does to the objects it sees, statement by statement.
LEMMA DropperSees ==
  ASSUME TypeOK, Levels, NEW m \in Migrators, Dropping(mig[m]), Pending(m),
         mig[m].script = "downgrade", NEW i, i = mig[m].done + 1
  PROVE  /\ i \in 1 .. Len(Down) /\ mig[m].done = i - 1 /\ Statement(m) = Down[i]
         /\ Statement(m).op = "drop"
         /\ View(m) = catalog \ mig[m].dropped
         /\ Taken(i) = Taken(i - 1) \cup Takes(i)
         /\ Present(m) <=> catalog = Whole
         /\ \E x \in Down[i].objects :
              /\ Named(m) = {x} /\ Down[i].objects = {x}
              /\ GoesWith(m, x) = Takes(i) \cap View(m)
              /\ \A o \in Whole \ Taken(i) : x.name \notin o.needs
              /\ Id(x) \in Ids(Takes(i))
<1>1. /\ i \in 1 .. Len(Down) /\ mig[m].done = i - 1 /\ Statement(m) = Down[i]
      /\ i - 1 \in Nat /\ i = (i - 1) + 1
  BY AtStatement, Sight
<1>2. View(m) = catalog \ mig[m].dropped /\ catalog \subseteq Whole /\ View(m) \subseteq Whole
  BY Sight DEF Dropping, View, TypeOK
<1>3. PICK x \in Down[i].objects :
        /\ Down[i].objects = {x}
        /\ Id(x) \in Ids(Whole \ (Taken(i - 1) \cup Ground))
        /\ \A o \in Whole \ Taken(i) : x.name \notin o.needs
  BY <1>1, DownAssumption
<1>4. Down[i].op = "drop"
  BY <1>1, DownAssumption
<1>5. Named(m) = {x}
  BY <1>1, <1>3, <1>4 DEF Named
<1>6. Takes(i) = {o \in Whole : Id(o) = Id(x) \/ o.on = x.name}
  BY <1>3 DEF Takes
<1>7. GoesWith(m, x) = Takes(i) \cap View(m)
  BY <1>2, <1>6 DEF GoesWith
<1>8. PICK b \in Whole \ (Taken(i - 1) \cup Ground) : Id(b) = Id(x)
  BY <1>3 DEF Ids
<1>9. b \in Takes(i) /\ Id(x) \in Ids(Takes(i))
  BY <1>6, <1>8 DEF Ids
<1>10. Present(m) <=> b \in View(m)
  BY <1>2, <1>5, <1>8, SameObject DEF Present
<1>11. b \in View(m) => catalog = Whole
  BY <1>2, <1>8, Partial
<1>12. catalog = Whole => b \in View(m)
  BY <1>1, <1>2, <1>8 DEF Dropping
<1>13. Taken(i) = Taken(i - 1) \cup Takes(i)
  BY <1>1, TakenGrows
<1> QED
  BY <1>1, <1>2, <1>3, <1>4, <1>5, <1>7, <1>9, <1>10, <1>11, <1>12, <1>13

LEMMA DropStep ==
  ASSUME IInv, NEW m \in Migrators, Run(m), mig[m].script = "downgrade"
  PROVE  IInv'
<1> DEFINE q == mig[m]
<1>1. q \in Process /\ Pending(m) /\ Running(m) /\ ~MustWait(m) /\ UNCHANGED catalog
  BY DEF Run, IInv, TypeOK, Pending
<1>2. Dropping(q)
  BY DEF IInv, Sound
<1>0. PICK i : i = q.done + 1
  OBVIOUS
<1>3. /\ i \in 1 .. Len(Down) /\ q.done = i - 1 /\ Statement(m) = Down[i]
      /\ Statement(m).op = "drop"
      /\ View(m) = catalog \ q.dropped
      /\ Taken(i) = Taken(i - 1) \cup Takes(i)
      /\ Present(m) <=> catalog = Whole
  BY <1>0, <1>1, <1>2, DropperSees DEF IInv
<1>4. PICK x \in Down[i].objects :
        /\ Named(m) = {x} /\ Down[i].objects = {x}
        /\ GoesWith(m, x) = Takes(i) \cap View(m)
        /\ \A o \in Whole \ Taken(i) : x.name \notin o.needs
        /\ Id(x) \in Ids(Takes(i))
  BY <1>0, <1>1, <1>2, DropperSees DEF IInv
<1>5. /\ Len(Scripts[q.script]) \in Nat /\ i <= Len(Scripts[q.script])
      /\ i \in Nat /\ i >= 1 /\ Taken(0) = {}
  BY <1>3, Lengths, Sizes, TakenGrows
<1>6. Balances \in Takes(1) /\ (i >= 2 => Balances \notin Takes(i)) /\ Balances \in Whole
  BY <1>3, <1>5, ViewAssumption DEF Takes
\* One that has not been overtaken has dropped what it was to drop so far.
<1>7. ~q.overtaken => catalog = Whole /\ q.dropped = Taken(i - 1)
  <2> SUFFICES ASSUME ~q.overtaken PROVE catalog = Whole /\ q.dropped = Taken(i - 1)
    OBVIOUS
  <2>1. catalog = Whole /\ (q.done > 0 => Balances \in q.dropped)
    BY <1>1 DEF IInv, Fresh
  <2>2. CASE q.done = 0
    <3>1. i - 1 = 0
      BY <1>3, <2>2
    <3> QED
      BY <1>2, <1>5, <2>1, <2>2, <3>1 DEF Dropping
  <2>3. CASE q.done > 0
    BY <1>2, <1>3, <2>1, <2>3 DEF Dropping
  <2> QED
    BY <1>3, <1>5, <2>2, <2>3
<1>8. CASE Skipped(m)
  <2>1. catalog # Whole /\ Down[i].lenient /\ Become(m, Advanced(q))
    BY <1>3, <1>8 DEF Skipped, Run
  <2>2. i = 1 /\ q.dropped = {}
    BY <1>2, <1>3, <1>5, <2>1, ViewAssumption DEF Dropping
  <2>3. q.overtaken
    BY <1>7, <2>1
  <2>4. PICK t \in Process :
          /\ t = Advanced(q) /\ t.pc = "run" /\ t.script = q.script /\ t.done = i
          /\ t.made = q.made /\ t.dropped = q.dropped /\ t.overtaken = q.overtaken
    BY <1>0, <1>1, AdvancedFields
  <2>5. Sound(t)
    <3>1. t.dropped = {} /\ t.done = 1 /\ t.made = {} /\ t.script = "downgrade"
      BY <1>2, <2>2, <2>4 DEF Dropping
    <3>2. \A k \in 3 .. t.done : FALSE
      BY <3>1
    <3> QED
      BY <3>1, <3>2 DEF Sound, Dropping
  <2>6. \A n \in Migrators \ {m} :
          t.made \cap mig[n].made = {} /\ t.dropped \cap mig[n].dropped = {}
    BY <2>4 DEF IInv, Exclusive
  <2> QED
    BY <1>1, <1>5, <2>1, <2>3, <2>4, <2>5, <2>6, Move
<1>9. CASE ~Skipped(m) /\ Accepted(m)
  <2>1. catalog = Whole /\ ~Kept(m, x)
    BY <1>3, <1>4, <1>9 DEF Accepted
  <2> DEFINE gone == Takes(i) \cap View(m)
             ahead == Advanced(q)
  <2>2. UNION {GoesWith(m, y) : y \in Named(m)} = gone
    BY <1>4
  <2>3. Become(m, [ahead EXCEPT !.made = @ \ gone, !.dropped = @ \cup (gone \cap catalog)])
    BY <1>3, <1>9, <2>2 DEF Run
  <2>4. PICK t \in Process :
          /\ Become(m, t) /\ t.pc = "run" /\ t.script = q.script /\ t.done = i
          /\ t.made = {} /\ t.dropped = q.dropped \cup Takes(i) /\ t.overtaken = q.overtaken
    <3>1. /\ ahead \in Process /\ ahead.pc = "run" /\ ahead.script = q.script
          /\ ahead.done = i /\ ahead.made = {} /\ ahead.dropped = q.dropped
          /\ ahead.overtaken = q.overtaken
      BY <1>0, <1>1, <1>2, AdvancedFields DEF Dropping
    <3>2. q.dropped \cup (gone \cap catalog) = q.dropped \cup Takes(i)
      BY <1>3, <2>1 DEF Takes
    <3>3. ahead.made \ gone = {} /\ q.dropped \cup Takes(i) \in SUBSET Whole
      BY <1>1, <3>1 DEF Process, Takes
    <3> HIDE DEF ahead, gone
    <3>4. PICK t : t = [ahead EXCEPT !.made = {}, !.dropped = q.dropped \cup Takes(i)]
      OBVIOUS
    <3>5. /\ t \in Process /\ t.pc = "run" /\ t.script = q.script /\ t.done = i
          /\ t.made = {} /\ t.dropped = q.dropped \cup Takes(i) /\ t.overtaken = q.overtaken
      BY <3>1, <3>3, <3>4 DEF Process
    <3>6. Become(m, t)
      BY <2>3, <3>1, <3>2, <3>3, <3>4
    <3> QED
      BY <3>5, <3>6
  <2>5. ASSUME Balances \notin q.dropped, i >= 3 PROVE ~Blocked(i)
    <3>1. Balances \in View(m) \ GoesWith(m, x)
      BY <1>3, <1>4, <1>5, <1>6, <2>1, <2>5
    <3> QED
      BY <1>4, <2>1, <3>1 DEF Kept, Blocked
  <2>6. Dropping(t)
    <3>1. t.dropped \subseteq Taken(t.done) /\ t.dropped # {}
      BY <1>2, <1>3, <1>4, <2>4 DEF Dropping, Ids
    <3>2. CASE Balances \in q.dropped
      BY <1>2, <1>3, <2>1, <2>4, <3>1, <3>2 DEF Dropping
    <3>3. CASE Balances \notin q.dropped /\ i = 1
      BY <1>2, <1>3, <1>5, <1>6, <2>1, <2>4, <3>1, <3>3 DEF Dropping
    <3>4. CASE Balances \notin q.dropped /\ i >= 2
      <4>1. Balances \notin t.dropped
        BY <1>6, <2>4, <3>4
      <4>2. \A k \in 3 .. i : k \in 3 .. q.done \/ (k = i /\ i >= 3)
        BY <1>3, <1>5
      <4>3. \A k \in 3 .. i : ~Blocked(k)
        BY <1>2, <2>5, <3>4, <4>2 DEF Dropping
      <4> QED
        BY <2>1, <2>4, <3>1, <4>1, <4>3 DEF Dropping
    <3> QED
      BY <1>5, <3>2, <3>3, <3>4
  <2>7. ~t.overtaken => Fresh(t)
    <3>1. ~t.overtaken => Balances \in t.dropped
      BY <1>1, <1>3, <1>5, <1>6, <2>4 DEF IInv, Fresh
    <3> QED
      BY <2>1, <2>4, <3>1 DEF Fresh
  <2>8. ASSUME NEW n \in Migrators \ {m} PROVE t.dropped \cap mig[n].dropped = {}
    <3>1. ~WaitsFor(m, n) /\ Id(x) \in Ids(View(m))
      BY <1>1, <1>3, <1>4, <2>1 DEF MustWait, Present
    <3>2. /\ Id(x) \notin Ids(mig[n].dropped)
          /\ \A o \in mig[n].dropped : o.on # x.name
      BY <1>3, <1>4, <3>1 DEF WaitsFor, DependsOn
    <3>3. \A o \in Takes(i) : Id(o) = Id(x) \/ o.on = x.name
      BY <1>4 DEF Takes
    <3>4. Takes(i) \cap mig[n].dropped = {}
      BY <3>2, <3>3 DEF Ids
    <3> QED
      BY <2>4, <3>4 DEF IInv, Exclusive
  <2>9. Sound(t)
    BY <2>4, <2>6 DEF Sound
  <2> QED
    BY <1>1, <1>5, <2>4, <2>7, <2>8, <2>9, Move
<1>10. CASE ~Skipped(m) /\ ~Accepted(m)
  <2>1. Become(m, Aborted(q))
    BY <1>10 DEF Run
  <2>2. ASSUME ~q.overtaken PROVE FALSE
    <3>1. Present(m) /\ View(m) \ GoesWith(m, x) \subseteq Whole \ Taken(i)
      BY <1>3, <1>4, <1>7, <2>2
    <3>2. ~Kept(m, x)
      BY <1>4, <3>1 DEF Kept
    <3> QED
      BY <1>3, <1>4, <1>10, <3>1, <3>2 DEF Accepted
  <2>3. q.overtaken = TRUE
    BY <1>1, <2>2 DEF Process
  <2> QED
    BY <1>1, <2>1, <2>3, Rests, RestingFields
<1> QED
  BY <1>8, <1>9, <1>10

\* A commit that changes the database completes one of the three scripts.
LEMMA Commits ==
  ASSUME IInv, NEW m \in Migrators, Finish(m)
  PROVE  \/ mig[m].script \in {"table", "nothing"} /\ catalog' = catalog
         \/ /\ mig[m].script = "table" /\ Building(mig[m])
            /\ catalog' = catalog \cup mig[m].made /\ catalog' = Built(1)
         \/ /\ mig[m].script = "upgrade" /\ Building(mig[m])
            /\ catalog' = catalog \cup mig[m].made /\ catalog' = Whole /\ catalog # Whole
         \/ /\ mig[m].script = "downgrade" /\ Dropping(mig[m])
            /\ mig[m].dropped = Taken(Len(Down)) /\ catalog = Whole /\ catalog' = Ground
<1> DEFINE q == mig[m]
<1>1. /\ q \in Process /\ q.done = Len(Scripts[q.script]) /\ catalog' = View(m)
      /\ TypeOK /\ Levels /\ Sound(q)
  BY DEF IInv, TypeOK, Finish
<1>2. CASE q.script = "nothing"
  <2>1. q.made = {} /\ Building(q)
    BY <1>1, <1>2, Lengths, BuiltGrows DEF Sound, Building
  <2>2. View(m) = catalog
    BY <1>1, <2>1, BuilderSees
  <2> QED
    BY <1>1, <1>2, <2>2
<1>3. CASE q.script = "table"
  <2>1. Building(q) /\ View(m) = catalog \cup q.made /\ q.done = 1
    BY <1>1, <1>3, BuilderSees, Lengths DEF Sound
  <2>2. catalog = Whole => View(m) = catalog
    BY <1>1, <2>1 DEF TypeOK, Process
  <2> SUFFICES ASSUME View(m) # catalog
               PROVE  catalog' = Built(1)
    BY <1>1, <1>3, <2>1
  <2>3. PICK j \in 0 .. Preamble : catalog = Built(j)
    BY <1>1, <2>2 DEF Levels
  <2>4. CASE j = 0
    BY <1>1, <2>1, <2>3, <2>4, BuiltGrows DEF Building
  <2>5. CASE j >= 1
    <3>1. Built(1) \subseteq catalog
      BY <2>3, <2>5, BuiltGrows DEF Preamble
    <3> QED
      BY <2>1, <3>1 DEF Building
  <2> QED
    BY <2>4, <2>5 DEF Preamble
<1>4. CASE q.script = "upgrade"
  <2>1. Building(q) /\ View(m) = catalog \cup q.made /\ q.done = Len(Up) /\ q.done > Preamble
    BY <1>1, <1>4, BuilderSees, Lengths, Sizes DEF Sound, Preamble
  <2>2. View(m) = Built(q.done) /\ catalog # Whole
    BY <1>1, <2>1, BuilderSees, Sizes DEF Building, Preamble
  <2> QED
    BY <1>1, <1>4, <2>1, <2>2 DEF Whole
<1>5. CASE q.script = "downgrade"
  <2>1. Dropping(q) /\ q.done = Len(Down)
    BY <1>1, <1>5, Lengths DEF Sound
  <2>2. Balances \in q.dropped
    BY <2>1, ViewAssumption DEF Dropping, Blocked
  <2>3. q.dropped = Taken(Len(Down)) /\ catalog = Whole
    BY <2>1, <2>2 DEF Dropping
  <2>4. View(m) = Ground
    BY <2>1, <2>3, DownAssumption DEF View, Dropping
  <2> QED
    BY <1>1, <1>5, <2>1, <2>3, <2>4
<1> QED
  BY <1>1, <1>2, <1>3, <1>4, <1>5 DEF Process

\* What a commit of another process leaves of a process.
LEMMA OthersSound ==
  ASSUME IInv, NEW m \in Migrators, Finish(m), View(m) # catalog,
         NEW n \in Migrators \ {m}, NEW t \in Process,
         t.script = mig[n].script, t.done = mig[n].done,
         t.made = mig[n].made, t.dropped = mig[n].dropped
  PROVE  Sound(t)'
<1> DEFINE q == mig[m]
<1>1. /\ TypeOK /\ Levels /\ Sound(q) /\ Sound(mig[n])
      /\ t.made \cap q.made = {} /\ t.dropped \cap q.dropped = {}
      /\ t.done \in Nat /\ t.made \subseteq Whole /\ catalog \subseteq Whole
      /\ t.done <= Len(Scripts[t.script])
  BY DEF IInv, Exclusive, TypeOK, Process
<1>2. Built(1) \subseteq Ground /\ Ground # Whole
  BY BuiltGrows, GroundFirst DEF Ground, Preamble
<1>3. ASSUME Building(q), catalog' = catalog \cup q.made, catalog # Whole,
             catalog' = Built(1) \/ catalog' = Whole
      PROVE  Sound(t)'
  <2>1. CASE t.script = "downgrade"
    <3>1. /\ t.made = {} /\ t.dropped = {} /\ t.done < 2 /\ Balances \notin t.dropped
          /\ \A i \in 3 .. t.done : FALSE
      BY <1>1, <1>3, <2>1 DEF Sound, Dropping
    <3> QED
      BY <1>1, <2>1, <3>1 DEF Sound, Dropping
  <2>2. CASE t.script # "downgrade"
    <3>1. /\ t.dropped = {} /\ t.made \cap catalog' = {} /\ t.made \subseteq Built(t.done)
          /\ Built(t.done) \subseteq catalog' \cup t.made
          /\ Built(t.done) \subseteq catalog \cup t.made
      BY <1>1, <1>3, <2>2 DEF Sound, Building
    <3>2. ASSUME t.done > Preamble PROVE catalog' # Whole
      <4>1. Makes(Preamble + 1) \subseteq Built(t.done)
        <5>1. Preamble + 1 <= t.done /\ Preamble + 1 \in Nat /\ Preamble + 1 \in 1 .. Len(Up)
          BY <1>1, <3>2, GroundFirst DEF Preamble
        <5> QED
          BY <1>1, <5>1, MakesNew, BuiltGrows
      <4>2. Makes(Preamble + 1) \subseteq t.made
        BY <1>1, <1>3, <3>1, <4>1, Partial, GroundFirst
      <4>3. Makes(Preamble + 1) \cap catalog' = {}
        BY <3>1, <4>2
      <4> QED
        BY <1>1, <4>2, <4>3, GroundFirst
    <3> QED
      BY <2>2, <3>1, <3>2 DEF Sound, Building
  <2> QED
    BY <2>1, <2>2
<1>4. CASE q.script = "table" /\ Building(q) /\ catalog' = catalog \cup q.made /\ catalog' = Built(1)
  <2>1. catalog # Whole
    BY <1>2, <1>4, GroundFirst
  <2> QED
    BY <1>3, <1>4, <2>1
<1>5. CASE q.script = "upgrade" /\ Building(q) /\ catalog' = catalog \cup q.made /\ catalog' = Whole
  <2>1. catalog # Whole
    BY <1>5, BuilderSees, <1>1 DEF Finish
  <2> QED
    BY <1>3, <1>5, <2>1
<1>6. CASE Dropping(q) /\ q.dropped = Taken(Len(Down)) /\ catalog' = Ground
  <2>1. catalog = Whole
    BY <1>6, TakenGrows, Sizes, ViewAssumption DEF Dropping, Taken
  <2>2. CASE t.script = "downgrade"
    <3>1. t.dropped = {}
      <4>1. t.done \in Nat /\ t.done <= Len(Down)
        BY <1>1, <2>2, Lengths
      <4>2. t.dropped \subseteq Taken(Len(Down))
        BY <1>1, <2>2, <4>1, TakenGrows, Sizes DEF Sound, Dropping
      <4> QED
        BY <1>1, <1>6, <4>2
    <3>2. /\ t.made = {} /\ t.done < 2 /\ Balances \notin t.dropped
          /\ \A i \in 3 .. t.done : FALSE
      BY <1>1, <2>2, <3>1 DEF Sound, Dropping
    <3> QED
      BY <1>1, <2>2, <3>1, <3>2 DEF Sound, Dropping
  <2>3. CASE t.script # "downgrade"
    <3>1. t.made = {} /\ t.dropped = {} /\ t.done <= Preamble
      BY <1>1, <2>1, <2>3 DEF Sound, Building, Preamble
    <3>2. Built(t.done) \subseteq Ground
      BY <1>1, <3>1, BuiltGrows DEF Ground, Preamble
    <3> QED
      BY <1>1, <1>6, <2>3, <3>1, <3>2 DEF Sound, Building, Preamble
  <2> QED
    BY <2>2, <2>3
<1>7. catalog' # catalog
  BY DEF Finish
<1> QED
  BY <1>4, <1>5, <1>6, <1>7, Commits

LEMMA FinishStep ==
  ASSUME IInv, NEW m \in Migrators, Finish(m)
  PROVE  IInv'
<1>1. /\ mig \in [Migrators -> Process] /\ catalog' = View(m)
      /\ mig' = [n \in Migrators |->
                   IF n = m THEN Resting("idle")
                   ELSE IF Running(n) /\ View(m) # catalog
                     THEN [mig[n] EXCEPT !.overtaken = TRUE]
                   ELSE mig[n]]
  BY DEF Finish, IInv, TypeOK
<1>2. AtRest(Resting("idle")) /\ Resting("idle").pc = "idle"
  BY RestingFields
<1>3. CASE View(m) = catalog
  <2>1. Become(m, Resting("idle"))
    BY <1>1, <1>3 DEF Become
  <2> QED
    BY <1>1, <1>2, <1>3, <2>1, Rests
<1>4. CASE View(m) # catalog
  <2>1. mig'[m] = Resting("idle")
    BY <1>1
  <2>2. ASSUME NEW n \in Migrators \ {m}
        PROVE  /\ mig'[n] \in Process /\ mig'[n].pc = mig[n].pc
               /\ mig'[n].script = mig[n].script /\ mig'[n].done = mig[n].done
               /\ mig'[n].made = mig[n].made /\ mig'[n].dropped = mig[n].dropped
               /\ mig[n].overtaken => mig'[n].overtaken
               /\ Running(n) => mig'[n].overtaken
    <3>1. mig'[n] = IF Running(n) THEN [mig[n] EXCEPT !.overtaken = TRUE] ELSE mig[n]
      BY <1>1, <1>4
    <3>2. mig[n] \in Process
      BY <1>1
    <3> QED
      BY <3>1, <3>2 DEF Process
  <2>3. mig' \in [Migrators -> Process]
    <3>1. \A n \in Migrators : mig'[n] \in Process
      BY <1>2, <2>1, <2>2 DEF AtRest
    <3> QED
      BY <1>1, <3>1
  <2>4. TypeOK'
    <3>1. catalog' \subseteq Whole
      BY <1>1, Sight DEF IInv
    <3>2. ASSUME NEW n \in Migrators
          PROVE  /\ mig'[n].done <= Len(Scripts[mig'[n].script])
                 /\ ~Running(n)' => mig'[n].done = 0 /\ mig'[n].made = {} /\ mig'[n].dropped = {}
      <4>1. CASE n = m
        BY <1>2, <2>1, <4>1, Lengths DEF AtRest
      <4>2. CASE n # m
        BY <2>2, <4>2 DEF IInv, TypeOK, Running
      <4> QED
        BY <4>1, <4>2
    <3> QED
      BY <2>3, <3>1, <3>2 DEF TypeOK
  <2>5. Levels'
    BY <1>1, <1>4, Commits DEF Levels, Ground, Preamble
  <2>6. ASSUME NEW n \in Migrators PROVE Sound(mig[n])'
    <3>1. CASE n = m
      BY <1>2, <2>1, <3>1, BuiltGrows DEF Sound, Building, Preamble, AtRest
    <3>2. CASE n # m
      <4>1. PICK t \in Process : t = mig'[n]
        BY <2>2, <3>2
      <4>2. Sound(t)'
        BY <1>4, <2>2, <3>2, <4>1, OthersSound
      <4> QED
        BY <4>1, <4>2 DEF Sound, Building, Dropping
    <3> QED
      BY <3>1, <3>2
  <2>7. Exclusive'
    BY <1>2, <2>1, <2>2 DEF IInv, Exclusive, AtRest
  <2>8. \A n \in Migrators : Running(n)' => mig'[n].overtaken
    BY <1>2, <2>1, <2>2 DEF Running, AtRest
  <2>9. \A n \in Migrators : mig'[n].pc = "refused" => mig'[n].overtaken
    BY <1>2, <2>1, <2>2 DEF IInv, AtRest
  <2> QED
    BY <2>4, <2>5, <2>6, <2>7, <2>8, <2>9 DEF IInv
<1> QED
  BY <1>3, <1>4

LEMMA IInvNext == IInv /\ [Next]_vars => IInv'
<1> SUFFICES ASSUME IInv, [Next]_vars PROVE IInv'
  OBVIOUS
<1>1. ASSUME NEW m \in Migrators, NEW to \in {"head", "base"}, Begin(m, to) PROVE IInv'
  BY <1>1, BeginStep
<1>2. ASSUME NEW m \in Migrators, Wait(m) PROVE IInv'
  BY <1>2, WaitStep
<1>3. ASSUME NEW m \in Migrators, Run(m) PROVE IInv'
  BY <1>3, CreateStep, DropStep
<1>4. ASSUME NEW m \in Migrators, Finish(m) PROVE IInv'
  BY <1>4, FinishStep
<1>5. ASSUME NEW m \in Migrators, Stop(m) \/ AbortDeadlocked(m) PROVE IInv'
  <2>1. Become(m, Resting("idle")) /\ UNCHANGED catalog
    BY <1>5 DEF Stop, AbortDeadlocked, LeftBehind
  <2> QED
    BY <2>1, Rests, RestingFields
<1>6. CASE UNCHANGED vars
  BY <1>6 DEF vars, IInv, TypeOK, Levels, Sound, Building, Dropping, Exclusive, Fresh, Running
<1> QED
  BY <1>1, <1>2, <1>3, <1>4, <1>5, <1>6 DEF Next

-----------------------------------------------------------------------------
(* The theorems.                                                           *)

LEMMA IInvAlways == Spec => []IInv
<1>1. Init => IInv
  BY IInvInit
<1>2. IInv /\ [Next]_vars => IInv'
  BY IInvNext
<1> QED
  BY <1>1, <1>2, PTL DEF Spec

\* Of the processes that no commit has overtaken one at most holds a lock:
\* the first statement that changes anything is the same for all of them.
LEMMA OneHolder ==
  ASSUME IInv, NEW m \in Migrators, NEW n \in Migrators, m # n,
         Fresh(mig[m]), Fresh(mig[n])
  PROVE  mig[m].made \cup mig[m].dropped = {} \/ mig[n].made \cup mig[n].dropped = {}
<1> DEFINE Holds(o) == mig[o].made \cup mig[o].dropped # {}
<1>1. \A o \in Migrators :
        mig[o].done \in Nat /\ mig[o].script \in {"upgrade", "downgrade", "table", "nothing"}
  BY DEF IInv, TypeOK, Process
<1>2. ASSUME NEW o \in Migrators, mig[o].script = "nothing" PROVE ~Holds(o)
  <2>1. mig[o].done = 0
    BY <1>1, <1>2, Lengths DEF IInv, TypeOK
  <2> QED
    BY <1>2, <2>1, BuiltGrows DEF IInv, Sound, Building
<1>3. CASE catalog = Whole
  <2>1. ASSUME NEW o \in Migrators, Fresh(mig[o]), Holds(o) PROVE Balances \in mig[o].dropped
    <3>1. mig[o].script = "downgrade"
      BY <1>1, <1>2, <1>3, <2>1 DEF Fresh
    <3>2. mig[o].done # 0
      BY <2>1, <3>1, TakenGrows DEF IInv, Sound, Dropping
    <3> QED
      BY <1>1, <2>1, <3>1, <3>2 DEF Fresh
  <2> QED
    BY <2>1 DEF IInv, Exclusive
<1>4. CASE catalog # Whole
  <2>1. PICK j \in 0 .. Preamble : catalog = Built(j)
    BY <1>4 DEF IInv, Levels
  <2>2. j \in Nat /\ j + 1 \in 1 .. Len(Up) /\ (j + 1) - 1 = j
    BY Sizes DEF Preamble
  <2>3. Makes(j + 1) # {} /\ Makes(j + 1) \cap catalog = {} /\ Makes(j + 1) \subseteq Built(j + 1)
    BY <2>1, <2>2, MakesNew
  <2>4. ASSUME NEW o \in Migrators, Fresh(mig[o]), Holds(o)
        PROVE  Makes(j + 1) \subseteq mig[o].made
    <3>1. Building(mig[o])
      BY <1>4, <2>4 DEF IInv, Fresh, Sound
    <3>2. ~(mig[o].done <= j)
      BY <1>1, <2>1, <2>2, <2>4, <3>1, BuiltGrows DEF Building
    <3>3. Built(j + 1) \subseteq Built(mig[o].done)
      BY <1>1, <2>2, <3>2, BuiltGrows
    <3> QED
      BY <2>3, <3>1, <3>3 DEF Building
  <2> QED
    BY <2>3, <2>4 DEF IInv, Exclusive
<1> QED
  BY <1>3, <1>4

\* A transaction that another waits for holds something.
LEMMA WaitsForHolder ==
  ASSUME NEW m \in Migrators, NEW n \in Migrators, WaitsFor(m, n)
  PROVE  mig[n].made \cup mig[n].dropped # {}
BY DEF WaitsFor, Ids

(* No process fails before another has committed: whatever was upgraded    *)
(* and downgraded before, however often processes were stopped half way,   *)
(* every statement of a script is accepted as long as the database is at   *)
(* the revision the script starts from, and no two processes that start    *)
(* from it block each other.                                               *)
THEOREM MigrationFailsOnlyIfOvertaken == Spec => []FailsOnlyIfOvertaken
<1>1. IInv => FailsOnlyIfOvertaken
  <2> SUFFICES ASSUME IInv PROVE FailsOnlyIfOvertaken
    OBVIOUS
  <2>1. \A m \in Migrators : mig[m].pc = "refused" => mig[m].overtaken
    BY DEF IInv
  <2>2. ASSUME NEW m \in Migrators, Deadlocked(m),
               \A n \in Migrators : Running(n) => ~mig[n].overtaken
        PROVE  FALSE
    <3>1. PICK S \in SUBSET Migrators :
            /\ m \in S
            /\ \A o \in S : mig[o].pc = "wait" /\ \E p \in S \ {o} : WaitsFor(o, p)
      BY <2>2 DEF Deadlocked
    <3>2. PICK p \in S \ {m} : WaitsFor(m, p)
      BY <3>1
    <3>3. PICK r \in S \ {p} : WaitsFor(p, r)
      BY <3>1, <3>2
    <3>4. Fresh(mig[p]) /\ Fresh(mig[r])
      BY <2>2, <3>1, <3>2, <3>3 DEF IInv, Running
    <3> QED
      BY <3>1, <3>2, <3>3, <3>4, OneHolder, WaitsForHolder
  <2>3. (\E m \in Migrators : Deadlocked(m)) => \E n \in Migrators : Running(n) /\ mig[n].overtaken
    BY <2>2
  <2> QED
    BY <2>1, <2>3 DEF FailsOnlyIfOvertaken
<1> QED
  BY <1>1, IInvAlways, PTL

-----------------------------------------------------------------------------
(* The promise.                                                            *)

\* Under the invariant the database is never seen torn.
LEMMA WholeOrNothing == Levels => Revised = IF catalog = Whole THEN "head" ELSE "base"
<1>1. CASE catalog = Whole
  BY <1>1, EndsAssumption DEF Revised
<1>2. CASE catalog # Whole
  <2> SUFFICES ASSUME Levels PROVE Revised = "base"
    BY <1>2
  <2> QED
    BY <1>2, StampTells, Partial, EndsAssumption DEF Revised
<1> QED
  BY <1>1, <1>2

\* The revision a process works towards: Aim(m) is Goal(mig[m]).
Goal(t) ==
  IF t.pc \notin {"run", "wait"} THEN "idle"
  ELSE CASE t.script = "upgrade" -> "head"
         [] t.script = "downgrade" -> "base"
         [] t.script \in {"table", "nothing"} -> "nothing"

LEMMA AimMoves ==
  ASSUME IInv, NEW m \in Migrators, NEW t \in Process, mig' \in [Migrators -> Process], mig'[m] = t,
         \A n \in Migrators \ {m} : mig'[n].pc = mig[n].pc /\ mig'[n].script = mig[n].script
  PROVE  [n \in Migrators |-> Aim(n)]' = [[n \in Migrators |-> Aim(n)] EXCEPT ![m] = Goal(t)]
<1>1. Aim(m)' = Goal(t)
  BY DEF Aim, Goal, Running, Process
<1>2. ASSUME NEW n \in Migrators \ {m} PROVE Aim(n)' = Aim(n)
  <2>1. mig[n] \in Process
    BY DEF IInv, TypeOK
  <2> QED
    BY <2>1 DEF Aim, Running, Process
<1> QED
  BY <1>1, <1>2

\* A process that moves alone and keeps the database as it is.
LEMMA AimMovesAlone ==
  ASSUME IInv, NEW m \in Migrators, NEW t \in Process, Become(m, t)
  PROVE  [n \in Migrators |-> Aim(n)]' = [[n \in Migrators |-> Aim(n)] EXCEPT ![m] = Goal(t)]
<1>1. mig' = [mig EXCEPT ![m] = t] /\ mig \in [Migrators -> Process]
  BY DEF Become, IInv, TypeOK
<1> QED
  BY <1>1, AimMoves

LEMMA PromiseNext == IInv /\ [Next]_vars => [Promise!Next]_<<Revised, [m \in Migrators |-> Aim(m)]>>
<1>0. (Levels => Revised = IF catalog = Whole THEN "head" ELSE "base")'
  BY WholeOrNothing, PTL
<1> SUFFICES ASSUME IInv, [Next]_vars
             PROVE  [Promise!Next]_<<Revised, [m \in Migrators |-> Aim(m)]>>
  OBVIOUS
<1> DEFINE aims == [m \in Migrators |-> Aim(m)]
<1>t. /\ Levels /\ Levels' /\ mig \in [Migrators -> Process]
      /\ Revised = IF catalog = Whole THEN "head" ELSE "base"
      /\ Revised' = IF catalog' = Whole THEN "head" ELSE "base"
  BY <1>0, IInvNext, WholeOrNothing DEF IInv, TypeOK
<1>1. ASSUME NEW m \in Migrators
      PROVE  /\ mig[m] \in Process /\ aims[m] = Goal(mig[m])
             /\ Running(m) => Goal(mig[m]) \in {"head", "base", "nothing"}
             /\ ~Running(m) => Goal(mig[m]) = "idle"
  BY <1>t DEF Goal, Aim, Running, Process
\* Any way to come to rest before the commit is a failure.
<1>2. ASSUME NEW m \in Migrators, NEW t, AtRest(t), Running(m), Become(m, t), UNCHANGED catalog
      PROVE  Promise!Fail(m)
  <2>1. aims' = [aims EXCEPT ![m] = "idle"]
    BY <1>2, AimMovesAlone DEF AtRest, Goal
  <2> QED
    BY <1>t, <1>1, <1>2, <2>1 DEF Promise!Fail
\* A step within the script is not seen.
<1>3. ASSUME NEW m \in Migrators, NEW t \in Process, Running(m), Become(m, t), UNCHANGED catalog,
             t.pc \in {"run", "wait"}, t.script = mig[m].script
      PROVE  UNCHANGED <<Revised, aims>>
  <2>1. aims' = [aims EXCEPT ![m] = Goal(t)] /\ Goal(t) = aims[m]
    BY <1>1, <1>3, AimMovesAlone DEF Goal, Running
  <2> QED
    BY <1>t, <1>3, <2>1
<1>4. ASSUME NEW m \in Migrators, NEW to \in {"head", "base"}, Begin(m, to)
      PROVE  Promise!Begin(m, to)
  <2>1. PICK s : s = ScriptFor(to, Stamp \in catalog)
    OBVIOUS
  <2>2. /\ s \in {"upgrade", "downgrade", "table", "nothing"}
        /\ s = "upgrade" <=> to = "head" /\ Revised = "base"
        /\ s = "downgrade" <=> to = "base" /\ Revised = "head"
    BY <1>t, <2>1, StampTells DEF ScriptFor
  <2>3. PICK t \in Process : t.pc = "run" /\ t.script = s /\ Become(m, t) /\ UNCHANGED catalog
    BY <1>4, <2>1, <2>2 DEF Begin, Resting, Process
  <2>4. aims' = [aims EXCEPT ![m] = Goal(t)] /\ ~Running(m)
    BY <1>4, <2>3, AimMovesAlone DEF Begin, Running
  <2>5. Goal(t) = IF Revised = to THEN "nothing" ELSE to
    BY <1>t, <2>2, <2>3 DEF Goal
  <2> QED
    BY <1>t, <1>1, <2>3, <2>4, <2>5 DEF Promise!Begin
<1>5. ASSUME NEW m \in Migrators, Wait(m) PROVE UNCHANGED <<Revised, aims>>
  <2>1. PICK t \in Process : /\ t.pc = "wait" /\ t.script = mig[m].script /\ Become(m, t)
                             /\ UNCHANGED catalog
    BY <1>1, <1>5 DEF Wait, Process
  <2> QED
    BY <1>3, <1>5, <2>1 DEF Wait, Pending
<1>6. ASSUME NEW m \in Migrators, Run(m)
      PROVE  UNCHANGED <<Revised, aims>> \/ Promise!Fail(m)
  <2>1. Running(m) /\ UNCHANGED catalog
    BY <1>6 DEF Run, Pending
  <2>2. CASE Become(m, Aborted(mig[m]))
    BY <1>1, <1>2, <2>1, <2>2, RestingFields
  <2>3. CASE ~Become(m, Aborted(mig[m]))
    <3> DEFINE ahead == Advanced(mig[m])
               gone == UNION {GoesWith(m, y) : y \in Named(m)}
    <3>1. ahead \in Process /\ ahead.pc = "run" /\ ahead.script = mig[m].script
      BY <1>1, AdvancedFields
    <3>2. \/ Become(m, ahead)
          \/ Become(m, [ahead EXCEPT !.made = @ \ gone, !.dropped = @ \cup (gone \cap catalog)])
          \/ Become(m, [ahead EXCEPT !.made = @ \cup Named(m)])
      BY <1>6, <2>3 DEF Run
    <3> HIDE DEF ahead, gone
    <3>3. PICK t : Become(m, t) /\ t.pc = "run" /\ t.script = mig[m].script
      <4> DEFINE one(g) == [ahead EXCEPT !.made = g]
                 two(g, h) == [ahead EXCEPT !.made = g, !.dropped = h]
      <4>1. \A g : one(g).pc = "run" /\ one(g).script = mig[m].script
        BY <3>1 DEF Process
      <4>2. \A g, h : two(g, h).pc = "run" /\ two(g, h).script = mig[m].script
        BY <3>1 DEF Process
      <4>3. \/ Become(m, ahead)
            \/ Become(m, two(ahead.made \ gone, ahead.dropped \cup (gone \cap catalog)))
            \/ Become(m, one(ahead.made \cup Named(m)))
        BY <3>2
      <4> HIDE DEF one, two
      <4> QED
        BY <3>1, <4>1, <4>2, <4>3
    <3>4. mig'[m] = t /\ t \in Process
      BY <1>t, <3>3, IInvNext DEF IInv, TypeOK, Become
    <3> QED
      BY <1>3, <2>1, <3>3, <3>4
  <2> QED
    BY <2>2, <2>3
<1>7. ASSUME NEW m \in Migrators, Finish(m) PROVE Promise!Succeed(m)
  <2>1. aims' = [aims EXCEPT ![m] = "idle"]
    <3>1. mig'[m] = Resting("idle") /\ Goal(Resting("idle")) = "idle"
      BY <1>7 DEF Finish, Goal, Resting
    <3>2. mig' \in [Migrators -> Process]
      BY IInvNext DEF IInv, TypeOK
    <3>3. \A n \in Migrators \ {m} : mig'[n].pc = mig[n].pc /\ mig'[n].script = mig[n].script
      BY <1>t, <1>7 DEF Finish, Process
    <3> QED
      BY <3>1, <3>2, <3>3, AimMoves
  <2>2. Running(m)
    BY <1>7 DEF Finish
  <2>3. Goal(mig[m]) = CASE mig[m].script = "upgrade" -> "head"
                         [] mig[m].script = "downgrade" -> "base"
                         [] mig[m].script \in {"table", "nothing"} -> "nothing"
    BY <2>2 DEF Goal, Running
  <2>4. Ground # Whole /\ \A c : c \subseteq Built(1) => c # Whole
    <3>1. Built(1) \subseteq Ground /\ Ground \subseteq Whole /\ Ground # Whole
      BY BuiltGrows, GroundFirst DEF Ground, Preamble
    <3> QED
      BY <3>1
  <2> QED
    BY <1>t, <1>1, <1>7, <2>1, <2>3, <2>4, Commits DEF Promise!Succeed
<1>8. ASSUME NEW m \in Migrators, Stop(m) \/ AbortDeadlocked(m) PROVE Promise!Fail(m)
  <2>1. Become(m, Resting("idle")) /\ UNCHANGED catalog /\ Running(m)
    BY <1>8 DEF Stop, AbortDeadlocked, LeftBehind, Deadlocked, Running
  <2> QED
    BY <1>2, <2>1, RestingFields
<1>9. CASE UNCHANGED vars
  BY <1>9 DEF vars, Revised, Aim, Running
<1> QED
  BY <1>4, <1>5, <1>6, <1>7, <1>8, <1>9 DEF Next, Promise!Next

(* All or nothing: see Migration.  Every step of the processes is a step   *)
(* of the promise or is not seen from outside.                             *)
THEOREM MigrationImplementsRevision == Spec => ImplementsRevision
<1>1. Init => Promise!Init
  <2> SUFFICES ASSUME Init PROVE Promise!Init
    OBVIOUS
  <2>1. Revised = "base"
    BY EndsAssumption DEF Init, Revised
  <2>2. \A m \in Migrators : Aim(m) = "idle"
    BY DEF Init, Aim, Running, Resting
  <2> QED
    BY <2>1, <2>2 DEF Promise!Init
<1>2. IInv /\ [Next]_vars => [Promise!Next]_<<Revised, [m \in Migrators |-> Aim(m)]>>
  BY PromiseNext
<1> QED
  BY <1>1, <1>2, IInvAlways, PTL DEF Spec, ImplementsRevision, Promise!Spec
=============================================================================
