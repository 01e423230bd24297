----------------------------- MODULE Catalogue -----------------------------
(***************************************************************************)
(* What a database holds besides rows: its types, tables, keys, indexes,   *)
(* functions, triggers and views.  An object is known by its kind, name    *)
(* and the table or view it is on, and goes with that; needs are the names *)
(* of the other objects it cannot be without.  Of columns only the foreign *)
(* keys and updated_at are objects, since only these relate tables.        *)
(***************************************************************************)
EXTENDS Sequences, ForeignKeys

Object(kind, name, on, needs, details) ==
  [kind |-> kind, name |-> name, on |-> on, needs |-> needs, details |-> details]

Id(o) == <<o.kind, o.name, o.on>>
Ids(objects) == {Id(o) : o \in objects}
Names(objects) == {o.name : o \in objects}

Enum(name, labels) == Object("type", name, "", {}, labels)
Index(name, table, uses) == Object("index", name, table, uses, <<>>)
Function(name) == Object("function", name, "", {}, <<>>)
Trigger(name, table, function) == Object("trigger", name, table, {function}, <<>>)

ForeignKey(r) ==
  Object("key", r.column, r.table, {r.to},
         <<r.onDelete, IF r.optional THEN "NULL" ELSE "NOT NULL">>)

UpdatedAt(table) == Object("column", "updated_at", table, {}, <<>>)

\* What CREATE TABLE makes: uses are the types and extensions of its columns.
TableObjects(table, uses, keys, stamped) ==
  {Object("table", table, "", uses, <<>>)} \cup {ForeignKey(r) : r \in keys}
  \cup (IF stamped THEN {UpdatedAt(table)} ELSE {})
=============================================================================
