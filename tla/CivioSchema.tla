---------------------------- MODULE CivioSchema ----------------------------
(***************************************************************************)
(* The foreign keys, unique keys and triggers of the initial migration:    *)
(* what a committed INSERT, UPDATE or DELETE of one row does to the rows   *)
(* that refer to it.  A row is modelled by its id and its columns that     *)
(* refer to other rows, with the idempotency_key of the ledger; every      *)
(* other column is free of constraints that relate rows.                   *)
(*                                                                         *)
(* One statement is one step: PostgreSQL checks keys, cascades and fires   *)
(* triggers within the statement and under locks, and undoes all of it if  *)
(* one of them raises.                                                     *)
(***************************************************************************)
EXTENDS Naturals, FiniteSets, ForeignKeys

CONSTANTS
  Rows,       \* the ids rows may have, over all the tables
  TableOf,    \* the table each id belongs to
  Keys,       \* the idempotency keys callers may send
  Null,       \* NULL
  Unborn,     \* a row that has not been inserted yet
  Gone        \* a row that has been deleted

-----------------------------------------------------------------------------
RefsOf == [x \in Rows |-> {r \in References : r.table = TableOf[x]}]

ColumnsOf ==
  [x \in Rows |-> {r.column : r \in RefsOf[x]} \cup
                  (IF TableOf[x] = "token_ledger" THEN {"idempotency_key"} ELSE {})]

Value == Rows \cup Keys \cup {Null}

\* The values an INSERT or UPDATE may give the modelled columns of a row:
\* NOT NULL columns and the tables referred to are observed.
Fitting(x) ==
  {f \in [ColumnsOf[x] -> Value] :
     /\ \A r \in RefsOf[x] :
          IF f[r.column] = Null THEN r.optional
          ELSE f[r.column] \in Rows /\ TableOf[f[r.column]] = r.to
     /\ TableOf[x] = "token_ledger" => f["idempotency_key"] \in Keys \cup {Null}}

Contents == [x \in Rows |-> Fitting(x)]

ASSUME TableAssumption == DOMAIN TableOf = Rows /\ \A x \in Rows : TableOf[x] \in Tables

ASSUME ValueAssumption ==
  /\ Null \notin Rows \cup Keys
  /\ Rows \cap Keys = {}
  /\ Unborn # Gone
  /\ \A x \in Rows : {Unborn, Gone} \cap [ColumnsOf[x] -> Value] = {}

VARIABLE stored     \* the committed rows: Unborn, Gone, or their columns

Init == stored = [x \in Rows |-> Unborn]

-----------------------------------------------------------------------------
Exists(x) == stored[x] \notin {Unborn, Gone}
Refers(y, r, x) == Exists(y) /\ stored[y][r.column] = x

-----------------------------------------------------------------------------
(* Plausible bugs, one per property.                                       *)

DoomedAlone(x) == {x}
LedgerForbidsNothing(y) == FALSE
WithoutGone(row, columns) == [c \in DOMAIN row |-> IF c \in columns THEN Gone ELSE row[c]]

-----------------------------------------------------------------------------
\* The foreign keys of a row that is written: it locks the rows it refers to.
KeysHold(x, f) == \A r \in RefsOf[x] : f[r.column] # Null => Exists(f[r.column])

\* NULLs are distinct to a unique key.
UniqueHolds(x, f) ==
  \A c \in ColumnsOf[x] :
    <<TableOf[x], c>> \in UniqueColumns /\ f[c] # Null =>
      \A y \in Rows \ {x} : TableOf[y] = TableOf[x] /\ Exists(y) => stored[y][c] # f[c]

\* trg_forbid_ledger_update, trg_forbid_ledger_delete
LedgerForbids(y) == TableOf[y] = "token_ledger"

\* tg_bump_community_version on a table that has no community_id.
VersionRaises(x) == TableOf[x] = "friend_mappings"

\* ck_scope_owner: an entry of scope 'user' has a user, and only such an entry.
ScopeHolds(y, columns) == ~(TableOf[y] = "token_ledger" /\ "user_id" \in columns)

\* The rows a DELETE of x removes, and the columns it sets to NULL.  A cascade
\* is one step deep: nothing refers to a row that goes with another
\* (CascadesEnd in CivioSchemaProofs).
Doomed(x) ==
  {x} \cup {y \in Rows : \E r \in RefsOf[y] : r.onDelete = "CASCADE" /\ Refers(y, r, x)}
Nulled(x, y) == {r.column : r \in {s \in RefsOf[y] : s.onDelete = "SET NULL" /\ Refers(y, s, x)}}
Without(row, columns) == [c \in DOMAIN row |-> IF c \in columns THEN Null ELSE row[c]]

\* What makes PostgreSQL refuse a DELETE of x.
Blocked(x) ==
  \/ \E y \in Rows \ Doomed(x), r \in References :
       r \in RefsOf[y] /\ r.onDelete \in {"RESTRICT", "NO ACTION"} /\ Refers(y, r, x)
  \/ \E y \in Rows :
       /\ Nulled(x, y) # {}
       /\ LedgerForbids(y) \/ ~ScopeHolds(y, Nulled(x, y))
  \/ \E y \in Doomed(x) : LedgerForbids(y) \/ VersionRaises(y)

-----------------------------------------------------------------------------
\* session.add and flush: an INSERT.
Insert(x, f) ==
  /\ stored[x] = Unborn
  /\ KeysHold(x, f) /\ UniqueHolds(x, f)
  /\ ~VersionRaises(x)
  /\ stored' = [stored EXCEPT ![x] = f]

\* setattr and flush: an UPDATE, which no trigger lets touch the ledger.
Update(x, f) ==
  /\ Exists(x)
  /\ f # stored[x]
  /\ KeysHold(x, f) /\ UniqueHolds(x, f)
  /\ ~LedgerForbids(x)
  /\ stored' = [stored EXCEPT ![x] = f]

\* session.delete and flush: no relationship of the models has a cascade of
\* its own, so the database does it all.
Delete(x) ==
  /\ Exists(x)
  /\ ~Blocked(x)
  /\ stored' = [y \in Rows |-> IF y \in Doomed(x) THEN Gone
                               ELSE IF Nulled(x, y) # {} THEN Without(stored[y], Nulled(x, y))
                               ELSE stored[y]]

\* A statement the constraints refuse: its transaction is rolled back.
Refuse(x) ==
  /\ \/ Exists(x) /\ Blocked(x)
     \/ stored[x] = Unborn /\ \E f \in Contents[x] :
          ~(KeysHold(x, f) /\ UniqueHolds(x, f) /\ ~VersionRaises(x))
     \/ stored[x] = Gone
  /\ UNCHANGED stored

Next ==
  \E x \in Rows :
    \/ \E f \in Contents[x] : Insert(x, f) \/ Update(x, f)
    \/ Delete(x) \/ Refuse(x)

Spec == Init /\ [][Next]_stored

-----------------------------------------------------------------------------
(* Type invariant.                                                         *)
TypeOK ==
  /\ DOMAIN stored = Rows
  /\ \A x \in Rows : Exists(x) => stored[x] \in [ColumnsOf[x] -> Value]

(* No committed row refers to one that is not there, whatever was deleted  *)
(* and by whichever rule: every column that refers to a row of another     *)
(* table names a stored row of that table, or is NULL where it may be.     *)
NoDanglingReference ==
  \A x \in Rows : \A r \in RefsOf[x] :
    Exists(x) =>
      \/ r.optional /\ stored[x][r.column] = Null
      \/ /\ stored[x][r.column] \in Rows
         /\ Exists(stored[x][r.column])
         /\ TableOf[stored[x][r.column]] = r.to

(* "token_ledger is append-only": an entry, once committed, keeps its      *)
(* owner, community and idempotency key for ever, even when the user is    *)
(* deleted by another statement.                                           *)
LedgerAppendOnly ==
  [][\A x \in Rows :
       TableOf[x] = "token_ledger" /\ Exists(x) => stored'[x] = stored[x]]_stored

(* The tables kept as records of what happened and what was paid.          *)
Records == {"audit_log", "call_logs", "payment_orders", "token_ledger", "billing_records"}

(* No record is lost by the way: it goes only in a statement that deletes  *)
(* it alone, never with the user, unit, call or community it is about.     *)
RecordsSurvive ==
  [][\A x \in Rows :
       TableOf[x] \in Records /\ Exists(x) /\ stored'[x] = Gone =>
         \A y \in Rows \ {x} : Exists(y) => stored'[y] = stored[y]]_stored

\* The entry l of the ledger names the user u.
Owes(l, u) == Exists(l) /\ stored[l]["user_id"] = u

(* Where docs/06 has "user deletion cascades", the ledger stands in the    *)
(* way: a user an entry has once named is there for ever, since neither    *)
(* the entry can go or let go of the user, nor the user go before it.      *)
DebtorsStay ==
  \A u \in {x \in Rows : TableOf[x] = "users"} :
    \A l \in {x \in Rows : TableOf[x] = "token_ledger"} :
      [](Owes(l, u) => []Exists(u))
=============================================================================
