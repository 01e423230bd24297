------------------------- MODULE CivioSchemaProofs -------------------------
(***************************************************************************)
(* What the keys and triggers of the initial migration keep true, for any  *)
(* number of rows in every table.                                          *)
(*                                                                         *)
(* What the list of foreign keys says is proved key by key, once           *)
(* (EveryKey); the rest argues from that and leaves the list unopened.     *)
(***************************************************************************)
EXTENDS CivioSchema, TLAPS

-----------------------------------------------------------------------------
\* The tables whose rows others refer to.
Targets == {"communities", "users", "units", "call_logs", "token_ledger"}

\* The columns that a deletion may set to NULL.
NullColumns ==
  { <<"call_logs", "callee_user_id">>, <<"call_logs", "caller_user_id">>,
    <<"token_ledger", "user_id">> }

(* What every foreign key has in common: nothing refers to a row that may  *)
(* go with another, no record goes with a row of another table and nothing *)
(* goes or is set to NULL with a record, and only a column that may be     *)
(* NULL is set to NULL.                                                    *)
Lawful(r) ==
  /\ r.onDelete \in {"CASCADE", "SET NULL", "RESTRICT", "NO ACTION"}
  /\ r.to \in Targets
  /\ r.onDelete = "CASCADE" => r.table \notin Targets \cup Records
  /\ r.onDelete \in {"CASCADE", "SET NULL"} => r.to \notin Records
  /\ r.onDelete = "SET NULL" => <<r.table, r.column>> \in NullColumns
  /\ <<r.table, r.column>> \in NullColumns => r.optional

LEMMA EveryKey == \A r \in References : Lawful(r)
<1>1. \A r \in SyncTables : Lawful(r)
  <2>1. Lawful(Ref("sync_events", "community_id", "communities", "CASCADE", FALSE))
    BY DEF Lawful, Ref, Targets, NullColumns, Records
  <2>2. Lawful(Ref("sync_state", "community_id", "communities", "CASCADE", FALSE))
    BY DEF Lawful, Ref, Targets, NullColumns, Records
  <2> QED
    BY <2>1, <2>2 DEF SyncTables
<1>2. \A r \in Directory : Lawful(r)
  <2>1. Lawful(Ref("units", "community_id", "communities", "RESTRICT", FALSE))
    BY DEF Lawful, Ref, Targets, NullColumns, Records
  <2>2. Lawful(Ref("users", "community_id", "communities", "RESTRICT", FALSE))
    BY DEF Lawful, Ref, Targets, NullColumns, Records
  <2> QED
    BY <2>1, <2>2 DEF Directory
<1>3. \A r \in Notices : Lawful(r)
  <2>1. Lawful(Ref("announcements", "author_id", "users", "NO ACTION", FALSE))
    BY DEF Lawful, Ref, Targets, NullColumns, Records
  <2>2. Lawful(Ref("announcements", "community_id", "communities", "CASCADE", FALSE))
    BY DEF Lawful, Ref, Targets, NullColumns, Records
  <2>3. Lawful(Ref("audit_log", "actor_user_id", "users", "NO ACTION", TRUE))
    BY DEF Lawful, Ref, Targets, NullColumns, Records
  <2>4. Lawful(Ref("audit_log", "community_id", "communities", "NO ACTION", TRUE))
    BY DEF Lawful, Ref, Targets, NullColumns, Records
  <2> QED
    BY <2>1, <2>2, <2>3, <2>4 DEF Notices
<1>4. \A r \in Calls : Lawful(r)
  <2>1. Lawful(Ref("call_logs", "callee_user_id", "users", "SET NULL", TRUE))
    BY DEF Lawful, Ref, Targets, NullColumns, Records
  <2>2. Lawful(Ref("call_logs", "caller_user_id", "users", "SET NULL", TRUE))
    BY DEF Lawful, Ref, Targets, NullColumns, Records
  <2>3. Lawful(Ref("call_logs", "community_id", "communities", "RESTRICT", FALSE))
    BY DEF Lawful, Ref, Targets, NullColumns, Records
  <2>4. Lawful(Ref("consent_records", "user_id", "users", "CASCADE", FALSE))
    BY DEF Lawful, Ref, Targets, NullColumns, Records
  <2>5. Lawful(Ref("friend_mappings", "initiated_by", "users", "NO ACTION", FALSE))
    BY DEF Lawful, Ref, Targets, NullColumns, Records
  <2>6. Lawful(Ref("friend_mappings", "user_a_id", "users", "CASCADE", FALSE))
    BY DEF Lawful, Ref, Targets, NullColumns, Records
  <2>7. Lawful(Ref("friend_mappings", "user_b_id", "users", "CASCADE", FALSE))
    BY DEF Lawful, Ref, Targets, NullColumns, Records
  <2> QED
    BY <2>1, <2>2, <2>3, <2>4, <2>5, <2>6, <2>7 DEF Calls
<1>5. \A r \in Services : Lawful(r)
  <2>1. Lawful(Ref("payment_orders", "community_id", "communities", "NO ACTION", FALSE))
    BY DEF Lawful, Ref, Targets, NullColumns, Records
  <2>2. Lawful(Ref("payment_orders", "user_id", "users", "NO ACTION", FALSE))
    BY DEF Lawful, Ref, Targets, NullColumns, Records
  <2>3. Lawful(Ref("sip_endpoints", "community_id", "communities", "RESTRICT", FALSE))
    BY DEF Lawful, Ref, Targets, NullColumns, Records
  <2>4. Lawful(Ref("sip_endpoints", "user_id", "users", "CASCADE", FALSE))
    BY DEF Lawful, Ref, Targets, NullColumns, Records
  <2>5. Lawful(Ref("tasks", "assigned_to", "users", "NO ACTION", TRUE))
    BY DEF Lawful, Ref, Targets, NullColumns, Records
  <2>6. Lawful(Ref("tasks", "community_id", "communities", "CASCADE", FALSE))
    BY DEF Lawful, Ref, Targets, NullColumns, Records
  <2>7. Lawful(Ref("tasks", "created_by", "users", "NO ACTION", FALSE))
    BY DEF Lawful, Ref, Targets, NullColumns, Records
  <2> QED
    BY <2>1, <2>2, <2>3, <2>4, <2>5, <2>6, <2>7 DEF Services
<1>6. \A r \in Ledger : Lawful(r)
  <2>1. Lawful(Ref("token_ledger", "community_id", "communities", "RESTRICT", FALSE))
    BY DEF Lawful, Ref, Targets, NullColumns, Records
  <2>2. Lawful(Ref("token_ledger", "user_id", "users", "SET NULL", TRUE))
    BY DEF Lawful, Ref, Targets, NullColumns, Records
  <2> QED
    BY <2>1, <2>2 DEF Ledger
<1>7. \A r \in Relations : Lawful(r)
  <2>1. Lawful(Ref("user_unit_relations", "unit_id", "units", "CASCADE", FALSE))
    BY DEF Lawful, Ref, Targets, NullColumns, Records
  <2>2. Lawful(Ref("user_unit_relations", "user_id", "users", "CASCADE", FALSE))
    BY DEF Lawful, Ref, Targets, NullColumns, Records
  <2>3. Lawful(Ref("billing_records", "call_id", "call_logs", "RESTRICT", FALSE))
    BY DEF Lawful, Ref, Targets, NullColumns, Records
  <2>4. Lawful(Ref("billing_records", "community_id", "communities", "NO ACTION", FALSE))
    BY DEF Lawful, Ref, Targets, NullColumns, Records
  <2>5. Lawful(Ref("billing_records", "ledger_entry_id", "token_ledger", "NO ACTION", TRUE))
    BY DEF Lawful, Ref, Targets, NullColumns, Records
  <2> QED
    BY <2>1, <2>2, <2>3, <2>4, <2>5 DEF Relations
<1> QED
  BY <1>1, <1>2, <1>3, <1>4, <1>5, <1>6, <1>7 DEF References

(* A cascade is one step deep: no key, whatever its rule, refers to a table *)
(* whose rows go with other rows.                                          *)
LEMMA CascadesEnd ==
  \A r, s \in References : r.onDelete = "CASCADE" => s.to # r.table
BY EveryKey DEF Lawful

-----------------------------------------------------------------------------
(* A stored row has the columns of its table, each with a value that fits. *)
Fits == \A x \in Rows : Exists(x) => stored[x] \in Fitting(x)

Typed == DOMAIN stored = Rows /\ Fits

(* A row that fits is a row: it is neither of the two marks for no row.    *)
LEMMA RowsAreRows ==
  ASSUME NEW x \in Rows, NEW f \in Fitting(x)
  PROVE  f \in [ColumnsOf[x] -> Value] /\ f \notin {Unborn, Gone}
BY ValueAssumption DEF Fitting

(* What a column that refers to a row holds.                               *)
LEMMA Target ==
  ASSUME NEW x \in Rows, NEW f \in Fitting(x), NEW r \in RefsOf[x]
  PROVE  /\ r \in References /\ r.table = TableOf[x] /\ r.column \in ColumnsOf[x]
         /\ \/ r.optional /\ f[r.column] = Null
            \/ f[r.column] # Null /\ f[r.column] \in Rows /\ TableOf[f[r.column]] = r.to
<1>1. r \in References /\ r.table = TableOf[x] /\ r.column \in ColumnsOf[x]
  BY DEF RefsOf, ColumnsOf
<1>2. IF f[r.column] = Null THEN r.optional
      ELSE f[r.column] \in Rows /\ TableOf[f[r.column]] = r.to
  BY DEF Fitting
<1> QED
  BY <1>1, <1>2

(* A deletion sets to NULL only columns that may be NULL, and never with a *)
(* record.                                                                 *)
LEMMA NulledColumns ==
  ASSUME NEW x \in Rows, NEW y \in Rows, NEW c \in Nulled(x, y)
  PROVE  /\ <<TableOf[y], c>> \in NullColumns
         /\ Fits => TableOf[x] \notin Records
<1>1. PICK s \in RefsOf[y] : s.onDelete = "SET NULL" /\ Refers(y, s, x) /\ s.column = c
  BY DEF Nulled
<1>2. s \in References /\ s.table = TableOf[y]
  BY DEF RefsOf
<1>3. Lawful(s)
  BY <1>2, EveryKey
<1>4. <<TableOf[y], c>> \in NullColumns
  BY <1>1, <1>2, <1>3 DEF Lawful
<1>5. ASSUME Fits PROVE TableOf[x] \notin Records
  <2>1. stored[y] \in Fitting(y) /\ stored[y][s.column] = x
    BY <1>1, <1>5 DEF Fits, Refers
  <2>2. x # Null
    BY ValueAssumption
  <2>3. TableOf[x] = s.to
    BY <1>1, <2>1, <2>2, Target
  <2> QED
    BY <1>1, <1>3, <2>3 DEF Lawful
<1> QED
  BY <1>4, <1>5

(* What goes with a row is no record, and does not go with a record.       *)
LEMMA DoomedRows ==
  ASSUME Fits, NEW x \in Rows, NEW y \in Doomed(x), y # x
  PROVE  /\ y \in Rows /\ Exists(y)
         /\ TableOf[y] \notin Records /\ TableOf[x] \notin Records
         /\ TableOf[y] \notin Targets
<1>1. PICK r \in RefsOf[y] : r.onDelete = "CASCADE" /\ Refers(y, r, x)
  BY DEF Doomed
<1>2. y \in Rows /\ Exists(y) /\ stored[y] \in Fitting(y) /\ stored[y][r.column] = x
  BY <1>1 DEF Doomed, Refers, Fits
<1>3. x # Null
  BY ValueAssumption
<1>4. r \in References /\ r.table = TableOf[y] /\ TableOf[x] = r.to
  BY <1>1, <1>2, <1>3, Target
<1>5. Lawful(r)
  BY <1>4, EveryKey
<1> QED
  BY <1>1, <1>2, <1>4, <1>5 DEF Lawful

(* A row that does not go stays a row.                                     *)
LEMMA Stays ==
  ASSUME Typed, NEW x \in Rows, Delete(x), NEW y \in Rows \ Doomed(x), Exists(y)
  PROVE  Exists(y)'
<1>1. stored'[y] = IF Nulled(x, y) # {} THEN Without(stored[y], Nulled(x, y)) ELSE stored[y]
  BY DEF Delete
<1>2. stored[y] \in [ColumnsOf[y] -> Value]
  BY RowsAreRows DEF Typed, Fits
<1>3. Without(stored[y], Nulled(x, y)) \in [ColumnsOf[y] -> Value]
  BY <1>2 DEF Without, Value
<1>4. Without(stored[y], Nulled(x, y)) \notin {Unborn, Gone}
  BY <1>3, ValueAssumption
<1> QED
  BY <1>1, <1>4 DEF Exists

(* A row that outlives a deletion: what its columns hold afterwards.       *)
LEMMA Survivor ==
  ASSUME Typed, NEW x \in Rows, Delete(x), NEW y \in Rows, Exists(y)'
  PROVE  /\ y \notin Doomed(x) /\ Exists(y)
         /\ stored[y] \in Fitting(y) /\ stored'[y] \in Fitting(y)
         /\ \A c \in ColumnsOf[y] :
              stored'[y][c] = (IF c \in Nulled(x, y) THEN Null ELSE stored[y][c])
         /\ TableOf[y] = "token_ledger" => Nulled(x, y) = {}
<1>1. /\ stored'[y] = IF y \in Doomed(x) THEN Gone
                      ELSE IF Nulled(x, y) # {} THEN Without(stored[y], Nulled(x, y))
                      ELSE stored[y]
      /\ ~Blocked(x)
  BY DEF Delete
<1>2. y \notin Doomed(x)
  BY <1>1 DEF Exists
<1>3. Exists(y)
  <2>1. CASE Nulled(x, y) # {}
    BY <2>1 DEF Nulled, Refers
  <2>2. CASE Nulled(x, y) = {}
    BY <1>1, <1>2, <2>2 DEF Exists
  <2> QED
    BY <2>1, <2>2
<1>4. stored[y] \in Fitting(y) /\ stored[y] \in [ColumnsOf[y] -> Value]
  BY <1>3, RowsAreRows DEF Typed, Fits
<1>5. TableOf[y] = "token_ledger" => Nulled(x, y) = {}
  BY <1>1 DEF Blocked, LedgerForbids
<1>6. CASE Nulled(x, y) = {}
  BY <1>1, <1>2, <1>3, <1>4, <1>5, <1>6
<1>7. CASE Nulled(x, y) # {}
  <2>1. stored'[y] = [c \in ColumnsOf[y] |-> IF c \in Nulled(x, y) THEN Null ELSE stored[y][c]]
    BY <1>1, <1>2, <1>4, <1>7 DEF Without
  <2>2. stored'[y] \in [ColumnsOf[y] -> Value]
    BY <1>4, <2>1 DEF Value
  <2>3. ASSUME NEW r \in RefsOf[y]
        PROVE  IF stored'[y][r.column] = Null THEN r.optional
               ELSE stored'[y][r.column] \in Rows /\ TableOf[stored'[y][r.column]] = r.to
    <3>1. /\ r \in References /\ r.table = TableOf[y] /\ r.column \in ColumnsOf[y]
          /\ \/ r.optional /\ stored[y][r.column] = Null
             \/ /\ stored[y][r.column] # Null /\ stored[y][r.column] \in Rows
                /\ TableOf[stored[y][r.column]] = r.to
      BY <1>4, Target
    <3>2. CASE r.column \in Nulled(x, y)
      <4>1. <<TableOf[y], r.column>> \in NullColumns
        BY <3>2, NulledColumns
      <4>2. Lawful(r)
        BY <3>1, EveryKey
      <4>3. r.optional
        BY <3>1, <4>1, <4>2 DEF Lawful
      <4> QED
        BY <2>1, <3>1, <3>2, <4>3
    <3>3. CASE r.column \notin Nulled(x, y)
      BY <2>1, <3>1, <3>3
    <3> QED
      BY <3>2, <3>3
  <2>4. TableOf[y] # "token_ledger"
    BY <1>5, <1>7
  <2>5. stored'[y] \in Fitting(y)
    BY <2>2, <2>3, <2>4 DEF Fitting
  <2> QED
    BY <1>2, <1>3, <1>4, <1>5, <2>1, <2>5
<1> QED
  BY <1>6, <1>7

-----------------------------------------------------------------------------
(* Before the first statement there are no rows.                           *)
LEMMA Start == ASSUME Init PROVE \A x \in Rows : ~Exists(x)
BY DEF Init, Exists

(* The statements that write one row, and the ones that write several.     *)
Write(x, f) == Insert(x, f) \/ Update(x, f)

LEMMA Steps ==
  ASSUME [Next]_stored
  PROVE  \/ \E x \in Rows : \E f \in Fitting(x) : Write(x, f)
         \/ \E x \in Rows : Delete(x)
         \/ UNCHANGED stored
BY DEF Next, Contents, Write, Refuse

(* What a write leaves behind.                                             *)
LEMMA Written ==
  ASSUME Typed, NEW x \in Rows, NEW f \in Fitting(x), Write(x, f)
  PROVE  /\ stored'[x] = f /\ Exists(x)' /\ KeysHold(x, f)
         /\ \A y \in Rows \ {x} : stored'[y] = stored[y] /\ (Exists(y)' <=> Exists(y))
         /\ TableOf[x] = "token_ledger" => ~Exists(x)
         /\ DOMAIN stored' = Rows
<1>1. /\ stored' = [stored EXCEPT ![x] = f] /\ KeysHold(x, f)
      /\ TableOf[x] = "token_ledger" => ~Exists(x)
  BY DEF Write, Insert, Update, LedgerForbids, Exists
<1>2. /\ stored'[x] = f /\ DOMAIN stored' = Rows
      /\ \A y \in Rows \ {x} : stored'[y] = stored[y]
  BY <1>1 DEF Typed
<1>3. f \notin {Unborn, Gone}
  BY RowsAreRows
<1> QED
  BY <1>1, <1>2, <1>3 DEF Exists

LEMMA TypedAlways == Spec => []Typed
<1>1. Init => Typed
  BY Start DEF Init, Typed, Fits
<1>2. Typed /\ [Next]_stored => Typed'
  <2> SUFFICES ASSUME Typed, [Next]_stored PROVE Typed'
    OBVIOUS
  <2>1. ASSUME NEW x \in Rows, NEW f \in Fitting(x), Write(x, f) PROVE Typed'
    BY <2>1, Written DEF Typed, Fits
  <2>2. ASSUME NEW x \in Rows, Delete(x) PROVE Typed'
    <3>1. Fits'
      BY <2>2, Survivor DEF Fits
    <3>2. DOMAIN stored' = Rows
      BY <2>2 DEF Delete
    <3> QED
      BY <3>1, <3>2 DEF Typed
  <2>3. CASE UNCHANGED stored
    BY <2>3 DEF Typed, Fits, Exists
  <2> QED
    BY <2>1, <2>2, <2>3, Steps
<1> QED
  BY <1>1, <1>2, PTL DEF Spec

(* Every stored row has the columns of its table (TypeOK).                 *)
THEOREM SchemaTypeCorrect == Spec => []TypeOK
<1>1. Typed => TypeOK
  BY RowsAreRows DEF Typed, Fits, TypeOK
<1> QED
  BY <1>1, TypedAlways, PTL

-----------------------------------------------------------------------------
(* No committed row refers to one that is not there.  What a deletion      *)
(* leaves behind cannot name a row it removed: a row that names the row    *)
(* deleted goes with it, is set to NULL or blocks the deletion, and a row  *)
(* that goes with it is in a table whose rows nothing goes with.           *)
THEOREM ReferencesHold == Spec => []NoDanglingReference
<1>1. Init => NoDanglingReference
  BY Start DEF NoDanglingReference
<1>2. Typed /\ Typed' /\ NoDanglingReference /\ [Next]_stored => NoDanglingReference'
  <2> SUFFICES ASSUME Typed, Typed', NoDanglingReference, [Next]_stored,
                      NEW y \in Rows, NEW r \in RefsOf[y], Exists(y)',
                      NEW v, v = stored'[y][r.column]
               PROVE  \/ r.optional /\ v = Null
                      \/ v \in Rows /\ Exists(v)' /\ TableOf[v] = r.to
    BY DEF NoDanglingReference, Exists
  <2>1. stored'[y] \in Fitting(y)
    BY DEF Typed, Fits
  <2>2. SUFFICES ASSUME v # Null, v \in Rows, TableOf[v] = r.to
                 PROVE  Exists(v)'
    BY <2>1, Target
  <2>3. ASSUME NEW x \in Rows, NEW f \in Fitting(x), Write(x, f) PROVE Exists(v)'
    <3>1. CASE y = x
      <4>1. Exists(v)
        BY <2>2, <2>3, <3>1, Written DEF KeysHold
      <4> QED
        BY <2>2, <2>3, <4>1, Written
    <3>2. CASE y # x
      <4>1. Exists(y) /\ v = stored[y][r.column]
        BY <2>3, <3>2, Written
      <4>2. Exists(v)
        BY <2>2, <4>1 DEF NoDanglingReference
      <4> QED
        BY <2>2, <2>3, <4>2, Written
    <3> QED
      BY <3>1, <3>2
  <2>4. ASSUME NEW x \in Rows, Delete(x) PROVE Exists(v)'
    <3>1. /\ y \notin Doomed(x) /\ Exists(y) /\ stored[y] \in Fitting(y)
          /\ r.column \notin Nulled(x, y) /\ v = stored[y][r.column]
      BY <2>1, <2>2, <2>4, Survivor, Target
    <3>2. Exists(v)
      BY <2>2, <3>1 DEF NoDanglingReference
    <3>3. r \in References /\ Lawful(r)
      BY <2>1, EveryKey, Target
    <3>4. v # x
      <4>1. SUFFICES ASSUME v = x PROVE FALSE
        OBVIOUS
      <4>2. Refers(y, r, x)
        BY <3>1, <4>1 DEF Refers
      <4>3. r.onDelete # "CASCADE"
        BY <3>1, <4>2 DEF Doomed
      <4>4. r.onDelete # "SET NULL"
        BY <3>1, <4>2 DEF Nulled
      <4>5. r.onDelete \notin {"RESTRICT", "NO ACTION"}
        BY <2>4, <3>1, <3>3, <4>2 DEF Delete, Blocked
      <4> QED
        BY <3>3, <4>3, <4>4, <4>5 DEF Lawful
    <3>5. TableOf[v] \in Targets
      BY <2>2, <3>3 DEF Lawful
    <3>6. v \notin Doomed(x)
      BY <3>4, <3>5, DoomedRows DEF Typed
    <3> QED
      BY <2>2, <2>4, <3>2, <3>6, Stays
  <2>5. CASE UNCHANGED stored
    <3>1. Exists(y) /\ v = stored[y][r.column] /\ (Exists(v)' <=> Exists(v))
      BY <2>5 DEF Exists
    <3> QED
      BY <2>2, <3>1 DEF NoDanglingReference
  <2> QED
    BY <2>3, <2>4, <2>5, Steps
<1> QED
  BY <1>1, <1>2, TypedAlways, PTL DEF Spec

-----------------------------------------------------------------------------
(* An entry of the ledger, once committed, keeps its columns for ever: the *)
(* triggers refuse an UPDATE of it, a DELETE of it and a DELETE of its     *)
(* user, and no rule removes it with another row.                          *)
THEOREM LedgerIsAppendOnly == Spec => LedgerAppendOnly
<1>1. Typed /\ [Next]_stored =>
        [\A x \in Rows : TableOf[x] = "token_ledger" /\ Exists(x) => stored'[x] = stored[x]]_stored
  <2> SUFFICES ASSUME Typed, [Next]_stored, NEW y \in Rows,
                      TableOf[y] = "token_ledger", Exists(y)
               PROVE  stored'[y] = stored[y]
    OBVIOUS
  <2>1. ASSUME NEW x \in Rows, NEW f \in Fitting(x), Write(x, f)
        PROVE  stored'[y] = stored[y]
    BY <2>1, Written
  <2>2. ASSUME NEW x \in Rows, Delete(x) PROVE stored'[y] = stored[y]
    <3>1. y \notin Doomed(x) /\ Nulled(x, y) = {}
      BY <2>2 DEF Delete, Blocked, LedgerForbids
    <3> QED
      BY <2>2, <3>1 DEF Delete
  <2> QED
    BY <2>1, <2>2, Steps
<1> QED
  BY <1>1, TypedAlways, PTL DEF Spec, LedgerAppendOnly

(* A record goes only in a statement that deletes it alone: no rule        *)
(* removes a record with another row, and none removes or changes a row    *)
(* with a record.                                                          *)
THEOREM RecordsSurviveAlways == Spec => RecordsSurvive
<1>1. Typed /\ [Next]_stored =>
        [\A x \in Rows :
           TableOf[x] \in Records /\ Exists(x) /\ stored'[x] = Gone =>
             \A y \in Rows \ {x} : Exists(y) => stored'[y] = stored[y]]_stored
  <2> SUFFICES ASSUME Typed, [Next]_stored, NEW x \in Rows, TableOf[x] \in Records,
                      Exists(x), stored'[x] = Gone, NEW y \in Rows \ {x}, Exists(y)
               PROVE  stored'[y] = stored[y]
    OBVIOUS
  <2>1. ASSUME NEW z \in Rows, NEW f \in Fitting(z), Write(z, f) PROVE FALSE
    BY <2>1, Written DEF Exists
  <2>2. ASSUME NEW z \in Rows, Delete(z) PROVE stored'[y] = stored[y]
    <3>1. x \in Doomed(z)
      BY <2>2, Stays DEF Exists
    <3>2. z = x
      BY <3>1, DoomedRows DEF Typed
    <3>3. y \notin Doomed(x)
      BY DoomedRows DEF Typed
    <3>4. Nulled(x, y) = {}
      BY NulledColumns DEF Typed
    <3> QED
      BY <2>2, <3>2, <3>3, <3>4 DEF Delete
  <2>3. CASE UNCHANGED stored
    BY <2>3
  <2> QED
    BY <2>1, <2>2, <2>3, Steps
<1> QED
  BY <1>1, TypedAlways, PTL DEF Spec, RecordsSurvive

(* A user an entry of the ledger names stays: the entry stays and goes on  *)
(* naming the user (LedgerIsAppendOnly), and it never names one who is not *)
(* there (ReferencesHold).                                                 *)
THEOREM LedgerKeepsItsUsers == Spec => DebtorsStay
<1> DEFINE Kept == \A x \in Rows :
                     TableOf[x] = "token_ledger" /\ Exists(x) => stored'[x] = stored[x]
<1>1. ASSUME NEW u \in {x \in Rows : TableOf[x] = "users"},
             NEW l \in {x \in Rows : TableOf[x] = "token_ledger"}
      PROVE  Spec => [](Owes(l, u) => []Exists(u))
  <2>1. Owes(l, u) /\ [Kept]_stored => Owes(l, u)'
    BY DEF Owes, Exists
  <2>2. NoDanglingReference /\ Owes(l, u) => Exists(u)
    <3> DEFINE owner == Ref("token_ledger", "user_id", "users", "SET NULL", TRUE)
    <3>1. owner \in References
      BY DEF References, Ledger
    <3>2. owner.table = "token_ledger" /\ owner.column = "user_id"
      BY DEF Ref
    <3>3. owner \in RefsOf[l]
      BY <3>1, <3>2 DEF RefsOf
    <3> HIDE DEF owner
    <3> QED
      BY <3>2, <3>3, ValueAssumption DEF NoDanglingReference, Owes
  <2>3. Spec => [][Kept]_stored
    BY LedgerIsAppendOnly DEF LedgerAppendOnly
  <2> QED
    BY <2>1, <2>2, <2>3, ReferencesHold, PTL
<1> QED
  BY <1>1 DEF DebtorsStay
=============================================================================
