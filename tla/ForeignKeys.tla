---------------------------- MODULE ForeignKeys ----------------------------
(***************************************************************************)
(* The foreign keys and unique keys of the initial migration, as data: the *)
(* constraints of CivioSchema, and what makes one table of Migration       *)
(* depend on another.                                                      *)
(***************************************************************************)

\* A foreign key: table.column refers to a row of the table to.
Ref(table, column, to, onDelete, optional) ==
  [table |-> table, column |-> column, to |-> to,
   onDelete |-> onDelete, optional |-> optional]

-----------------------------------------------------------------------------
(* The foreign keys, in the order of the migration.                        *)

SyncTables ==
  { Ref("sync_events", "community_id", "communities", "CASCADE", FALSE),
    Ref("sync_state", "community_id", "communities", "CASCADE", FALSE) }

Directory ==
  { Ref("units", "community_id", "communities", "RESTRICT", FALSE),
    Ref("users", "community_id", "communities", "RESTRICT", FALSE) }

Notices ==
  { Ref("announcements", "author_id", "users", "NO ACTION", FALSE),
    Ref("announcements", "community_id", "communities", "CASCADE", FALSE),
    Ref("audit_log", "actor_user_id", "users", "NO ACTION", TRUE),
    Ref("audit_log", "community_id", "communities", "NO ACTION", TRUE) }

Calls ==
  { Ref("call_logs", "callee_user_id", "users", "SET NULL", TRUE),
    Ref("call_logs", "caller_user_id", "users", "SET NULL", TRUE),
    Ref("call_logs", "community_id", "communities", "RESTRICT", FALSE),
    Ref("consent_records", "user_id", "users", "CASCADE", FALSE),
    Ref("friend_mappings", "initiated_by", "users", "NO ACTION", FALSE),
    Ref("friend_mappings", "user_a_id", "users", "CASCADE", FALSE),
    Ref("friend_mappings", "user_b_id", "users", "CASCADE", FALSE) }

Services ==
  { Ref("payment_orders", "community_id", "communities", "NO ACTION", FALSE),
    Ref("payment_orders", "user_id", "users", "NO ACTION", FALSE),
    Ref("sip_endpoints", "community_id", "communities", "RESTRICT", FALSE),
    Ref("sip_endpoints", "user_id", "users", "CASCADE", FALSE),
    Ref("tasks", "assigned_to", "users", "NO ACTION", TRUE),
    Ref("tasks", "community_id", "communities", "CASCADE", FALSE),
    Ref("tasks", "created_by", "users", "NO ACTION", FALSE) }

Ledger ==
  { Ref("token_ledger", "community_id", "communities", "RESTRICT", FALSE),
    Ref("token_ledger", "user_id", "users", "SET NULL", TRUE) }

\* Plausible bug: the bill of a deleted call goes with the call.
BillsCascade ==
  { Ref("user_unit_relations", "unit_id", "units", "CASCADE", FALSE),
    Ref("user_unit_relations", "user_id", "users", "CASCADE", FALSE),
    Ref("billing_records", "call_id", "call_logs", "CASCADE", FALSE),
    Ref("billing_records", "community_id", "communities", "NO ACTION", FALSE),
    Ref("billing_records", "ledger_entry_id", "token_ledger", "NO ACTION", TRUE) }

Relations ==
  { Ref("user_unit_relations", "unit_id", "units", "CASCADE", FALSE),
    Ref("user_unit_relations", "user_id", "users", "CASCADE", FALSE),
    Ref("billing_records", "call_id", "call_logs", "RESTRICT", FALSE),
    Ref("billing_records", "community_id", "communities", "NO ACTION", FALSE),
    Ref("billing_records", "ledger_entry_id", "token_ledger", "NO ACTION", TRUE) }

References ==
  SyncTables \cup Directory \cup Notices \cup Calls \cup Services \cup Ledger \cup Relations

Tables == {r.table : r \in References} \cup {"communities"}

\* UNIQUE and PRIMARY KEY constraints over the modelled columns.
UniqueColumns ==
  { <<"sync_state", "community_id">>, <<"sip_endpoints", "user_id">>,
    <<"billing_records", "call_id">>, <<"token_ledger", "idempotency_key">> }
=============================================================================
