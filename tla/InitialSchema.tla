--------------------------- MODULE InitialSchema ---------------------------
(***************************************************************************)
(* The one revision there is, 61aa11b09d9f: upgrade and downgrade as the   *)
(* sequences of statements they send, in their order.                      *)
(***************************************************************************)
EXTENDS Catalogue, SequencesExt

\* A statement.  A lenient one says IF NOT EXISTS, OR REPLACE or IF EXISTS.
\* "attach" is the DO block, which looks its tables up when it runs.
Create(objects) == [op |-> "create", objects |-> objects, lenient |-> FALSE]
CreateIfMissing(objects) == [op |-> "create", objects |-> objects, lenient |-> TRUE]
Attach == [op |-> "attach", objects |-> {}, lenient |-> FALSE]
Drop(o) == [op |-> "drop", objects |-> {o}, lenient |-> FALSE]
DropIfExists(o) == [op |-> "drop", objects |-> {o}, lenient |-> TRUE]

Each(Op(_), s) == [i \in DOMAIN s |-> Op(s[i])]

-----------------------------------------------------------------------------
(* upgrade: op.create_table and op.create_index, table by table.           *)

\* A table, the enums of its columns as op.create_table spells them, and the
\* indexes created after it.
Entry(table, entity, types, stamped, indexes) ==
  [table |-> table, entity |-> entity, types |-> types, stamped |-> stamped,
   indexes |-> [i \in DOMAIN indexes |-> Index(indexes[i], table, {})]]

Uuid == {"uuid-ossp"}
Priority == Enum("announcement_priority", <<"low", "normal", "high", "urgent">>)
Billing == Enum("billing_scope", <<"user", "community", "free">>)

CommunityTables ==
  << [Entry("communities", Uuid,
        <<Enum("community_status", <<"pending", "ready", "active", "suspended">>)>>, TRUE, <<>>)
      EXCEPT !.indexes = <<Index("idx_communities_name_trgm", "communities", {"pg_trgm"}),
                           Index("idx_communities_status", "communities", {})>>],
     Entry("processed_events", {}, <<>>, FALSE, <<>>),
     Entry("sync_events", {}, <<Enum("sync_ack_status", <<"pending", "acked", "failed">>)>>,
       FALSE, <<"idx_sync_events_pending">>),
     Entry("sync_state", {}, <<>>, TRUE, <<>>) >>

DirectoryTables ==
  << Entry("units", Uuid,
       <<Enum("ownership_status", <<"owned", "sold", "pending_transfer", "rented">>),
         Enum("occupancy_status", <<"vacant", "occupied", "rented">>)>>,
       TRUE, <<"idx_units_community", "idx_units_ownership">>),
     Entry("users", Uuid,
       <<Enum("user_role", <<"owner", "tenant", "family", "admin", "staff">>),
         Enum("auth_status", <<"pending", "verified", "revoked">>)>>,
       TRUE, <<"idx_users_community", "idx_users_mobile", "idx_users_role">>) >>

NoticeTables ==
  << Entry("announcements", Uuid, <<Priority>>, TRUE, <<"idx_announcements_community">>),
     Entry("audit_log", {}, <<>>, FALSE, <<"idx_audit_actor", "idx_audit_community_time">>) >>

CallTables ==
  << Entry("call_logs", Uuid,
       <<Enum("call_status", <<"init", "ringing", "answered", "ended", "rejected", "failed">>),
         Billing>>,
       FALSE, <<"idx_call_logs_callee", "idx_call_logs_caller", "idx_call_logs_community_start">>),
     Entry("consent_records", Uuid, <<>>, FALSE, <<"idx_consent_user_type">>),
     Entry("friend_mappings", Uuid,
       <<Enum("friend_status", <<"pending", "active", "blocked", "removed">>)>>,
       TRUE, <<"idx_friend_active">>) >>

ServiceTables ==
  << Entry("payment_orders", Uuid, <<>>, FALSE,
       <<"idx_payment_provider_ref", "idx_payment_user">>),
     Entry("sip_endpoints", Uuid, <<>>, TRUE,
       <<"idx_sip_endpoints_community", "idx_sip_endpoints_user">>),
     Entry("tasks", Uuid, <<Priority>>, TRUE, <<"idx_tasks_community_status">>) >>

LedgerTables ==
  << Entry("token_ledger", {}, <<Enum("token_scope", <<"community", "user">>)>>, FALSE,
       <<"idx_ledger_community", "idx_ledger_user">>) >>

RelationTables ==
  << Entry("user_unit_relations", Uuid,
       <<Enum("relation_type", <<"resident", "family", "tenant">>)>>, FALSE,
       <<"idx_uur_unit", "idx_uur_user">>),
     Entry("billing_records", Uuid, <<Billing>>, FALSE, <<"idx_billing_community">>) >>

EntriesInOrder ==
  CommunityTables \o DirectoryTables \o NoticeTables \o CallTables \o ServiceTables
  \o LedgerTables \o RelationTables

\* A type is created just before the first table that uses it: alembic keeps
\* a memo of the types a run has created, and does not look in the database.
TypesBefore(n) == UNION {ToSet(EntriesInOrder[i].types) : i \in 1 .. n - 1}

EntryStatements(n) ==
  LET e == EntriesInOrder[n]
      fresh == SelectSeq(e.types, LAMBDA t : t.name \notin Names(TypesBefore(n)))
      keys == {r \in References : r.table = e.table}
  IN Each(LAMBDA t : Create({t}), fresh)
     \o << Create(TableObjects(e.table, e.entity \cup Names(ToSet(e.types)), keys, e.stamped)) >>
     \o Each(LAMBDA x : Create({x}), e.indexes)

Extension(name) == CreateIfMissing({Object("extension", name, "", {}, <<>>)})
Extensions == <<Extension("uuid-ossp"), Extension("pgcrypto"), Extension("pg_trgm")>>

Balances == Object("view", "token_balances", "", {"token_ledger", "token_scope"}, <<>>)

PostTable ==
  << CreateIfMissing({Function("forbid_ledger_mutation")}),
     Create({Trigger("trg_forbid_ledger_update", "token_ledger", "forbid_ledger_mutation")}),
     Create({Trigger("trg_forbid_ledger_delete", "token_ledger", "forbid_ledger_mutation")}),
     Create({Balances}),
     Create({Index("idx_balances_key", "token_balances", {})}),
     CreateIfMissing({Function("tg_set_updated_at")}),
     Attach,
     CreateIfMissing({Function("tg_bump_community_version")}) >>
  \o Each(LAMBDA n : Create({Trigger(n[1], n[2], "tg_bump_community_version")}),
          << <<"trg_users_version", "users">>, <<"trg_units_version", "units">>,
             <<"trg_sip_endpoints_version", "sip_endpoints">>,
             <<"trg_friend_mappings_version", "friend_mappings">> >>)

Upgrade ==
  Extensions \o FlattenSeq([n \in DOMAIN EntriesInOrder |-> EntryStatements(n)]) \o PostTable

-----------------------------------------------------------------------------
(* downgrade.                                                              *)

\* op.drop_index of each index, then op.drop_table.
Dropped(table, indexes) ==
  Each(LAMBDA i : Drop(Index(i, table, {})), indexes)
  \o << Drop(Object("table", table, "", {}, <<>>)) >>

DropTables ==
  Dropped("billing_records", <<"idx_billing_community">>)
  \o Dropped("user_unit_relations", <<"idx_uur_user", "idx_uur_unit">>)
  \o Dropped("token_ledger", <<"idx_ledger_user", "idx_ledger_community">>)
  \o Dropped("tasks", <<"idx_tasks_community_status">>)
  \o Dropped("sip_endpoints", <<"idx_sip_endpoints_user", "idx_sip_endpoints_community">>)
  \o Dropped("payment_orders", <<"idx_payment_user", "idx_payment_provider_ref">>)
  \o Dropped("friend_mappings", <<"idx_friend_active">>)
  \o Dropped("consent_records", <<"idx_consent_user_type">>)
  \o Dropped("call_logs", <<"idx_call_logs_community_start", "idx_call_logs_caller",
                            "idx_call_logs_callee">>)
  \o Dropped("audit_log", <<"idx_audit_community_time", "idx_audit_actor">>)
  \o Dropped("announcements", <<"idx_announcements_community">>)
  \o Dropped("users", <<"idx_users_role", "idx_users_mobile", "idx_users_community">>)
  \o Dropped("units", <<"idx_units_ownership", "idx_units_community">>)
  \o Dropped("sync_state", <<>>)
  \o Dropped("sync_events", <<"idx_sync_events_pending">>)
  \o Dropped("processed_events", <<>>)
  \o Dropped("communities", <<"idx_communities_status", "idx_communities_name_trgm">>)

DropFunctions ==
  Each(LAMBDA f : DropIfExists(Function(f)),
       <<"tg_bump_community_version", "tg_set_updated_at", "forbid_ledger_mutation">>)

DropTypes ==
  Each(LAMBDA t : DropIfExists(Enum(t, <<>>)),
       <<"announcement_priority", "sync_ack_status", "billing_scope", "call_status",
         "token_scope", "friend_status", "relation_type", "auth_status", "user_role",
         "occupancy_status", "ownership_status", "community_status">>)

Downgrade == << DropIfExists(Balances) >> \o DropTables \o DropFunctions \o DropTypes
=============================================================================
