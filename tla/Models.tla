------------------------------- MODULE Models -------------------------------
(***************************************************************************)
(* The tables as the ORM declares them: one definition per class of        *)
(* models/, with its enum types, foreign keys and indexes, and whether it  *)
(* has the updated_at of TimestampMixin (or one of its own).  Declared is  *)
(* what "alembic check" would compare a database at the head with.         *)
(***************************************************************************)
EXTENDS Catalogue

-----------------------------------------------------------------------------
(* enums.py: the class and its shared ENUM singleton.                      *)

CommunityStatus == Enum("community_status", <<"pending", "ready", "active", "suspended">>)
OwnershipStatus == Enum("ownership_status", <<"owned", "sold", "pending_transfer", "rented">>)
OccupancyStatus == Enum("occupancy_status", <<"vacant", "occupied", "rented">>)
UserRole == Enum("user_role", <<"owner", "tenant", "family", "admin", "staff">>)
AuthStatus == Enum("auth_status", <<"pending", "verified", "revoked">>)
RelationType == Enum("relation_type", <<"resident", "family", "tenant">>)
FriendStatus == Enum("friend_status", <<"pending", "active", "blocked", "removed">>)
TokenScope == Enum("token_scope", <<"community", "user">>)
CallStatus ==
  Enum("call_status", <<"init", "ringing", "answered", "ended", "rejected", "failed">>)
BillingScope == Enum("billing_scope", <<"user", "community", "free">>)
SyncAckStatus == Enum("sync_ack_status", <<"pending", "acked", "failed">>)
AnnouncementPriority == Enum("announcement_priority", <<"low", "normal", "high", "urgent">>)

-----------------------------------------------------------------------------
\* The id of an entity: a UUID made by uuid_generate_v4().
Entity == {"uuid-ossp"}

\* A class: its table, the types of its columns, its keys and its indexes.
Model(table, entity, types, stamped, keys, indexes) ==
  types \cup TableObjects(table, entity \cup Names(types), keys, stamped)
        \cup {Index(i, table, {}) : i \in indexes}

Community ==
  Model("communities", Entity, {CommunityStatus}, TRUE, {}, {"idx_communities_status"})
  \cup {Index("idx_communities_name_trgm", "communities", {"pg_trgm"})}

ProcessedEvent == Model("processed_events", {}, {}, FALSE, {}, {})

SyncEvent ==
  Model("sync_events", {}, {SyncAckStatus}, FALSE,
    {Ref("sync_events", "community_id", "communities", "CASCADE", FALSE)},
    {"idx_sync_events_pending"})

SyncState ==
  Model("sync_state", {}, {}, TRUE,
    {Ref("sync_state", "community_id", "communities", "CASCADE", FALSE)}, {})

Unit ==
  Model("units", Entity, {OwnershipStatus, OccupancyStatus}, TRUE,
    {Ref("units", "community_id", "communities", "RESTRICT", FALSE)},
    {"idx_units_community", "idx_units_ownership"})

User ==
  Model("users", Entity, {UserRole, AuthStatus}, TRUE,
    {Ref("users", "community_id", "communities", "RESTRICT", FALSE)},
    {"idx_users_mobile", "idx_users_role", "idx_users_community"})

Announcement ==
  Model("announcements", Entity, {AnnouncementPriority}, TRUE,
    {Ref("announcements", "community_id", "communities", "CASCADE", FALSE),
     Ref("announcements", "author_id", "users", "NO ACTION", FALSE)},
    {"idx_announcements_community"})

AuditLog ==
  Model("audit_log", {}, {}, FALSE,
    {Ref("audit_log", "community_id", "communities", "NO ACTION", TRUE),
     Ref("audit_log", "actor_user_id", "users", "NO ACTION", TRUE)},
    {"idx_audit_community_time", "idx_audit_actor"})

CallLog ==
  Model("call_logs", Entity, {CallStatus, BillingScope}, FALSE,
    {Ref("call_logs", "community_id", "communities", "RESTRICT", FALSE),
     Ref("call_logs", "caller_user_id", "users", "SET NULL", TRUE),
     Ref("call_logs", "callee_user_id", "users", "SET NULL", TRUE)},
    {"idx_call_logs_community_start", "idx_call_logs_caller", "idx_call_logs_callee"})

ConsentRecord ==
  Model("consent_records", Entity, {}, FALSE,
    {Ref("consent_records", "user_id", "users", "CASCADE", FALSE)},
    {"idx_consent_user_type"})

FriendMapping ==
  Model("friend_mappings", Entity, {FriendStatus}, TRUE,
    {Ref("friend_mappings", "user_a_id", "users", "CASCADE", FALSE),
     Ref("friend_mappings", "user_b_id", "users", "CASCADE", FALSE),
     Ref("friend_mappings", "initiated_by", "users", "NO ACTION", FALSE)},
    {"idx_friend_active"})

PaymentOrder ==
  Model("payment_orders", Entity, {}, FALSE,
    {Ref("payment_orders", "user_id", "users", "NO ACTION", FALSE),
     Ref("payment_orders", "community_id", "communities", "NO ACTION", FALSE)},
    {"idx_payment_user", "idx_payment_provider_ref"})

SipEndpoint ==
  Model("sip_endpoints", Entity, {}, TRUE,
    {Ref("sip_endpoints", "user_id", "users", "CASCADE", FALSE),
     Ref("sip_endpoints", "community_id", "communities", "RESTRICT", FALSE)},
    {"idx_sip_endpoints_user", "idx_sip_endpoints_community"})

Task ==
  Model("tasks", Entity, {AnnouncementPriority}, TRUE,
    {Ref("tasks", "community_id", "communities", "CASCADE", FALSE),
     Ref("tasks", "created_by", "users", "NO ACTION", FALSE),
     Ref("tasks", "assigned_to", "users", "NO ACTION", TRUE)},
    {"idx_tasks_community_status"})

TokenLedger ==
  Model("token_ledger", {}, {TokenScope}, FALSE,
    {Ref("token_ledger", "community_id", "communities", "RESTRICT", FALSE),
     Ref("token_ledger", "user_id", "users", "SET NULL", TRUE)},
    {"idx_ledger_community", "idx_ledger_user"})

UserUnitRelation ==
  Model("user_unit_relations", Entity, {RelationType}, FALSE,
    {Ref("user_unit_relations", "user_id", "users", "CASCADE", FALSE),
     Ref("user_unit_relations", "unit_id", "units", "CASCADE", FALSE)},
    {"idx_uur_user", "idx_uur_unit"})

BillingRecord ==
  Model("billing_records", Entity, {BillingScope}, FALSE,
    {Ref("billing_records", "call_id", "call_logs", "RESTRICT", FALSE),
     Ref("billing_records", "community_id", "communities", "NO ACTION", FALSE),
     Ref("billing_records", "ledger_entry_id", "token_ledger", "NO ACTION", TRUE)},
    {"idx_billing_community"})

\* Base.metadata: "every model MUST be imported here".
Declared ==
  UNION {Announcement, AuditLog, BillingRecord, CallLog, Community, ConsentRecord,
         FriendMapping, PaymentOrder, ProcessedEvent, SipEndpoint, SyncEvent, SyncState,
         Task, TokenLedger, Unit, User, UserUnitRelation}
=============================================================================
