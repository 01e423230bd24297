-------------------------- MODULE CommunityVersion --------------------------
(***************************************************************************)
(* communities.current_version and the triggers trg_<table>_version of the *)
(* initial migration: every change of a row that edge nodes mirror bumps   *)
(* the version of the row's community, in the transaction of the change.   *)
(* Sessions run READ COMMITTED transactions of several statements; a       *)
(* statement locks its row, then its AFTER trigger updates, and so locks,  *)
(* the row of the community, both until the transaction ends.              *)
(***************************************************************************)
EXTENDS Naturals, FiniteSets

CONSTANTS
  Communities,
  Rows,            \* the ids rows may have, over all the tables
  Sessions,        \* the AsyncSessions open at once
  TableOf,         \* the table each row id belongs to
  MaxStatements,   \* bound of the model: statements of a transaction
  MaxVersion,      \* bound of the model: no statement once a version is there
  Clean,           \* what a transaction holds of a row it has not written
  Gone,            \* a row that has been deleted
  Nil              \* a row not inserted yet, no statement

\* for table in ("users", "units", "sip_endpoints", "friend_mappings")
Triggered == {"users", "units", "sip_endpoints", "friend_mappings"}

\* The tables of the schema that have a community_id column.
HasCommunity ==
  {"users", "units", "sip_endpoints", "announcements", "tasks", "call_logs",
   "audit_log", "sync_events", "sync_state", "token_ledger", "payment_orders",
   "billing_records"}

Row == [community : Communities, data : {0, 1}]
Stored == Row \cup {Nil, Gone}
Statement == [kind : {"insert", "update", "move", "delete"}, row : Rows, to : Communities]

ASSUME BoundAssumption == MaxStatements \in Nat /\ MaxVersion \in Nat

ASSUME NilAssumption ==
  /\ Nil \notin Row \cup Statement
  /\ Gone \notin Row \cup {Nil}
  /\ Clean \notin Stored \cup Nat

VARIABLES
  rows,      \* the committed rows
  version,   \* the committed current_version of each community
  session,   \* the transaction of each session
  \* History:
  changes    \* committed row changes, by the community they belong to

vars == <<rows, version, session, changes>>

(* A transaction: stmt is the statement it has submitted, row and bumped   *)
(* the row versions it has written and locked (Clean: none), done counts   *)
(* the statements and fired the changes of each community they made; moved *)
(* is history, the rows one of them took to another community.             *)
Session == [pc : {"idle", "open", "row", "trigger"},
            stmt : Statement \cup {Nil},
            row : [Rows -> Stored \cup {Clean}],
            bumped : [Communities -> Nat \cup {Clean}],
            fired : [Communities -> Nat],
            target : Communities \cup {Nil},
            moved : SUBSET Rows,
            done : 0..MaxStatements]

Idle == [pc |-> "idle", stmt |-> Nil,
         row |-> [x \in Rows |-> Clean],
         bumped |-> [c \in Communities |-> Clean],
         fired |-> [c \in Communities |-> 0],
         target |-> Nil, moved |-> {}, done |-> 0]

Init ==
  /\ rows = [x \in Rows |-> Nil]
  /\ version = [c \in Communities |-> 0]
  /\ session = [s \in Sessions |-> Idle]
  /\ changes = [c \in Communities |-> 0]

-----------------------------------------------------------------------------
(* Plausible bugs, one per property.                                       *)

FiresNotOnDelete(kind) == kind # "delete"
FiresNotOnInsert(kind) == kind # "insert"
CommunityFreeAlways(s, c) == TRUE
NextVersionDown(own, committed) == (IF own = Clean THEN committed ELSE own) - 1
DeadlockedNever(s) == FALSE

-----------------------------------------------------------------------------
Goto(s, t) == session' = [session EXCEPT ![s] = t]

Exists(stored) == stored \notin {Nil, Gone}

\* A row as the transaction sees it: its own version, or the committed one.
Seen(s, x) == IF session[s].row[x] = Clean THEN rows[x] ELSE session[s].row[x]

\* The session has written the row, or has submitted a statement for it.
Touches(s, x) ==
  \/ session[s].row[x] # Clean
  \/ session[s].stmt # Nil /\ session[s].stmt.row = x

\* What the statement makes of the row it finds.
Result(stmt, old) ==
  CASE stmt.kind = "insert" -> [community |-> stmt.to, data |-> 0]
    [] stmt.kind = "update" -> [old EXCEPT !.data = 1 - @]
    [] stmt.kind = "move" -> [old EXCEPT !.community = stmt.to]
    [] stmt.kind = "delete" -> Gone

\* COALESCE(NEW.community_id, OLD.community_id)
Owner(new, old) == IF Exists(new) THEN new.community ELSE old.community

\* AFTER INSERT OR UPDATE OR DELETE
Fires(kind) == kind \in {"insert", "update", "move", "delete"}

\* current_version + 1, of the transaction's own version or the committed one.
NextVersion(own, committed) == (IF own = Clean THEN committed ELSE own) + 1

RowFree(s, x) == \A o \in Sessions \ {s} : session[o].row[x] = Clean
CommunityFree(s, c) == \A o \in Sessions \ {s} : session[o].bumped[c] = Clean

WaitsFor(s, o) ==
  /\ o # s
  /\ \/ session[s].pc = "row" /\ session[o].row[session[s].stmt.row] # Clean
     \/ session[s].pc = "trigger" /\ session[o].bumped[session[s].target] # Clean

\* A cycle of the waits-for graph passes through s.
Deadlocked(s) ==
  \E S \in SUBSET Sessions :
    /\ s \in S
    /\ \A o \in S : /\ \E p \in S : WaitsFor(o, p)
                    /\ \E p \in S : WaitsFor(p, o)

-----------------------------------------------------------------------------
Begin(s) ==
  /\ session[s].pc = "idle"
  /\ Goto(s, [Idle EXCEPT !.pc = "open"])
  /\ UNCHANGED <<rows, version, changes>>

\* A flush sends a statement for a row the session has loaded, or a new one.
Submit(s, stmt) ==
  /\ session[s].pc = "open"
  /\ session[s].done < MaxStatements
  /\ \A c \in Communities : version[c] < MaxVersion
  /\ \/ /\ stmt.kind = "insert"
        /\ Seen(s, stmt.row) = Nil
        /\ \A o \in Sessions \ {s} : ~Touches(o, stmt.row)   \* uuid_generate_v4
     \/ /\ stmt.kind # "insert"          \* to only matters to a move
        /\ Exists(Seen(s, stmt.row))
        /\ IF stmt.kind = "move" THEN stmt.to # Seen(s, stmt.row).community
                                ELSE stmt.to = Seen(s, stmt.row).community
  /\ Goto(s, [session[s] EXCEPT !.pc = "row", !.stmt = stmt, !.done = @ + 1])
  /\ UNCHANGED <<rows, version, changes>>

\* The row lock is free: the statement runs on the row as it is now, and the
\* trigger starts.  An UPDATE that finds no row is a StaleDataError, a DELETE
\* only a warning; on a table without community_id the trigger raises.
Write(s) ==
  LET t == session[s]
      x == t.stmt.row
      old == Seen(s, x)
      new == Result(t.stmt, old)
      written == [t EXCEPT !.row[x] = new, !.stmt = Nil, !.pc = "open",
                           !.moved = IF t.stmt.kind = "move" THEN @ \cup {x} ELSE @]
  IN
  /\ t.pc = "row"
  /\ RowFree(s, x)
  /\ \/ /\ t.stmt.kind \in {"update", "move"} /\ ~Exists(old)
        /\ Goto(s, Idle)
     \/ /\ t.stmt.kind = "delete" /\ ~Exists(old)
        /\ Goto(s, [t EXCEPT !.stmt = Nil, !.pc = "open"])
     \/ /\ t.stmt.kind = "insert" \/ Exists(old)
        /\ IF TableOf[x] \notin Triggered \/ ~Fires(t.stmt.kind)
             THEN Goto(s, written)
           ELSE IF TableOf[x] \notin HasCommunity
             THEN Goto(s, Idle)
           ELSE Goto(s, [written EXCEPT !.pc = "trigger", !.target = Owner(new, old)])
  /\ UNCHANGED <<rows, version, changes>>

\* UPDATE communities SET current_version = current_version + 1 WHERE id = cid
Bump(s) ==
  LET t == session[s] c == session[s].target IN
  /\ t.pc = "trigger"
  /\ CommunityFree(s, c)
  /\ Goto(s, [t EXCEPT !.pc = "open", !.target = Nil,
                       !.bumped[c] = NextVersion(@, version[c]),
                       !.fired[c] = @ + 1])
  /\ UNCHANGED <<rows, version, changes>>

Commit(s) ==
  LET t == session[s] IN
  /\ t.pc = "open"
  /\ rows' = [x \in Rows |-> IF t.row[x] = Clean THEN rows[x] ELSE t.row[x]]
  /\ version' = [c \in Communities |->
                   IF t.bumped[c] = Clean THEN version[c] ELSE t.bumped[c]]
  /\ changes' = [c \in Communities |-> changes[c] + t.fired[c]]
  /\ Goto(s, Idle)

\* An exception in the handler, a lost connection, a stopped process.
Rollback(s) ==
  /\ session[s].pc # "idle"
  /\ Goto(s, Idle)
  /\ UNCHANGED <<rows, version, changes>>

\* PostgreSQL's deadlock detector aborts one transaction of the cycle.
AbortDeadlocked(s) ==
  /\ Deadlocked(s)
  /\ Goto(s, Idle)
  /\ UNCHANGED <<rows, version, changes>>

Next ==
  \E s \in Sessions :
    \/ Begin(s) \/ Write(s) \/ Bump(s) \/ Commit(s) \/ Rollback(s) \/ AbortDeadlocked(s)
    \/ \E stmt \in Statement : Submit(s, stmt)

Spec == Init /\ [][Next]_vars

\* Handlers end, the deadlock detector runs, and lock queues are first come,
\* first served.  Nothing is assumed of Rollback: a waiting handler has no
\* timeout of its own.
Fairness ==
  \A s \in Sessions :
    /\ WF_vars(Commit(s)) /\ WF_vars(AbortDeadlocked(s))
    /\ SF_vars(Write(s)) /\ SF_vars(Bump(s))

LiveSpec == Spec /\ Fairness

-----------------------------------------------------------------------------
(* Type invariant.                                                         *)
TypeOK ==
  /\ rows \in [Rows -> Stored]
  /\ version \in [Communities -> Nat]
  /\ session \in [Sessions -> Session]
  /\ changes \in [Communities -> Nat]

(* No bump is lost and none counts a change that was rolled back: the      *)
(* version of a community is the number of its committed row changes,      *)
(* however the transactions that made them overlapped or aborted.          *)
VersionCountsChanges == version = changes

RowsOf(c) == {x \in Rows : Exists(rows[x]) /\ rows[x].community = c}

(* "so the next /sync/delta picks up the change": a commit that changes    *)
(* what a community's edge node mirrors (a row added, altered or gone)     *)
(* also changes the version the edge node compares with its own.  The one  *)
(* exception is a row the transaction has moved: COALESCE(NEW..., OLD...)  *)
(* never names the community it left.                                      *)
SameVersionSameRows ==
  [][\A c \in Communities : version'[c] = version[c] =>
       \A x \in RowsOf(c) \cup RowsOf(c)' :
         \/ rows'[x] = rows[x]
         \/ x \notin RowsOf(c)' /\ \E s \in Sessions : x \in session[s].moved]_vars

(* A statement that waits for a row or for a community gets it, or its     *)
(* transaction is aborted: no two sessions hold each other up for good.    *)
WaitEnds ==
  \A s \in Sessions :
    session[s].pc \in {"row", "trigger"} ~> session[s].pc \in {"open", "idle"}

(* Where docs/04 has "every INSERT/UPDATE/DELETE on synced tables" bump the *)
(* version, no row of a table that has the trigger but not the column the  *)
(* trigger reads is ever stored: friend_mappings stays empty.              *)
NoFriendship ==
  \A x \in Rows : TableOf[x] \in Triggered \ HasCommunity => rows[x] = Nil
=============================================================================
