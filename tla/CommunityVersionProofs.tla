----------------------- MODULE CommunityVersionProofs -----------------------
(***************************************************************************)
(* The version of a community is the number of its committed row changes,  *)
(* for any communities, rows, tables, sessions and bounds; and it tells    *)
(* one state of the rows from another, but for the rows that moved away.   *)
(*                                                                         *)
(* The argument for the first: a session that has bumped a community holds *)
(* the lock of its row, so it is the only one (SoleBumper), and what it    *)
(* holds is the committed version plus its own changes (AheadByFired); so  *)
(* the one commit that may happen adds exactly these.                      *)
(* Last, transactions of one statement take the row before the community   *)
(* (LocksInOrder), so they cannot deadlock.                                *)
(***************************************************************************)
EXTENDS CommunityVersion, TLAPS

\* A session that waits knows what for.
Ready ==
  \A s \in Sessions :
    /\ session[s].pc = "row" => session[s].stmt \in Statement
    /\ session[s].pc = "trigger" => session[s].target \in Communities

AheadByFired ==
  \A s \in Sessions, c \in Communities :
    IF session[s].bumped[c] = Clean
      THEN session[s].fired[c] = 0
      ELSE session[s].bumped[c] = version[c] + session[s].fired[c]

SoleBumper ==
  \A s, o \in Sessions, c \in Communities :
    s # o => session[s].bumped[c] = Clean \/ session[o].bumped[c] = Clean

TypeInv == TypeOK /\ Ready
VersionInv == TypeInv /\ AheadByFired /\ SoleBumper /\ VersionCountsChanges

-----------------------------------------------------------------------------
(* An idle session has its type and has touched nothing.                   *)
LEMMA IdleType == Idle \in Session
BY BoundAssumption DEF Idle, Session

(* A session that moves to t keeps every other as it was.                  *)
LEMMA GotoType ==
  ASSUME session \in [Sessions -> Session], Ready,
         NEW s \in Sessions, NEW t \in Session, Goto(s, t),
         t.pc = "row" => t.stmt \in Statement,
         t.pc = "trigger" => t.target \in Communities
  PROVE  /\ session' \in [Sessions -> Session]
         /\ Ready'
BY DEF Goto, Ready

(* What a transaction sees of a row is a row, stored or its own.           *)
LEMMA SeenType ==
  ASSUME TypeOK, NEW s \in Sessions, NEW x \in Rows
  PROVE  Seen(s, x) \in Stored
<1>1. session[s] \in Session /\ rows[x] \in Stored
  BY DEF TypeOK
<1>2. session[s].row[x] \in Stored \cup {Clean}
  BY <1>1 DEF Session
<1> QED
  BY <1>1, <1>2 DEF Seen

(* A statement makes a row of the row it finds, or removes it; the         *)
(* community whose version the trigger bumps is one of the two rows'.      *)
LEMMA ResultType ==
  ASSUME NEW stmt \in Statement, NEW old \in Stored,
         stmt.kind = "insert" \/ Exists(old)
  PROVE  /\ Result(stmt, old) \in Stored
         /\ Owner(Result(stmt, old), old) \in Communities
<1>1. /\ stmt.kind \in {"insert", "update", "move", "delete"}
      /\ stmt.to \in Communities
  BY DEF Statement
<1>2. Exists(old) => old \in Row
  BY DEF Exists, Stored
<1>3. Row \subseteq Stored /\ Gone \in Stored
  BY DEF Stored
<1>4. \A y \in Row : Exists(y)
  BY NilAssumption DEF Exists
<1>5. ~Exists(Gone)
  BY DEF Exists
<1>6. CASE stmt.kind = "insert"
  <2>1. Result(stmt, old) = [community |-> stmt.to, data |-> 0]
    BY <1>6 DEF Result
  <2>2. Result(stmt, old) \in Row /\ Result(stmt, old).community \in Communities
    BY <2>1, <1>1 DEF Row
  <2> QED BY <2>2, <1>3, <1>4 DEF Owner
<1>7. CASE stmt.kind = "update"
  <2>1. old \in Row
    BY <1>7, <1>2
  <2>2. Result(stmt, old) = [old EXCEPT !.data = 1 - @]
    BY <1>7 DEF Result
  <2>3. Result(stmt, old) \in Row /\ Result(stmt, old).community \in Communities
    BY <2>1, <2>2 DEF Row
  <2> QED BY <2>3, <1>3, <1>4 DEF Owner
<1>8. CASE stmt.kind = "move"
  <2>1. old \in Row
    BY <1>8, <1>2
  <2>2. Result(stmt, old) = [old EXCEPT !.community = stmt.to]
    BY <1>8 DEF Result
  <2>3. Result(stmt, old) \in Row /\ Result(stmt, old).community \in Communities
    BY <2>1, <2>2, <1>1 DEF Row
  <2> QED BY <2>3, <1>3, <1>4 DEF Owner
<1>9. CASE stmt.kind = "delete"
  <2>1. old \in Row /\ old.community \in Communities
    BY <1>9, <1>2 DEF Row
  <2>2. Result(stmt, old) = Gone
    BY <1>9 DEF Result
  <2> QED BY <2>1, <2>2, <1>3, <1>5 DEF Owner
<1> QED
  BY <1>1, <1>6, <1>7, <1>8, <1>9

-----------------------------------------------------------------------------
(* A step that leaves what a session has bumped and fired as it was, or    *)
(* lets the session start again, keeps the two facts about bumps.          *)
LEMMA GotoBumps ==
  ASSUME TypeOK, AheadByFired, SoleBumper,
         NEW s \in Sessions, NEW t \in Session, Goto(s, t),
         version' = version,
         \/ t.bumped = session[s].bumped /\ t.fired = session[s].fired
         \/ t.bumped = Idle.bumped /\ t.fired = Idle.fired
  PROVE  AheadByFired' /\ SoleBumper'
<1>1. session' = [session EXCEPT ![s] = t] /\ session \in [Sessions -> Session]
  BY DEF Goto, TypeOK
<1>2. \A c \in Communities : Idle.bumped[c] = Clean /\ Idle.fired[c] = 0
  BY DEF Idle
<1>3. \A c \in Communities :
        \/ t.bumped[c] = session[s].bumped[c] /\ t.fired[c] = session[s].fired[c]
        \/ t.bumped[c] = Clean /\ t.fired[c] = 0
  BY <1>2
<1>4. AheadByFired'
  BY <1>1, <1>3 DEF AheadByFired
<1>5. SoleBumper'
  BY <1>1, <1>3 DEF SoleBumper
<1> QED
  BY <1>4, <1>5

\* What the steps that only move a session share.
LEMMA Move ==
  ASSUME VersionInv, NEW s \in Sessions, NEW t \in Session, Goto(s, t),
         t.pc = "row" => t.stmt \in Statement,
         t.pc = "trigger" => t.target \in Communities,
         \/ t.bumped = session[s].bumped /\ t.fired = session[s].fired
         \/ t.bumped = Idle.bumped /\ t.fired = Idle.fired,
         rows' = rows, version' = version, changes' = changes
  PROVE  VersionInv'
<1>1. TypeOK /\ Ready /\ session \in [Sessions -> Session]
  BY DEF VersionInv, TypeInv, TypeOK
<1>2. session' \in [Sessions -> Session] /\ Ready'
  BY <1>1, GotoType
<1>3. TypeOK'
  BY <1>1, <1>2 DEF TypeOK
<1>4. AheadByFired' /\ SoleBumper'
  BY <1>1, GotoBumps DEF VersionInv
<1> QED
  BY <1>2, <1>3, <1>4 DEF VersionInv, TypeInv, VersionCountsChanges

-----------------------------------------------------------------------------
LEMMA InitInv == Init => VersionInv
<1> SUFFICES ASSUME Init PROVE VersionInv
  OBVIOUS
<1>1. \A s \in Sessions : session[s] = Idle
  BY DEF Init
<1>2. TypeOK
  BY IdleType DEF Init, TypeOK, Stored
<1>3. Ready
  BY <1>1 DEF Ready, Idle
<1>4. \A c \in Communities : Idle.bumped[c] = Clean /\ Idle.fired[c] = 0
  BY DEF Idle
<1>5. AheadByFired /\ SoleBumper
  BY <1>1, <1>4 DEF AheadByFired, SoleBumper
<1>6. VersionCountsChanges
  BY DEF Init, VersionCountsChanges
<1> QED
  BY <1>2, <1>3, <1>5, <1>6 DEF VersionInv, TypeInv

(* A statement that runs keeps its type, and has bumped nothing yet.       *)
LEMMA WriteInv ==
  ASSUME VersionInv, NEW s \in Sessions, Write(s)
  PROVE  VersionInv'
<1> DEFINE t == session[s]
           x == t.stmt.row
           old == Seen(s, x)
           new == Result(t.stmt, old)
           written == [t EXCEPT !.row[x] = new, !.stmt = Nil, !.pc = "open",
                                !.moved = IF t.stmt.kind = "move" THEN @ \cup {x} ELSE @]
<1>1. /\ TypeOK /\ Ready
      /\ t \in Session
      /\ t.pc = "row"
      /\ rows' = rows /\ version' = version /\ changes' = changes
  BY DEF VersionInv, TypeInv, TypeOK, Write
<1>2. t.stmt \in Statement /\ x \in Rows
  BY <1>1 DEF Ready, Session, Statement
<1>3. old \in Stored
  BY <1>1, <1>2, SeenType
<1>5. CASE Goto(s, Idle)
  <2>1. Idle.pc = "idle"
    BY DEF Idle
  <2> QED
    BY <1>1, <1>5, <2>1, IdleType, Move
<1>6. CASE Goto(s, [t EXCEPT !.stmt = Nil, !.pc = "open"])
  <2> DEFINE n == [t EXCEPT !.stmt = Nil, !.pc = "open"]
  <2>1. n \in Session /\ n.pc = "open" /\ n.bumped = t.bumped /\ n.fired = t.fired
    BY <1>1 DEF Session
  <2> QED
    BY <1>1, <1>6, <2>1, Move
<1>7. CASE /\ t.stmt.kind = "insert" \/ Exists(old)
           /\ \/ Goto(s, written)
              \/ Goto(s, [written EXCEPT !.pc = "trigger", !.target = Owner(new, old)])
  <2>1. new \in Stored /\ Owner(new, old) \in Communities
    BY <1>2, <1>3, <1>7, ResultType
  <2>2. /\ written \in Session /\ written.pc = "open"
        /\ written.bumped = t.bumped /\ written.fired = t.fired
    BY <1>1, <1>2, <2>1 DEF Session
  <2>3. CASE Goto(s, written)
    BY <1>1, <1>7, <2>2, <2>3, Move
  <2>4. CASE Goto(s, [written EXCEPT !.pc = "trigger", !.target = Owner(new, old)])
    <3> DEFINE n == [written EXCEPT !.pc = "trigger", !.target = Owner(new, old)]
    <3>1. /\ n \in Session /\ n.pc = "trigger" /\ n.target = Owner(new, old)
          /\ n.bumped = written.bumped /\ n.fired = written.fired
      BY <2>1, <2>2 DEF Session
    <3>2. n.target \in Communities
      BY <2>1, <3>1
    <3> QED
      BY <1>1, <1>7, <2>2, <2>4, <3>1, <3>2, Move
  <2> QED
    BY <1>7, <2>3, <2>4
<1> QED
  <2>1. \/ /\ t.stmt.kind \in {"update", "move"} /\ ~Exists(old)
           /\ Goto(s, Idle)
        \/ /\ t.stmt.kind = "delete" /\ ~Exists(old)
           /\ Goto(s, [t EXCEPT !.stmt = Nil, !.pc = "open"])
        \/ /\ t.stmt.kind = "insert" \/ Exists(old)
           /\ IF TableOf[x] \notin Triggered \/ ~Fires(t.stmt.kind)
                THEN Goto(s, written)
              ELSE IF TableOf[x] \notin HasCommunity
                THEN Goto(s, Idle)
              ELSE Goto(s, [written EXCEPT !.pc = "trigger", !.target = Owner(new, old)])
    BY DEF Write
  <2> HIDE DEF new, written, old, x, t
  <2> QED
    BY <1>5, <1>6, <1>7, <2>1

(* The trigger's UPDATE: the lock it waited for makes the session the only *)
(* bumper, on top of the committed version or of its own.                  *)
LEMMA BumpInv ==
  ASSUME VersionInv, NEW s \in Sessions, Bump(s)
  PROVE  VersionInv'
<1> DEFINE t == session[s]
           c == t.target
           n == [t EXCEPT !.pc = "open", !.target = Nil,
                          !.bumped[c] = NextVersion(@, version[c]),
                          !.fired[c] = @ + 1]
<1>1. /\ TypeOK /\ Ready /\ t \in Session /\ c \in Communities
      /\ CommunityFree(s, c)
      /\ session' = [session EXCEPT ![s] = n]
      /\ rows' = rows /\ version' = version
      /\ changes' = changes
  BY DEF VersionInv, TypeInv, TypeOK, Ready, Bump, Goto
<1>2. /\ version[c] \in Nat /\ t.fired[c] \in Nat
      /\ t.bumped[c] \in Nat \cup {Clean} /\ Clean \notin Nat
      /\ session \in [Sessions -> Session]
  BY <1>1, NilAssumption DEF TypeOK, Session
<1>3. NextVersion(t.bumped[c], version[c]) \in Nat
  BY <1>2 DEF NextVersion
<1>4. n \in Session /\ n.pc = "open"
  <2> DEFINE b == [t.bumped EXCEPT ![c] = NextVersion(t.bumped[c], version[c])]
             f == [t.fired EXCEPT ![c] = t.fired[c] + 1]
  <2>1. b \in [Communities -> Nat \cup {Clean}] /\ f \in [Communities -> Nat]
    BY <1>1, <1>2, <1>3 DEF Session
  <2>2. n = [t EXCEPT !.pc = "open", !.target = Nil, !.bumped = b, !.fired = f]
    OBVIOUS
  <2> HIDE DEF b, f, n
  <2> QED
    BY <1>1, <2>1, <2>2 DEF Session
<1>5. /\ n.bumped = [t.bumped EXCEPT ![c] = NextVersion(t.bumped[c], version[c])]
      /\ n.fired = [t.fired EXCEPT ![c] = t.fired[c] + 1]
      /\ t.bumped \in [Communities -> Nat \cup {Clean}]
      /\ t.fired \in [Communities -> Nat]
  BY <1>1 DEF Session
<1>6. session' \in [Sessions -> Session] /\ Ready'
  BY <1>1, <1>2, <1>4, GotoType DEF Goto
<1>7. TypeOK'
  BY <1>1, <1>6 DEF TypeOK
<1> HIDE DEF n
<1>8. NextVersion(t.bumped[c], version[c]) = version[c] + (t.fired[c] + 1)
  BY <1>1, <1>2 DEF VersionInv, AheadByFired, NextVersion
<1>9. AheadByFired'
  <2> SUFFICES ASSUME NEW o \in Sessions, NEW d \in Communities
               PROVE  IF session'[o].bumped[d] = Clean
                        THEN session'[o].fired[d] = 0
                        ELSE session'[o].bumped[d] = version[d] + session'[o].fired[d]
    BY <1>1 DEF AheadByFired
  <2>1. CASE o = s /\ d = c
    BY <1>1, <1>2, <1>3, <1>5, <1>8, <2>1
  <2>2. CASE o = s /\ d # c
    BY <1>1, <1>2, <1>5, <2>2 DEF VersionInv, AheadByFired
  <2>3. CASE o # s
    BY <1>1, <1>2, <2>3 DEF VersionInv, AheadByFired
  <2> QED
    BY <2>1, <2>2, <2>3
<1>10. SoleBumper'
  <2>1. \A d \in Communities : d # c => n.bumped[d] = t.bumped[d]
    BY <1>5
  <2> QED
    BY <1>1, <1>2, <2>1 DEF VersionInv, SoleBumper, CommunityFree
<1> QED
  BY <1>1, <1>6, <1>7, <1>9, <1>10 DEF VersionInv, TypeInv, VersionCountsChanges

(* A commit adds to each version what the session fired; the others have   *)
(* bumped none of the communities it did.                                  *)
LEMMA CommitInv ==
  ASSUME VersionInv, NEW s \in Sessions, Commit(s)
  PROVE  VersionInv'
<1> DEFINE t == session[s]
<1>1. /\ TypeOK /\ Ready /\ t \in Session
      /\ session \in [Sessions -> Session]
      /\ session' = [session EXCEPT ![s] = Idle]
      /\ rows' = [x \in Rows |-> IF t.row[x] = Clean THEN rows[x] ELSE t.row[x]]
      /\ version' = [c \in Communities |->
                       IF t.bumped[c] = Clean THEN version[c] ELSE t.bumped[c]]
      /\ changes' = [c \in Communities |-> changes[c] + t.fired[c]]
  BY DEF VersionInv, TypeInv, TypeOK, Commit, Goto
<1>2. /\ t.row \in [Rows -> Stored \cup {Clean}]
      /\ t.bumped \in [Communities -> Nat \cup {Clean}]
      /\ t.fired \in [Communities -> Nat]
      /\ version \in [Communities -> Nat]
      /\ changes \in [Communities -> Nat]
  BY <1>1 DEF TypeOK, Session
<1>3. session' \in [Sessions -> Session] /\ Ready'
  <2>1. Idle.pc = "idle"
    BY DEF Idle
  <2> QED
    BY <1>1, <2>1, IdleType, GotoType DEF Goto
<1>4. /\ rows' \in [Rows -> Stored]
      /\ version' \in [Communities -> Nat]
      /\ changes' \in [Communities -> Nat]
  <2>1. rows \in [Rows -> Stored]
    BY <1>1 DEF TypeOK
  <2> QED
    BY <1>1, <1>2, <2>1
<1>5. TypeOK'
  BY <1>1, <1>3, <1>4 DEF TypeOK
<1>6. \A c \in Communities : Idle.bumped[c] = Clean /\ Idle.fired[c] = 0
  BY DEF Idle
<1>7. \A c \in Communities : version'[c] = version[c] + t.fired[c]
  BY <1>1, <1>2 DEF VersionInv, AheadByFired
<1>8. VersionCountsChanges'
  BY <1>1, <1>2, <1>4, <1>7 DEF VersionInv, VersionCountsChanges
<1>9. AheadByFired'
  <2> SUFFICES ASSUME NEW o \in Sessions, NEW d \in Communities
               PROVE  IF session'[o].bumped[d] = Clean
                        THEN session'[o].fired[d] = 0
                        ELSE session'[o].bumped[d] = version'[d] + session'[o].fired[d]
    BY DEF AheadByFired
  <2>1. CASE o = s
    BY <1>1, <1>6, <2>1
  <2>2. CASE o # s
    <3>1. session'[o] = session[o]
      BY <1>1, <2>2
    <3>2. session[o].bumped[d] # Clean => t.bumped[d] = Clean
      BY <2>2 DEF VersionInv, SoleBumper
    <3>3. session[o].bumped[d] # Clean => version'[d] = version[d]
      BY <1>1, <3>2
    <3> QED
      BY <3>1, <3>3 DEF VersionInv, AheadByFired
  <2> QED
    BY <2>1, <2>2
<1>10. SoleBumper'
  BY <1>1, <1>6 DEF VersionInv, SoleBumper
<1> QED
  BY <1>3, <1>5, <1>8, <1>9, <1>10 DEF VersionInv, TypeInv

LEMMA StepInv == VersionInv /\ [Next]_vars => VersionInv'
<1> SUFFICES ASSUME VersionInv, [Next]_vars PROVE VersionInv'
  OBVIOUS
<1>1. TypeOK /\ Ready
  BY DEF VersionInv, TypeInv, TypeOK
<1>2. ASSUME NEW s \in Sessions, Begin(s) PROVE VersionInv'
  <2> DEFINE n == [Idle EXCEPT !.pc = "open"]
  <2>1. n \in Session /\ n.pc = "open" /\ n.bumped = Idle.bumped /\ n.fired = Idle.fired
    BY IdleType DEF Session
  <2>2. Goto(s, n) /\ UNCHANGED <<rows, version, changes>>
    BY <1>2 DEF Begin
  <2> HIDE DEF n
  <2> QED
    BY <1>1, <2>1, <2>2, Move
<1>3. ASSUME NEW s \in Sessions, NEW stmt \in Statement, Submit(s, stmt) PROVE VersionInv'
  <2> DEFINE n == [session[s] EXCEPT !.pc = "row", !.stmt = stmt, !.done = @ + 1]
  <2>1. session[s] \in Session /\ session[s].done < MaxStatements
    BY <1>1, <1>3 DEF TypeOK, Submit
  <2>2. session[s].done + 1 \in 0..MaxStatements
    BY <2>1, BoundAssumption DEF Session
  <2>3. /\ n \in Session /\ n.pc = "row" /\ n.stmt = stmt
        /\ n.bumped = session[s].bumped /\ n.fired = session[s].fired
    BY <2>1, <2>2 DEF Session
  <2>4. Goto(s, n) /\ UNCHANGED <<rows, version, changes>>
    BY <1>3 DEF Submit
  <2> HIDE DEF n
  <2> QED
    BY <1>1, <2>3, <2>4, Move
<1>4. ASSUME NEW s \in Sessions, Rollback(s) \/ AbortDeadlocked(s) PROVE VersionInv'
  <2>1. Goto(s, Idle) /\ UNCHANGED <<rows, version, changes>>
    BY <1>4 DEF Rollback, AbortDeadlocked
  <2>2. Idle.pc = "idle"
    BY DEF Idle
  <2> QED
    BY <1>1, <2>1, <2>2, IdleType, Move
<1>5. CASE UNCHANGED vars
  BY <1>5 DEF VersionInv, TypeInv, TypeOK, Ready, AheadByFired, SoleBumper,
              VersionCountsChanges, vars
<1> QED
  BY <1>2, <1>3, <1>4, <1>5, WriteInv, BumpInv, CommitInv DEF Next

-----------------------------------------------------------------------------
(* Every variable keeps its type: a statement that waits is one, and the   *)
(* trigger waits for a community (tg_bump_community_version).              *)
THEOREM VersionTypeCorrect == Spec => []TypeOK
<1>1. VersionInv => TypeOK
  BY DEF VersionInv, TypeInv
<1> QED
  BY <1>1, InitInv, StepInv, PTL DEF Spec

(* No bump is lost and none outlives a rollback: for any number of         *)
(* sessions, in every order of their statements, locks and commits, the    *)
(* version of a community counts its committed changes.                    *)
THEOREM NoBumpLost == Spec => []VersionCountsChanges
<1>1. VersionInv => VersionCountsChanges
  BY DEF VersionInv
<1> QED
  BY <1>1, InitInv, StepInv, PTL DEF Spec

-----------------------------------------------------------------------------
(* A table with the trigger and without the column the trigger reads.      *)

\* Nobody has stored a row of such a table, nor written one yet to commit.
Unwritten ==
  \A x \in Rows :
    TableOf[x] \in Triggered \ HasCommunity =>
      rows[x] = Nil /\ \A s \in Sessions : session[s].row[x] = Clean

LEMMA UnwrittenNext == TypeInv /\ Unwritten /\ [Next]_vars => Unwritten'
<1> SUFFICES ASSUME TypeInv, Unwritten, [Next]_vars PROVE Unwritten'
  OBVIOUS
<1>t. session \in [Sessions -> Session] /\ \A s \in Sessions : session[s] \in Session
  BY DEF TypeInv, TypeOK
\* A session that goes on without another row written.
<1>g. ASSUME NEW s \in Sessions, NEW t, Goto(s, t), rows' = rows,
             t.row = session[s].row \/ t.row = Idle.row
      PROVE  Unwritten'
  <2>1. \A x \in Rows : t.row[x] = session[s].row[x] \/ t.row[x] = Clean
    BY <1>g DEF Idle
  <2> QED
    BY <1>t, <1>g, <2>1 DEF Goto, Unwritten
<1>1. ASSUME NEW s \in Sessions, Begin(s) PROVE Unwritten'
  BY <1>1, <1>g DEF Begin, Idle
<1>2. ASSUME NEW s \in Sessions, NEW stmt \in Statement, Submit(s, stmt) PROVE Unwritten'
  <2> DEFINE n == [session[s] EXCEPT !.pc = "row", !.stmt = stmt, !.done = @ + 1]
  <2>1. n.row = session[s].row
    BY <1>t DEF Session
  <2>2. Goto(s, n) /\ rows' = rows
    BY <1>2 DEF Submit
  <2> HIDE DEF n
  <2> QED
    BY <1>g, <2>1, <2>2
<1>3. ASSUME NEW s \in Sessions, Write(s) PROVE Unwritten'
  <2> DEFINE t == session[s]
             x == t.stmt.row
             old == Seen(s, x)
             new == Result(t.stmt, old)
             written == [t EXCEPT !.row[x] = new, !.stmt = Nil, !.pc = "open",
                                  !.moved = IF t.stmt.kind = "move" THEN @ \cup {x} ELSE @]
             waiting == [written EXCEPT !.pc = "trigger", !.target = Owner(new, old)]
             rest == [t EXCEPT !.stmt = Nil, !.pc = "open"]
  <2>1. t.stmt \in Statement /\ x \in Rows /\ t \in Session /\ Fires(t.stmt.kind)
    BY <1>t, <1>3 DEF Write, TypeInv, Ready, Statement, Fires
  <2>2. /\ rest.row = t.row
        /\ written.row = [t.row EXCEPT ![x] = new] /\ waiting.row = written.row
        /\ t.row \in [Rows -> Stored \cup {Clean}]
    BY <2>1 DEF Session
  <2>3. /\ rows' = rows
        /\ \/ Goto(s, Idle) \/ Goto(s, rest)
           \/ /\ ~(TableOf[x] \in Triggered \ HasCommunity)
              /\ Goto(s, written) \/ Goto(s, waiting)
    BY <1>3, <2>1 DEF Write
  <2> HIDE DEF rest, written, waiting, new
  <2>4. CASE Goto(s, Idle) \/ Goto(s, rest)
    BY <1>g, <2>2, <2>3, <2>4
  <2>5. ASSUME NEW n, n.row = [t.row EXCEPT ![x] = new], Goto(s, n),
               ~(TableOf[x] \in Triggered \ HasCommunity)
        PROVE  Unwritten'
    <3>1. \A y \in Rows \ {x} : n.row[y] = t.row[y]
      BY <2>2, <2>5
    <3> QED
      BY <1>t, <2>3, <2>5, <3>1 DEF Goto, Unwritten
  <2> QED
    BY <2>2, <2>3, <2>4, <2>5
<1>4. ASSUME NEW s \in Sessions, Bump(s) PROVE Unwritten'
  <2> DEFINE c == session[s].target
             n == [session[s] EXCEPT !.pc = "open", !.target = Nil,
                                     !.bumped[c] = NextVersion(@, version[c]),
                                     !.fired[c] = @ + 1]
  <2>1. n.row = session[s].row
    BY <1>t DEF Session
  <2>2. Goto(s, n) /\ rows' = rows
    BY <1>4 DEF Bump
  <2> HIDE DEF n
  <2> QED
    BY <1>g, <2>1, <2>2
<1>5. ASSUME NEW s \in Sessions, Commit(s) PROVE Unwritten'
  BY <1>t, <1>5 DEF Commit, Goto, Idle, Unwritten
<1>6. ASSUME NEW s \in Sessions, Rollback(s) \/ AbortDeadlocked(s) PROVE Unwritten'
  BY <1>6, <1>g DEF Rollback, AbortDeadlocked
<1>7. CASE UNCHANGED vars
  BY <1>7 DEF vars, Unwritten
<1> QED
  BY <1>1, <1>2, <1>3, <1>4, <1>5, <1>6, <1>7 DEF Next

(* No friendship is ever stored: of a table with the trigger and without   *)
(* the column it reads, no row is, by any session or order of statements.  *)
THEOREM FriendshipsFail == Spec => []NoFriendship
<1>1. Init => Unwritten
  BY DEF Init, Idle, Unwritten
<1>2. VersionInv => TypeInv
  BY DEF VersionInv
<1>3. Unwritten => NoFriendship
  BY DEF Unwritten, NoFriendship
<1> QED
  BY <1>1, <1>2, <1>3, InitInv, StepInv, UnwrittenNext, PTL DEF Spec

-----------------------------------------------------------------------------
(* The rows behind a version.  A transaction that has written a row holds  *)
(* its lock (SoleWriter); the trigger has fired, or is about to, for every *)
(* community the row belonged to or belongs to now, except one it has been *)
(* moved away from (WritesFire).  An INSERT finds nothing under its new id *)
(* (FreshInsert).                                                          *)

Belongs(row, c) == Exists(row) /\ row.community = c

SoleWriter ==
  \A s, o \in Sessions, x \in Rows :
    s # o => session[s].row[x] = Clean \/ session[o].row[x] = Clean

WritesFire ==
  \A s \in Sessions, x \in Rows, c \in Communities :
    /\ session[s].row[x] # Clean
    /\ Belongs(rows[x], c) \/ Belongs(session[s].row[x], c)
    => \/ session[s].fired[c] > 0
       \/ session[s].pc = "trigger" /\ session[s].target = c
       \/ x \in session[s].moved /\ ~Belongs(session[s].row[x], c)

FreshInsert ==
  \A s \in Sessions :
    session[s].pc = "row" /\ session[s].stmt.kind = "insert" =>
      LET x == session[s].stmt.row IN
      /\ rows[x] = Nil
      /\ \A o \in Sessions :
           /\ session[o].row[x] = Clean
           /\ o # s => ~(session[o].pc = "row" /\ session[o].stmt.row = x)

WrittenOnce == \A s \in Sessions, x \in Rows : session[s].row[x] # Nil

RowInv == SoleWriter /\ WritesFire /\ FreshInsert /\ WrittenOnce

\* What the theorem assumes of the instance.
Synced == \A x \in Rows : TableOf[x] \in Triggered

LEMMA CleanApart == Clean # Nil /\ Clean # Gone /\ Clean \notin Row
BY NilAssumption DEF Stored

LEMMA IdleRows ==
  /\ Idle.pc = "idle"
  /\ \A x \in Rows : Idle.row[x] = Clean
BY DEF Idle

LEMMA InitRows == Init => RowInv
BY IdleRows, CleanApart DEF Init, RowInv, SoleWriter, WritesFire, FreshInsert, WrittenOnce

(* A step that sends no statement and writes no row.                       *)
LEMMA RestRows ==
  ASSUME VersionInv, RowInv, NEW s \in Sessions, NEW t \in Session,
         Goto(s, t), rows' = rows,
         t.pc \in {"idle", "open"},
         \/ t.row = Idle.row
         \/ /\ t.row = session[s].row /\ session[s].pc # "trigger"
            /\ t.fired = session[s].fired /\ t.moved = session[s].moved
  PROVE  RowInv'
<1>1. session' = [session EXCEPT ![s] = t] /\ session \in [Sessions -> Session]
  BY DEF Goto, VersionInv, TypeInv, TypeOK
<1>2. \A x \in Rows : t.row[x] = session[s].row[x] \/ t.row[x] = Clean
  BY IdleRows
<1>3. SoleWriter'
  BY <1>1, <1>2 DEF RowInv, SoleWriter
<1>4. WritesFire'
  <2>1. CASE t.row = Idle.row
    BY <1>1, <2>1, IdleRows DEF RowInv, WritesFire
  <2>2. CASE /\ t.row = session[s].row /\ session[s].pc # "trigger"
             /\ t.fired = session[s].fired /\ t.moved = session[s].moved
    BY <1>1, <2>2 DEF RowInv, WritesFire
  <2> QED
    BY <2>1, <2>2
<1>5. FreshInsert'
  <2> SUFFICES ASSUME NEW o \in Sessions,
                      session'[o].pc = "row", session'[o].stmt.kind = "insert",
                      NEW p \in Sessions
               PROVE  LET x == session'[o].stmt.row IN
                      /\ rows[x] = Nil
                      /\ session'[p].row[x] = Clean
                      /\ p # o => ~(session'[p].pc = "row" /\ session'[p].stmt.row = x)
    BY DEF FreshInsert
  <2>1. o # s /\ session'[o] = session[o]
    BY <1>1
  <2>2. session[o].stmt.row \in Rows
    BY <2>1 DEF VersionInv, TypeInv, Ready, Statement
  <2>3. CASE p = s
    BY <1>1, <1>2, <2>1, <2>2, <2>3 DEF RowInv, FreshInsert
  <2>4. CASE p # s
    BY <1>1, <2>1, <2>4 DEF RowInv, FreshInsert
  <2> QED
    BY <2>3, <2>4
<1>6. WrittenOnce'
  BY <1>1, <1>2, CleanApart DEF RowInv, WrittenOnce
<1> QED
  BY <1>3, <1>4, <1>5, <1>6 DEF RowInv

(* A new statement: an INSERT takes an id nobody has, and no statement for *)
(* an id that is being inserted finds a row.                               *)
LEMMA SubmitRows ==
  ASSUME VersionInv, RowInv,
         NEW s \in Sessions, NEW stmt \in Statement, Submit(s, stmt)
  PROVE  RowInv'
<1> DEFINE n == [session[s] EXCEPT !.pc = "row", !.stmt = stmt, !.done = @ + 1]
<1>1. /\ session \in [Sessions -> Session] /\ session[s] \in Session
      /\ session[s].pc = "open"
      /\ session' = [session EXCEPT ![s] = n] /\ rows' = rows
      /\ stmt.row \in Rows
  BY DEF VersionInv, TypeInv, TypeOK, Submit, Goto, Statement
<1>2. /\ n.pc = "row" /\ n.stmt = stmt /\ n.row = session[s].row
      /\ n.fired = session[s].fired /\ n.moved = session[s].moved
  BY <1>1 DEF Session
<1>3. \/ /\ stmt.kind = "insert" /\ Seen(s, stmt.row) = Nil
        /\ \A o \in Sessions \ {s} : ~Touches(o, stmt.row)
      \/ /\ stmt.kind # "insert" /\ Exists(Seen(s, stmt.row))
  BY DEF Submit
<1> HIDE DEF n
<1>4. SoleWriter'
  BY <1>1, <1>2 DEF RowInv, SoleWriter
<1>5. WritesFire'
  BY <1>1, <1>2 DEF RowInv, WritesFire
<1>6. WrittenOnce'
  BY <1>1, <1>2, <1>3 DEF RowInv, WrittenOnce
<1>7. FreshInsert'
  <2> SUFFICES ASSUME NEW o \in Sessions,
                      session'[o].pc = "row", session'[o].stmt.kind = "insert",
                      NEW p \in Sessions
               PROVE  LET x == session'[o].stmt.row IN
                      /\ rows[x] = Nil
                      /\ session'[p].row[x] = Clean
                      /\ p # o => ~(session'[p].pc = "row" /\ session'[p].stmt.row = x)
    BY <1>1 DEF FreshInsert
  <2>1. \A q \in Sessions : session[q].pc = "row" => session[q].stmt # Nil
    BY NilAssumption DEF VersionInv, TypeInv, Ready
  <2>2. CASE o = s
    <3>1. session'[o].stmt = stmt /\ stmt.kind = "insert"
      BY <1>1, <1>2, <2>2
    <3>2. session[s].row[stmt.row] = Clean /\ rows[stmt.row] = Nil
      BY <1>1, <1>3, <3>1 DEF Seen, RowInv, WrittenOnce
    <3>3. p # s => session[p].row[stmt.row] = Clean
                   /\ ~(session[p].pc = "row" /\ session[p].stmt.row = stmt.row)
      BY <1>3, <2>1, <3>1 DEF Touches
    <3> QED
      BY <1>1, <1>2, <2>2, <3>1, <3>2, <3>3
  <2>3. CASE o # s
    <3>1. session'[o] = session[o] /\ session[o].stmt.row \in Rows
      BY <1>1, <2>3 DEF VersionInv, TypeInv, Ready, Statement
    <3>2. rows[session[o].stmt.row] = Nil /\ session[p].row[session[o].stmt.row] = Clean
      BY <3>1 DEF RowInv, FreshInsert
    <3>3. CASE p # s
      BY <1>1, <2>3, <3>1, <3>2, <3>3 DEF RowInv, FreshInsert
    <3>4. CASE p = s
      <4>1. session[s].row[session[o].stmt.row] = Clean
        BY <3>2, <3>4
      <4>2. ASSUME stmt.row = session[o].stmt.row PROVE FALSE
        <5>1. Seen(s, stmt.row) = Nil
          BY <3>2, <4>1, <4>2 DEF Seen
        <5>2. Touches(o, stmt.row)
          BY <2>1, <3>1, <4>2 DEF Touches
        <5> QED
          BY <1>3, <2>3, <5>1, <5>2 DEF Exists
      <4> QED
        BY <1>1, <1>2, <3>1, <3>2, <3>4, <4>1, <4>2
    <3> QED
      BY <3>3, <3>4
  <2> QED
    BY <2>2, <2>3
<1> QED
  BY <1>4, <1>5, <1>6, <1>7 DEF RowInv

(* The trigger has fired where it was about to.                            *)
LEMMA BumpRows ==
  ASSUME VersionInv, RowInv, NEW s \in Sessions, Bump(s)
  PROVE  RowInv'
<1> DEFINE c == session[s].target
           n == [session[s] EXCEPT !.pc = "open", !.target = Nil,
                                   !.bumped[c] = NextVersion(@, version[c]),
                                   !.fired[c] = @ + 1]
<1>1. /\ session \in [Sessions -> Session] /\ session[s] \in Session
      /\ session[s].pc = "trigger" /\ c \in Communities
      /\ session' = [session EXCEPT ![s] = n] /\ rows' = rows
  BY DEF VersionInv, TypeInv, TypeOK, Ready, Bump, Goto
<1>2. /\ n.pc = "open" /\ n.row = session[s].row /\ n.moved = session[s].moved
      /\ n.fired = [session[s].fired EXCEPT ![c] = session[s].fired[c] + 1]
      /\ session[s].fired \in [Communities -> Nat]
  BY <1>1 DEF Session
<1> HIDE DEF n
<1>3. \A d \in Communities :
        session[s].fired[d] > 0 \/ d = c => n.fired[d] > 0
  BY <1>1, <1>2
<1>4. SoleWriter'
  BY <1>1, <1>2 DEF RowInv, SoleWriter
<1>5. WritesFire'
  BY <1>1, <1>2, <1>3 DEF RowInv, WritesFire
<1>6. WrittenOnce'
  BY <1>1, <1>2 DEF RowInv, WrittenOnce
<1>7. FreshInsert'
  BY <1>1, <1>2 DEF RowInv, FreshInsert
<1> QED
  BY <1>4, <1>5, <1>6, <1>7 DEF RowInv

(* A commit changes only rows that no other session has written.           *)
LEMMA CommitRows ==
  ASSUME VersionInv, RowInv, NEW s \in Sessions, Commit(s)
  PROVE  RowInv'
<1>1. /\ session \in [Sessions -> Session] /\ rows \in [Rows -> Stored]
      /\ session' = [session EXCEPT ![s] = Idle]
      /\ rows' = [x \in Rows |-> IF session[s].row[x] = Clean THEN rows[x]
                                  ELSE session[s].row[x]]
  BY DEF VersionInv, TypeInv, TypeOK, Commit, Goto
<1>2. \A o \in Sessions, x \in Rows :
        o # s /\ session[o].row[x] # Clean => rows'[x] = rows[x]
  BY <1>1 DEF RowInv, SoleWriter
<1>3. SoleWriter'
  BY <1>1, IdleRows DEF RowInv, SoleWriter
<1>4. WritesFire'
  BY <1>1, <1>2, IdleRows DEF RowInv, WritesFire
<1>5. WrittenOnce'
  BY <1>1, IdleRows, CleanApart DEF RowInv, WrittenOnce
<1>6. FreshInsert'
  <2> SUFFICES ASSUME NEW o \in Sessions,
                      session'[o].pc = "row", session'[o].stmt.kind = "insert",
                      NEW p \in Sessions
               PROVE  LET x == session'[o].stmt.row IN
                      /\ rows'[x] = Nil
                      /\ session'[p].row[x] = Clean
                      /\ p # o => ~(session'[p].pc = "row" /\ session'[p].stmt.row = x)
    BY DEF FreshInsert
  <2>1. o # s /\ session'[o] = session[o]
    BY <1>1, IdleRows
  <2>2. session[o].stmt.row \in Rows
    BY <2>1 DEF VersionInv, TypeInv, Ready, Statement
  <2>3. /\ rows[session[o].stmt.row] = Nil
        /\ session[s].row[session[o].stmt.row] = Clean
        /\ session[p].row[session[o].stmt.row] = Clean
    BY <2>1 DEF RowInv, FreshInsert
  <2>4. rows'[session[o].stmt.row] = Nil
    BY <1>1, <2>2, <2>3
  <2>5. CASE p = s
    BY <1>1, <2>1, <2>2, <2>3, <2>4, <2>5, IdleRows
  <2>6. CASE p # s
    BY <1>1, <2>1, <2>3, <2>4, <2>6 DEF RowInv, FreshInsert
  <2> QED
    BY <2>5, <2>6
<1> QED
  BY <1>3, <1>4, <1>5, <1>6 DEF RowInv

(* The trigger fires for the community the row belongs to after the        *)
(* statement, and before it unless the statement moves the row.            *)
LEMMA ResultOwner ==
  ASSUME NEW stmt \in Statement, NEW old \in Stored,
         stmt.kind = "insert" \/ Exists(old)
  PROVE  /\ Result(stmt, old) \in Row \cup {Gone}
         /\ \A c \in Communities :
              \/ Belongs(Result(stmt, old), c)
              \/ stmt.kind \notin {"insert", "move"} /\ Belongs(old, c)
              => c = Owner(Result(stmt, old), old)
<1> DEFINE new == Result(stmt, old)
<1>1. /\ stmt.kind \in {"insert", "update", "move", "delete"}
      /\ stmt.to \in Communities
  BY DEF Statement
<1>2. Exists(old) => old \in Row
  BY DEF Exists, Stored
<1>3. (\A y \in Row : Exists(y)) /\ ~Exists(Gone)
  BY NilAssumption DEF Exists
<1>4. CASE stmt.kind = "insert"
  <2>1. new = [community |-> stmt.to, data |-> 0]
    BY <1>4 DEF Result
  <2>2. new \in Row /\ Exists(new)
    BY <1>1, <1>3, <2>1 DEF Row
  <2> HIDE DEF new
  <2>3. Owner(new, old) = new.community
    BY <2>2 DEF Owner
  <2> QED
    BY <1>4, <2>2, <2>3 DEF Belongs, new
<1>5. CASE stmt.kind = "update"
  <2>1. old \in Row
    BY <1>2, <1>5
  <2>2. new = [old EXCEPT !.data = 1 - @]
    BY <1>5 DEF Result
  <2>3. new \in Row /\ Exists(new) /\ new.community = old.community
    BY <1>3, <2>1, <2>2 DEF Row
  <2> HIDE DEF new
  <2>4. Owner(new, old) = new.community
    BY <2>3 DEF Owner
  <2> QED
    BY <2>3, <2>4 DEF Belongs, new
<1>6. CASE stmt.kind = "delete"
  <2>1. new = Gone
    BY <1>6 DEF Result
  <2>2. Owner(new, old) = old.community
    BY <1>3, <2>1 DEF Owner
  <2> QED
    BY <1>3, <2>1, <2>2 DEF Belongs
<1>7. CASE stmt.kind = "move"
  <2>1. old \in Row
    BY <1>2, <1>7
  <2>2. new = [old EXCEPT !.community = stmt.to]
    BY <1>7 DEF Result
  <2>3. new \in Row /\ Exists(new)
    BY <1>1, <1>3, <2>1, <2>2 DEF Row
  <2> HIDE DEF new
  <2>4. Owner(new, old) = new.community
    BY <2>3 DEF Owner
  <2> QED
    BY <1>7, <2>3, <2>4 DEF Belongs, new
<1> QED
  BY <1>1, <1>4, <1>5, <1>6, <1>7

(* A statement that runs writes its row under a lock no one else holds,    *)
(* its trigger is about to fire for the community of the row, and a row    *)
(* that leaves another community is counted among the moved.               *)
LEMMA WriteRows ==
  ASSUME VersionInv, RowInv, Synced, NEW s \in Sessions, Write(s)
  PROVE  RowInv'
<1> DEFINE t == session[s]
           x == t.stmt.row
           old == Seen(s, x)
           new == Result(t.stmt, old)
           written == [t EXCEPT !.row[x] = new, !.stmt = Nil, !.pc = "open",
                                !.moved = IF t.stmt.kind = "move" THEN @ \cup {x} ELSE @]
           fires == [written EXCEPT !.pc = "trigger", !.target = Owner(new, old)]
<1>1. /\ TypeOK /\ session \in [Sessions -> Session] /\ rows \in [Rows -> Stored]
      /\ t \in Session /\ t.pc = "row" /\ t.stmt \in Statement /\ x \in Rows
      /\ RowFree(s, x) /\ rows' = rows
  BY DEF VersionInv, TypeInv, TypeOK, Ready, Write, Statement
<1>2. CASE Goto(s, Idle)
  BY <1>1, <1>2, IdleType, IdleRows, RestRows
<1>3. CASE Goto(s, [t EXCEPT !.stmt = Nil, !.pc = "open"])
  <2> DEFINE n == [t EXCEPT !.stmt = Nil, !.pc = "open"]
  <2>1. /\ n \in Session /\ n.pc = "open"
        /\ n.row = t.row /\ n.fired = t.fired /\ n.moved = t.moved
    BY <1>1 DEF Session
  <2> HIDE DEF n
  <2> QED
    BY <1>1, <1>3, <2>1, RestRows DEF n
<1>4. CASE (t.stmt.kind = "insert" \/ Exists(old)) /\ Goto(s, fires)
  <2>1. old \in Stored
    BY <1>1, SeenType
  <2>2. /\ new \in Row \cup {Gone}
        /\ \A c \in Communities :
             \/ Belongs(new, c)
             \/ t.stmt.kind \notin {"insert", "move"} /\ Belongs(old, c)
             => c = Owner(new, old)
    BY <1>1, <1>4, <2>1, ResultOwner
  <2>3. new # Nil /\ new # Clean
    BY <2>2, CleanApart, NilAssumption
  <2>4. /\ fires.pc = "trigger" /\ fires.target = Owner(new, old)
        /\ fires.row = [t.row EXCEPT ![x] = new] /\ fires.fired = t.fired
        /\ fires.moved = IF t.stmt.kind = "move" THEN t.moved \cup {x} ELSE t.moved
        /\ t.row \in [Rows -> Stored \cup {Clean}]
    BY <1>1 DEF Session
  <2>5. session' = [session EXCEPT ![s] = fires]
    BY <1>4 DEF Goto
  <2>6. t.stmt.kind = "insert" => rows[x] = Nil
    BY <1>1 DEF RowInv, FreshInsert
  <2>7. old = IF t.row[x] = Clean THEN rows[x] ELSE t.row[x]
    BY DEF Seen
  <2> HIDE DEF fires, new, old
  <2>8. SoleWriter'
    BY <1>1, <2>4, <2>5 DEF RowInv, SoleWriter, RowFree
  <2>9. WritesFire'
    <3> SUFFICES ASSUME NEW o \in Sessions, NEW y \in Rows, NEW c \in Communities,
                        session'[o].row[y] # Clean,
                        Belongs(rows[y], c) \/ Belongs(session'[o].row[y], c)
                 PROVE  \/ session'[o].fired[c] > 0
                        \/ session'[o].pc = "trigger" /\ session'[o].target = c
                        \/ y \in session'[o].moved /\ ~Belongs(session'[o].row[y], c)
      BY <1>1 DEF WritesFire
    <3>1. CASE o # s
      BY <1>1, <2>5, <3>1 DEF RowInv, WritesFire
    <3>2. CASE o = s /\ y # x
      BY <1>1, <2>4, <2>5, <3>2 DEF RowInv, WritesFire
    <3>3. CASE o = s /\ y = x
      <4>1. session'[o] = fires /\ fires.row[x] = new
        BY <1>1, <2>4, <2>5, <3>3
      <4>2. CASE Belongs(new, c)
        <5>1. c = Owner(new, old)
          BY <2>2, <4>2
        <5> QED
          BY <2>4, <4>1, <5>1
      <4>3. CASE Belongs(rows[x], c) /\ t.row[x] # Clean /\ ~Belongs(new, c)
        <5>1. t.fired[c] > 0 \/ x \in t.moved
          BY <1>1, <4>3 DEF RowInv, WritesFire
        <5>2. x \in t.moved => x \in fires.moved
          BY <2>4
        <5> QED
          BY <2>4, <3>3, <4>1, <4>3, <5>1, <5>2
      <4>4. CASE Belongs(rows[x], c) /\ t.row[x] = Clean /\ ~Belongs(new, c)
        <5>1. Belongs(old, c)
          BY <2>7, <4>4
        <5>2. t.stmt.kind # "insert"
          BY <2>6, <4>4 DEF Belongs, Exists
        <5>3. CASE t.stmt.kind = "move"
          BY <2>4, <3>3, <4>1, <4>4, <5>3
        <5>4. CASE t.stmt.kind # "move"
          BY <2>2, <2>4, <4>1, <5>1, <5>2, <5>4
        <5> QED
          BY <5>3, <5>4
      <4> QED
        BY <3>3, <4>1, <4>2, <4>3, <4>4
    <3> QED
      BY <3>1, <3>2, <3>3
  <2>10. WrittenOnce'
    BY <1>1, <2>3, <2>4, <2>5 DEF RowInv, WrittenOnce
  <2>11. FreshInsert'
    <3> SUFFICES ASSUME NEW o \in Sessions,
                        session'[o].pc = "row", session'[o].stmt.kind = "insert",
                        NEW p \in Sessions
                 PROVE  LET z == session'[o].stmt.row IN
                        /\ rows[z] = Nil
                        /\ session'[p].row[z] = Clean
                        /\ p # o => ~(session'[p].pc = "row" /\ session'[p].stmt.row = z)
      BY <1>1 DEF FreshInsert
    <3>1. o # s /\ session'[o] = session[o]
      BY <1>1, <2>4, <2>5
    <3>2. x # session[o].stmt.row /\ session[o].stmt.row \in Rows
      BY <1>1, <3>1 DEF RowInv, FreshInsert, VersionInv, TypeInv, Ready, Statement
    <3>3. CASE p = s
      <4>1. /\ rows[session[o].stmt.row] = Nil
            /\ t.row[session[o].stmt.row] = Clean
        BY <3>1 DEF RowInv, FreshInsert
      <4>2. session'[p] = fires
        BY <1>1, <2>5, <3>3
      <4>3. session'[p].row[session[o].stmt.row] = Clean
        BY <2>4, <3>2, <4>1, <4>2
      <4> QED
        BY <2>4, <3>1, <4>1, <4>2, <4>3
    <3>4. CASE p # s
      BY <1>1, <2>5, <3>1, <3>4 DEF RowInv, FreshInsert
    <3> QED
      BY <3>3, <3>4
  <2> QED
    BY <2>8, <2>9, <2>10, <2>11 DEF RowInv
<1>5. \/ Goto(s, Idle)
      \/ Goto(s, [t EXCEPT !.stmt = Nil, !.pc = "open"])
      \/ (t.stmt.kind = "insert" \/ Exists(old)) /\ Goto(s, fires)
  <2>1. TableOf[x] \in Triggered /\ Fires(t.stmt.kind)
    BY <1>1 DEF Synced, Fires, Statement
  <2> QED
    BY <2>1 DEF Write
<1> HIDE DEF fires, t, old
<1> QED
  BY <1>2, <1>3, <1>4, <1>5

LEMMA StepRows ==
  ASSUME Synced
  PROVE  VersionInv /\ RowInv /\ [Next]_vars => RowInv'
<1> SUFFICES ASSUME VersionInv, RowInv, [Next]_vars PROVE RowInv'
  OBVIOUS
<1>1. ASSUME NEW s \in Sessions, Begin(s) PROVE RowInv'
  <2> DEFINE n == [Idle EXCEPT !.pc = "open"]
  <2>1. n \in Session /\ n.pc = "open" /\ n.row = Idle.row
    BY IdleType DEF Session
  <2>2. Goto(s, n) /\ rows' = rows
    BY <1>1 DEF Begin
  <2> HIDE DEF n
  <2> QED
    BY <2>1, <2>2, RestRows
<1>2. ASSUME NEW s \in Sessions, Rollback(s) \/ AbortDeadlocked(s) PROVE RowInv'
  <2>1. Goto(s, Idle) /\ rows' = rows
    BY <1>2 DEF Rollback, AbortDeadlocked
  <2> QED
    BY <2>1, IdleType, IdleRows, RestRows
<1>3. CASE UNCHANGED vars
  BY <1>3 DEF RowInv, SoleWriter, WritesFire, FreshInsert, WrittenOnce, vars
<1> QED
  BY <1>1, <1>2, <1>3, SubmitRows, WriteRows, BumpRows, CommitRows DEF Next

(* A commit that leaves the version of a community as it was has written   *)
(* no row that belongs to it or belonged to it, unless it moved it away.   *)
LEMMA CommitContent ==
  ASSUME VersionInv, RowInv, NEW s \in Sessions, Commit(s),
         NEW c \in Communities, version'[c] = version[c],
         NEW x \in Rows, Belongs(rows[x], c) \/ Belongs(rows'[x], c)
  PROVE  rows'[x] = rows[x] \/ (~Belongs(rows'[x], c) /\ x \in session[s].moved)
<1> DEFINE t == session[s]
<1>1. /\ t \in Session /\ t.pc = "open"
      /\ rows \in [Rows -> Stored] /\ version \in [Communities -> Nat]
      /\ rows' = [y \in Rows |-> IF t.row[y] = Clean THEN rows[y] ELSE t.row[y]]
      /\ version' = [d \in Communities |->
                       IF t.bumped[d] = Clean THEN version[d] ELSE t.bumped[d]]
  BY DEF VersionInv, TypeInv, TypeOK, Commit
<1>2. t.fired[c] \in Nat
  BY <1>1 DEF Session
<1>3. t.fired[c] = 0
  BY <1>1, <1>2 DEF VersionInv, AheadByFired
<1>4. CASE t.row[x] = Clean
  BY <1>1, <1>4
<1>5. CASE t.row[x] # Clean
  <2>1. rows'[x] = t.row[x]
    BY <1>1, <1>5
  <2>2. x \in t.moved /\ ~Belongs(t.row[x], c)
    BY <1>1, <1>3, <1>5, <2>1 DEF RowInv, WritesFire
  <2> QED
    BY <2>1, <2>2
<1> QED
  BY <1>4, <1>5

(* While every table with rows has the trigger, equal versions mean equal  *)
(* rows: no commit changes what an edge node mirrors of a community behind *)
(* an unchanged current_version, however many transactions overlap         *)
(* (tg_bump_community_version), unless it moves the row away (see COALESCE *)
(* in Owner).  It is false of a table without the trigger, such as         *)
(* announcements.                                                          *)
THEOREM VersionTells ==
  ASSUME Synced
  PROVE  Spec => SameVersionSameRows
<1>1. Init => VersionInv /\ RowInv
  BY InitInv, InitRows
<1>2. VersionInv /\ RowInv /\ [Next]_vars => (VersionInv /\ RowInv)'
  BY StepInv, StepRows
<1>3. VersionInv /\ RowInv /\ [Next]_vars =>
        [\A c \in Communities : version'[c] = version[c] =>
           \A x \in RowsOf(c) \cup RowsOf(c)' :
             \/ rows'[x] = rows[x]
             \/ x \notin RowsOf(c)' /\ \E s \in Sessions : x \in session[s].moved]_vars
  <2> SUFFICES ASSUME VersionInv, RowInv, Next,
                      NEW c \in Communities, version'[c] = version[c],
                      NEW x \in RowsOf(c) \cup RowsOf(c)'
               PROVE  \/ rows'[x] = rows[x]
                      \/ x \notin RowsOf(c)' /\ \E s \in Sessions : x \in session[s].moved
    OBVIOUS
  <2>1. x \in Rows /\ (Belongs(rows[x], c) \/ Belongs(rows'[x], c))
    BY DEF RowsOf, Belongs
  <2>2. ASSUME NEW s \in Sessions, Commit(s)
        PROVE  \/ rows'[x] = rows[x]
               \/ x \notin RowsOf(c)' /\ \E o \in Sessions : x \in session[o].moved
    <3>1. rows'[x] = rows[x] \/ (~Belongs(rows'[x], c) /\ x \in session[s].moved)
      BY <2>1, <2>2, CommitContent
    <3> QED
      BY <3>1 DEF RowsOf, Belongs
  <2>3. CASE rows' = rows
    BY <2>3
  <2> QED
    BY <2>2, <2>3 DEF Next, Begin, Submit, Write, Bump, Rollback, AbortDeadlocked
<1> QED
  BY <1>1, <1>2, <1>3, PTL DEF Spec, SameVersionSameRows
-----------------------------------------------------------------------------
(* No deadlock without a second statement.                                 *)

\* A transaction of one statement locks its row when the statement runs and
\* its community when the trigger does, and after that waits for nothing.
LocksInOrder(t) ==
  /\ t.pc \in {"row", "trigger"} => t.done # 0
  /\ t.pc = "row" \/ t.done = 0 => \A x \in Rows : t.row[x] = Clean
  /\ t.pc \in {"row", "trigger"} \/ t.done = 0 => \A c \in Communities : t.bumped[c] = Clean

OneStatement == \A s \in Sessions : LocksInOrder(session[s])

LEMMA IdleOrder == LocksInOrder(Idle) /\ LocksInOrder([Idle EXCEPT !.pc = "open"])
BY DEF LocksInOrder, Idle

(* Each action leaves the session it moves in the order of its locks.      *)
LEMMA StepOrder ==
  ASSUME MaxStatements <= 1, VersionInv, OneStatement, [Next]_vars
  PROVE  OneStatement'
<1>1. TypeOK /\ Ready /\ session \in [Sessions -> Session]
  BY DEF VersionInv, TypeInv, TypeOK
<1>2. ASSUME NEW s \in Sessions, NEW t, Goto(s, t), LocksInOrder(t)
      PROVE  OneStatement'
  BY <1>1, <1>2 DEF Goto, OneStatement
<1>3. ASSUME NEW s \in Sessions, Begin(s) PROVE OneStatement'
  BY <1>2, <1>3, IdleOrder DEF Begin
<1>4. ASSUME NEW s \in Sessions, NEW stmt \in Statement, Submit(s, stmt)
      PROVE  OneStatement'
  <2> DEFINE n == [session[s] EXCEPT !.pc = "row", !.stmt = stmt, !.done = @ + 1]
  <2>1. /\ session[s] \in Session /\ Goto(s, n)
        /\ session[s].done < MaxStatements /\ session[s].done \in 0..MaxStatements
    BY <1>1, <1>4 DEF Submit, Session
  <2>2. session[s].done = 0
    BY <2>1, BoundAssumption
  <2>3. /\ n.pc = "row" /\ n.done = session[s].done + 1
        /\ n.row = session[s].row /\ n.bumped = session[s].bumped
    BY <2>1 DEF Session
  <2> HIDE DEF n
  <2>4. LocksInOrder(n)
    BY <2>2, <2>3 DEF OneStatement, LocksInOrder
  <2> QED
    BY <1>2, <2>1, <2>4
<1>5. ASSUME NEW s \in Sessions, Write(s) PROVE OneStatement'
  <2> DEFINE t == session[s]
             x == t.stmt.row
             old == Seen(s, x)
             new == Result(t.stmt, old)
             m == IF t.stmt.kind = "move" THEN t.moved \cup {x} ELSE t.moved
             skipped == [t EXCEPT !.stmt = Nil, !.pc = "open"]
             written == [t EXCEPT !.row[x] = new, !.stmt = Nil, !.pc = "open",
                                  !.moved = IF t.stmt.kind = "move" THEN @ \cup {x} ELSE @]
             fires == [written EXCEPT !.pc = "trigger", !.target = Owner(new, old)]
  <2>1. /\ t \in Session /\ t.pc = "row" /\ t.done # 0
        /\ \A y \in Rows : t.row[y] = Clean
        /\ \A c \in Communities : t.bumped[c] = Clean
    BY <1>1, <1>5 DEF Write, OneStatement, LocksInOrder
  <2>2. Goto(s, Idle) \/ Goto(s, skipped) \/ Goto(s, written) \/ Goto(s, fires)
    BY <1>5 DEF Write
  <2>3. skipped.pc = "open" /\ skipped.done = t.done
    BY <2>1 DEF Session
  <2>4. /\ written.pc = "open" /\ written.done = t.done /\ written.bumped = t.bumped
        /\ fires.pc = "trigger" /\ fires.done = t.done /\ fires.bumped = t.bumped
    BY <2>1 DEF Session
  <2> HIDE DEF t, x, old, new, skipped, written, fires
  <2>5. LocksInOrder(skipped) /\ LocksInOrder(written) /\ LocksInOrder(fires)
    BY <2>1, <2>3, <2>4 DEF LocksInOrder
  <2> QED
    BY <1>2, <2>2, <2>5, IdleOrder
<1>6. ASSUME NEW s \in Sessions, Bump(s) PROVE OneStatement'
  <2> DEFINE t == session[s]
             c == t.target
             n == [t EXCEPT !.pc = "open", !.target = Nil,
                            !.bumped[c] = NextVersion(@, version[c]),
                            !.fired[c] = @ + 1]
  <2>1. t \in Session /\ t.pc = "trigger" /\ t.done # 0 /\ Goto(s, n)
    BY <1>1, <1>6 DEF Bump, OneStatement, LocksInOrder
  <2>2. n.pc = "open" /\ n.done = t.done
    BY <2>1 DEF Session
  <2> HIDE DEF n
  <2>3. LocksInOrder(n)
    BY <2>1, <2>2 DEF LocksInOrder
  <2> QED
    BY <1>2, <2>1, <2>3
<1>7. ASSUME NEW s \in Sessions, Commit(s) \/ Rollback(s) \/ AbortDeadlocked(s)
      PROVE  OneStatement'
  BY <1>2, <1>7, IdleOrder DEF Commit, Rollback, AbortDeadlocked
<1>8. CASE UNCHANGED vars
  BY <1>8 DEF OneStatement, vars
<1> QED
  BY <1>3, <1>4, <1>5, <1>6, <1>7, <1>8 DEF Next

(* Whoever is waited for holds a row and waits for a community, or holds   *)
(* the community and waits for nothing: the waits-for graph has no cycle.  *)
LEMMA NoCycle ==
  ASSUME VersionInv, OneStatement, NEW s \in Sessions
  PROVE  ~Deadlocked(s)
<1> SUFFICES ASSUME NEW S \in SUBSET Sessions, s \in S,
                    \A o \in S : \E p \in S : WaitsFor(o, p)
             PROVE  FALSE
  BY DEF Deadlocked
<1>1. \A o \in Sessions : /\ session[o].pc = "row" => session[o].stmt.row \in Rows
                          /\ session[o].pc = "trigger" => session[o].target \in Communities
  BY DEF VersionInv, TypeInv, Ready, Statement
<1>2. ASSUME NEW o \in S, session[o].pc = "trigger" PROVE FALSE
  <2>1. PICK p \in S : session[p].bumped[session[o].target] # Clean
    BY <1>2 DEF WaitsFor
  <2>2. session[p].pc \notin {"row", "trigger"}
    BY <1>1, <1>2, <2>1 DEF OneStatement, LocksInOrder
  <2> QED
    BY <2>2 DEF WaitsFor
<1>3. ASSUME NEW o \in S, session[o].pc = "row" PROVE FALSE
  <2>1. PICK p \in S : session[p].row[session[o].stmt.row] # Clean
    BY <1>3 DEF WaitsFor
  <2>2. session[p].pc # "row"
    BY <1>1, <1>3, <2>1 DEF OneStatement, LocksInOrder
  <2>3. session[p].pc = "trigger"
    BY <2>2 DEF WaitsFor
  <2> QED
    BY <1>2, <2>3
<1> QED
  BY <1>2, <1>3 DEF WaitsFor

(* Transactions of one changed row, as those of the /auth handlers are     *)
(* (one UPDATE of users and its tg_bump_community_version), never wait for *)
(* each other in a circle, whichever rows and communities they lock and    *)
(* however many there are: the deadlock detector has nothing to abort.     *)
(* With two statements it has (AbortDeadlocked).                           *)
THEOREM OneStatementNeverDeadlocks ==
  ASSUME MaxStatements <= 1
  PROVE  Spec => [](\A s \in Sessions : ~Deadlocked(s))
<1>1. Init => VersionInv /\ OneStatement
  BY InitInv, IdleOrder DEF Init, OneStatement
<1>2. VersionInv /\ OneStatement /\ [Next]_vars => (VersionInv /\ OneStatement)'
  BY StepInv, StepOrder
<1>3. VersionInv /\ OneStatement => \A s \in Sessions : ~Deadlocked(s)
  BY NoCycle
<1> QED
  BY <1>1, <1>2, <1>3, PTL DEF Spec
=============================================================================
