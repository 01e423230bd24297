------------------------------ MODULE SessionPool ------------------------------
(***************************************************************************)
(* The requests of one API process over its pool of PostgreSQL connections *)
(* (core/database.py) while the server restarts, connections drop and the  *)
(* process dies.  A session checks a connection out at its first           *)
(* statement, after the pre-ping, and keeps it, over the awaits of Redis   *)
(* too, until get_db commits or rolls back; then the request is answered   *)
(* (core/exceptions.py).  A session of AuthService is a request here       *)
(* without its data: what it awaits, the lock it takes, how it ends.       *)
(***************************************************************************)
EXTENDS RequestPaths

CONSTANTS
  Requests,    \* requests in flight at once; each may be used again
  Slots,       \* pool_size + max_overflow
  Communities, \* those whose users requests update
  Handled,     \* the paths requests take
  Orphan,      \* the lock of a transaction whose client is gone
  Nil

ASSUME HandledAssumption == Handled \subseteq Paths
ASSUME NilAssumption == Orphan \notin Requests /\ Nil \notin Requests \cup {Orphan}

VARIABLES
  up,        \* PostgreSQL accepts connections
  conn,      \* what each slot of the pool holds
  holder,    \* the request that has checked the slot out
  req,       \* where each request stands
  lock,      \* PostgreSQL: the transaction that has locked the row of a community
  \* History:
  durable,   \* requests whose UPDATE is committed
  hit        \* requests met by a fault or by an exhausted pool

vars == <<up, conn, holder, req, lock, durable, hit>>

Conn == {"none", "good", "stale"}
Phase == {"idle", "run", "commit", "fail", "reply"}

\* path: the way the handler takes, todo the awaits it has before it,
\* community that of the user it may update; raised: the exception on its way
\* out; answer: the status of the reply.
Request == [pc : Phase, path : Paths \cup {Nil},
            community : Communities \cup {Nil}, todo : Seq(Await),
            raised : Raised \cup {Nil}, answer : Statuses \cup {Nil}]

Idle == [pc |-> "idle", path |-> Nil, community |-> Nil, todo |-> <<>>,
         raised |-> Nil, answer |-> Nil]

Init ==
  /\ up = TRUE
  /\ conn = [k \in Slots |-> "none"]
  /\ holder = [k \in Slots |-> Nil]
  /\ req = [r \in Requests |-> Idle]
  /\ lock = [x \in Communities |-> Nil]
  /\ durable = {}
  /\ hit = {}

-------------------------------------------------------------------------------
(* Plausible bugs in the pool.                                             *)

\* No pool_pre_ping.
PingedNever(c) == IF c = "none" /\ up THEN "good" ELSE c

\* The slot of a broken connection is not given back.
ReturnGood(r) ==
  /\ holder' = [k \in Slots |-> IF holder[k] = r /\ conn[k] = "good" THEN Nil ELSE holder[k]]
  /\ UNCHANGED conn

-------------------------------------------------------------------------------
InFlight(r) == req[r].pc # "idle"
Held(r) == {k \in Slots : holder[k] = r}
Free == {k \in Slots : holder[k] = Nil}

\* The session has a connection that works, or one that is broken.
Connected(r) == \E k \in Held(r) : conn[k] = "good"
Broken(r) == \E k \in Held(r) : conn[k] # "good"

Ended(r) == req[r].todo = <<>>
Awaits(r, what) == req[r].pc = "run" /\ ~Ended(r) /\ Head(req[r].todo) = what
Queries(r) == Awaits(r, "select") \/ Awaits(r, "update")

\* Its handler changes a row.
Writes(r) == \E i \in DOMAIN req[r].path.awaits : req[r].path.awaits[i] = "update"

Goto(r, q) == req' = [req EXCEPT ![r] = q]
Forward(r) == Goto(r, [req[r] EXCEPT !.todo = Tail(@)])
Raise(r, exc) == Goto(r, [req[r] EXCEPT !.pc = "fail", !.todo = <<>>, !.raised = exc])
Answer(r, status) == Goto(r, [req[r] EXCEPT !.pc = "reply", !.raised = Nil, !.answer = status])

\* A slot's connection once pool_pre_ping has tried it: one that does not
\* answer, like one that is missing, is replaced if the server accepts.
Pinged(c) == IF c = "good" \/ up THEN "good" ELSE "none"

\* The session is closed: its connection goes back to the pool, unless it is
\* broken or one too many (overflow).
Return(r) ==
  /\ holder' = [k \in Slots |-> IF holder[k] = r THEN Nil ELSE holder[k]]
  /\ \E overflow \in BOOLEAN :
       conn' = [k \in Slots |->
                  IF holder[k] # r \/ (conn[k] = "good" /\ ~overflow) THEN conn[k]
                  ELSE "none"]

\* The end of the transaction releases its lock: at once, or when PostgreSQL
\* finds the connection gone.
Unlock(r) ==
  lock' = [x \in Communities |-> IF lock[x] # r THEN lock[x]
                          ELSE IF Connected(r) THEN Nil ELSE Orphan]

-------------------------------------------------------------------------------
(* Plausible bugs in what follows.                                         *)

\* get_db rolls back, and nobody closes the session.
RollBackUnclosed(r) ==
  /\ req[r].pc = "fail"
  /\ Unlock(r)
  /\ Answer(r, Status(req[r].raised))
  /\ UNCHANGED <<up, conn, holder, durable, hit>>

\* What the commit raises is swallowed.
LoseConnectionQuietly(r) ==
  /\ Broken(r)
  /\ \/ Queries(r) /\ Raise(r, "DBAPIError") /\ UNCHANGED <<conn, holder, lock>>
     \/ /\ req[r].pc = "commit"
        /\ Return(r) /\ Unlock(r)
        /\ Answer(r, Status(req[r].path.end))
  /\ UNCHANGED <<up, durable, hit>>

-------------------------------------------------------------------------------
(* A request                                                               *)

\* The dependencies are solved: a session that has no connection yet.
Arrive(r, path, community) ==
  /\ ~InFlight(r)
  /\ Goto(r, [Idle EXCEPT !.pc = "run", !.path = path, !.todo = path.awaits,
                          !.community = community])
  /\ hit' = IF up THEN hit ELSE hit \cup {r}
  /\ UNCHANGED <<up, conn, holder, lock, durable>>

RedisReplies(r) ==
  /\ Awaits(r, "redis")
  /\ Forward(r)
  /\ UNCHANGED <<up, conn, holder, lock, durable, hit>>

RedisFails(r) ==
  /\ Awaits(r, "redis")
  /\ Raise(r, "RedisError")
  /\ hit' = hit \cup {r}
  /\ UNCHANGED <<up, conn, holder, lock, durable>>

\* The first statement of the session: an idle connection, or a new one,
\* whichever the pool takes.
Checkout(r) ==
  /\ Queries(r) /\ Held(r) = {}
  /\ \E k \in Free :
       /\ conn' = [conn EXCEPT ![k] = Pinged(@)]
       /\ IF conn'[k] = "none"
            THEN Raise(r, "DBAPIError") /\ UNCHANGED holder
            ELSE holder' = [holder EXCEPT ![k] = r] /\ UNCHANGED req
  /\ UNCHANGED <<up, lock, durable, hit>>

\* pool_timeout: every slot is checked out.
CheckoutTimesOut(r) ==
  /\ Queries(r) /\ Held(r) = {}
  /\ Free = {}
  /\ Raise(r, "TimeoutError")
  /\ hit' = hit \cup {r}
  /\ UNCHANGED <<up, conn, holder, lock, durable>>

Select(r) ==
  /\ Awaits(r, "select") /\ Connected(r)
  /\ Forward(r)
  /\ UNCHANGED <<up, conn, holder, lock, durable, hit>>

\* session.flush.  The UPDATE locks the user's row, and the version trigger, in
\* the same statement, that of the community, which every writer of its users
\* needs: the last and the widest of the two locks stands for both.
Update(r) ==
  /\ Awaits(r, "update") /\ Connected(r)
  /\ lock[req[r].community] = Nil
  /\ lock' = [lock EXCEPT ![req[r].community] = r]
  /\ Forward(r)
  /\ UNCHANGED <<up, conn, holder, durable, hit>>

\* A statement, or the commit, finds the connection gone.
LoseConnection(r) ==
  /\ Queries(r) \/ req[r].pc = "commit"
  /\ Broken(r)
  /\ Raise(r, "DBAPIError")
  /\ UNCHANGED <<up, conn, holder, lock, durable, hit>>

\* The handler returns or raises; an exception goes to get_db's except.  For a
\* body that is refused no handler runs, and get_db goes on to its else.
Finish(r) ==
  /\ req[r].pc = "run" /\ Ended(r)
  /\ IF req[r].path.end \in Committed
       THEN Goto(r, [req[r] EXCEPT !.pc = "commit"])
       ELSE Raise(r, req[r].path.end)
  /\ UNCHANGED <<up, conn, holder, lock, durable, hit>>

\* session.commit, before the answer (a session without a connection has none
\* to commit).  What is committed is what the transaction holds locked.
Commit(r) ==
  /\ req[r].pc = "commit" /\ ~Broken(r)
  /\ durable' = IF \E x \in Communities : lock[x] = r THEN durable \cup {r} ELSE durable
  /\ Return(r) /\ Unlock(r)
  /\ Answer(r, Status(req[r].path.end))
  /\ UNCHANGED <<up, hit>>

\* session.rollback and close, then the answer of the exception's handler; a
\* rollback that finds the connection gone raises in its turn.
RollBack(r) ==
  /\ req[r].pc = "fail"
  /\ Return(r) /\ Unlock(r)
  /\ \/ Answer(r, Status(req[r].raised))
     \/ Broken(r) /\ Answer(r, Status("DBAPIError"))
  /\ UNCHANGED <<up, durable, hit>>

\* The response goes out; the next request starts afresh.
Reply(r) ==
  /\ req[r].pc = "reply"
  /\ Goto(r, Idle)
  /\ durable' = durable \ {r}
  /\ hit' = hit \ {r}
  /\ UNCHANGED <<up, conn, holder, lock>>

-------------------------------------------------------------------------------
(* Faults                                                                  *)

\* The connection breaks while the COMMIT is acknowledged.
CommitUnheard(r) ==
  /\ req[r].pc = "commit" /\ Connected(r)
  /\ durable' = IF \E x \in Communities : lock[x] = r THEN durable \cup {r} ELSE durable
  /\ conn' = [k \in Slots |-> IF holder[k] = r THEN "stale" ELSE conn[k]]
  /\ lock' = [x \in Communities |-> IF lock[x] = r THEN Nil ELSE lock[x]]
  /\ Raise(r, "DBAPIError")
  /\ hit' = hit \cup {r}
  /\ UNCHANGED <<up, holder>>

\* A network blip; PostgreSQL does not know of it yet.
Drop(k) ==
  /\ conn[k] = "good"
  /\ conn' = [conn EXCEPT ![k] = "stale"]
  /\ hit' = hit \cup ({holder[k]} \ {Nil})
  /\ UNCHANGED <<up, holder, req, lock, durable>>

\* PostgreSQL ends a transaction whose client is gone.
Reap(x) ==
  /\ lock[x] = Orphan \/ \E r \in Requests : lock[x] = r /\ ~Connected(r)
  /\ lock' = [lock EXCEPT ![x] = Nil]
  /\ UNCHANGED <<up, conn, holder, req, durable, hit>>

ServerDown ==
  /\ up
  /\ up' = FALSE
  /\ conn' = [k \in Slots |-> IF conn[k] = "good" THEN "stale" ELSE conn[k]]
  /\ lock' = [x \in Communities |-> Nil]
  /\ hit' = hit \cup {r \in Requests : InFlight(r)}
  /\ UNCHANGED <<holder, req, durable>>

ServerUp ==
  /\ ~up
  /\ up' = TRUE
  /\ UNCHANGED <<conn, holder, req, lock, durable, hit>>

\* The API process dies and is started again: nobody is answered.
ProcessDies ==
  /\ req' = [r \in Requests |-> Idle]
  /\ durable' = {}
  /\ hit' = {}
  /\ conn' = [k \in Slots |-> "none"]
  /\ holder' = [k \in Slots |-> Nil]
  /\ lock' = [x \in Communities |-> IF lock[x] \in Requests THEN Orphan ELSE lock[x]]
  /\ UNCHANGED up

-------------------------------------------------------------------------------
\* What a request does without waiting for another.
Proceed(r) ==
  \/ RedisReplies(r) \/ Select(r) \/ LoseConnection(r) \/ Finish(r)
  \/ Commit(r) \/ RollBack(r) \/ Reply(r)

Handle(r) == Proceed(r) \/ Checkout(r) \/ Update(r) \/ CheckoutTimesOut(r)

Fault ==
  \/ \E r \in Requests : RedisFails(r) \/ CommitUnheard(r)
  \/ \E k \in Slots : Drop(k)
  \/ ServerDown \/ ProcessDies

Next ==
  \/ \E r \in Requests :
       \/ Handle(r)
       \/ \E path \in Handled, community \in Communities : Arrive(r, path, community)
  \/ \E x \in Communities : Reap(x)
  \/ ServerUp
  \/ Fault

Spec == Init /\ [][Next]_vars

\* Redis replies (its client has no timeout that would end the wait), broken
\* connections are noticed, and the pool and PostgreSQL serve those who wait
\* in the order they came.  No fairness of CheckoutTimesOut: a request gets
\* its connection because others give theirs back.
Fairness ==
  /\ \A r \in Requests :
       WF_vars(Proceed(r)) /\ SF_vars(Checkout(r)) /\ SF_vars(Update(r))
  /\ \A x \in Communities : WF_vars(Reap(x))

LiveSpec == Spec /\ Fairness

-------------------------------------------------------------------------------
(* Type invariant.                                                         *)
TypeOK ==
  /\ up \in BOOLEAN
  /\ conn \in [Slots -> Conn]
  /\ holder \in [Slots -> Requests \cup {Nil}]
  /\ req \in [Requests -> Request]
  /\ lock \in [Communities -> Requests \cup {Orphan, Nil}]
  /\ durable \subseteq Requests
  /\ hit \subseteq Requests

(* get_db "commits on success, rolls back on any exception": a success is  *)
(* answered only for an UPDATE that is durable, and an error for a durable *)
(* one only if a fault met the request.                                    *)
AnswerIsTrue ==
  \A r \in Requests : req[r].pc = "reply" =>
    /\ req[r].answer \in Success /\ Writes(r) => r \in durable
    /\ r \in durable => req[r].answer \in Success \/ r \in hit

(* "pool_pre_ping guards against stale connections after DB restarts or    *)
(* network blips": a request that met no fault gets the answer of its own  *)
(* handler, whatever has happened to the pooled connections before it.     *)
FaultsStayBehind ==
  \A r \in Requests : req[r].pc = "reply" =>
    r \in hit \/ req[r].answer = Status(req[r].path.end)

(* "always closes the session": a slot is checked out by a request that    *)
(* has not been answered, one slot to each, and a community is locked      *)
(* by a transaction that is under way, or by one PostgreSQL has yet to     *)
(* find dead.                                                              *)
NothingLeaks ==
  /\ \A k \in Slots : holder[k] # Nil => req[holder[k]].pc \in {"run", "commit", "fail"}
  /\ \A j, k \in Slots : holder[j] = holder[k] /\ holder[j] # Nil => j = k
  /\ \A x \in Communities : lock[x] \in Requests => Held(lock[x]) # {} /\ Writes(lock[x])

(* Every request ends: the connections that requests keep while they await *)
(* Redis or a lock come back to those that wait for one, without help from *)
(* the pool's timeout.                                                     *)
RequestEnds == \A r \in Requests : InFlight(r) ~> ~InFlight(r)
===============================================================================
