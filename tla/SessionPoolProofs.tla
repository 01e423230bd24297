--------------------------- MODULE SessionPoolProofs ---------------------------
(***************************************************************************)
(* What a client is told is what was committed, a fault is felt only by    *)
(* the requests it meets, and no slot or lock is left behind: for any      *)
(* number of requests, slots and communities, over every path.             *)
(*                                                                         *)
(* The argument: a request that no fault has met has only good connections *)
(* and an error of its own at most (Healthy); and a handler that writes    *)
(* has its UPDATE before it, or its lock, or has lost the connection       *)
(* (Flushes), so a commit on a good connection makes the write durable.    *)
(* A handler queries nothing after its UPDATE (InOrder), so who holds a    *)
(* lock waits for neither a lock nor a slot.                               *)
(***************************************************************************)
EXTENDS SessionPool, TLAPS

\* What a request carries in each phase.
Shape ==
  \A r \in Requests :
    /\ InFlight(r) => req[r].path \in Paths
    /\ req[r].pc = "run" =>
         /\ req[r].community \in Communities
         /\ \A i \in DOMAIN req[r].todo :
              \E j \in DOMAIN req[r].path.awaits : req[r].path.awaits[j] = req[r].todo[i]
    /\ req[r].pc = "commit" => req[r].path.end \in Committed
    /\ req[r].pc = "fail" => req[r].raised \in Raised

Healthy ==
  \A r \in Requests : InFlight(r) /\ r \notin hit =>
    /\ up
    /\ \A k \in Slots : holder[k] = r => conn[k] = "good"
    /\ req[r].pc = "fail" => req[r].raised = req[r].path.end
    /\ req[r].pc = "reply" => req[r].answer = Status(req[r].path.end)

Flushes ==
  \A r \in Requests : req[r].pc \in {"run", "commit"} /\ Writes(r) =>
    \/ req[r].pc = "run" /\ \E i \in DOMAIN req[r].todo : req[r].todo[i] = "update"
    \/ \E x \in Communities : lock[x] = r
    \/ \E k \in Slots : holder[k] = r /\ conn[k] # "good"

Told ==
  \A r \in Requests :
    /\ req[r].pc = "reply" /\ req[r].answer \in Success /\ Writes(r) => r \in durable
    /\ r \in durable => \/ req[r].pc = "reply" /\ req[r].answer \in Success
                        \/ req[r].pc \in {"fail", "reply"} /\ r \in hit

TypeInv == TypeOK /\ Shape

-------------------------------------------------------------------------------
(* Each path awaits what the model knows and ends in what it can answer.   *)
LEMMA PathType ==
  ASSUME NEW p \in Paths
  PROVE  p.awaits \in Seq(Await) /\ p.end \in Raised \cup Returned
<1> DEFINE Typed(q) == q.awaits \in Seq(Await) /\ q.end \in Raised \cup Returned
<1>1. ASSUME NEW a \in Seq(Await), NEW e \in Raised \cup Returned
      PROVE  Typed(Path(a, e))
  BY DEF Path
<1>2. /\ <<>> \in Seq(Await)
      /\ <<"select">> \in Seq(Await) /\ <<"select", "redis">> \in Seq(Await)
      /\ <<"redis">> \in Seq(Await) /\ <<"redis", "redis">> \in Seq(Await)
      /\ <<"redis", "select">> \in Seq(Await)
      /\ <<"redis", "select", "redis">> \in Seq(Await)
      /\ <<"redis", "select", "update", "redis">> \in Seq(Await)
      /\ <<"redis", "select", "select">> \in Seq(Await)
  BY DEF Await
<1>3. /\ "OK" \in Raised \cup Returned /\ "NO_CONTENT" \in Raised \cup Returned
      /\ "AuthenticationError" \in Raised \cup Returned
      /\ "ValidationError" \in Raised \cup Returned
      /\ "RequestValidationError" \in Raised \cup Returned
      /\ "TypeError" \in Raised \cup Returned
      /\ "StaleDataError" \in Raised \cup Returned
  BY DEF Raised, DomainErrors, OtherErrors, Returned
<1> HIDE DEF Typed
<1>4. \A q \in Malformed : Typed(q)
  BY <1>1, <1>2, <1>3, Zenon DEF Malformed
<1>5. \A q \in SendPaths : Typed(q)
  BY <1>1, <1>2, <1>3, Zenon DEF SendPaths
<1>6. \A q \in VerifyPaths : Typed(q)
  <2>1. /\ Typed(Path(<<"redis">>, "AuthenticationError"))
        /\ Typed(Path(<<"redis">>, "TypeError"))
        /\ Typed(Path(<<"redis", "redis">>, "AuthenticationError"))
        /\ Typed(Path(<<"redis", "redis">>, "ValidationError"))
        /\ Typed(Path(<<"redis", "select", "redis">>, "AuthenticationError"))
        /\ Typed(Path(<<"redis", "select">>, "AuthenticationError"))
        /\ Typed(Path(<<"redis", "select", "redis">>, "OK"))
        /\ Typed(Path(<<"redis", "select", "update", "redis">>, "OK"))
        /\ Typed(Path(<<"redis", "select", "select">>, "StaleDataError"))
    BY <1>1, <1>2, <1>3, Zenon
  <2> QED
    BY <2>1, Zenon DEF VerifyPaths
<1>7. \A q \in RefreshPaths \cup LogoutPaths : Typed(q)
  BY <1>1, <1>2, <1>3, Zenon DEF RefreshPaths, LogoutPaths
<1>8. Typed(p)
  BY <1>4, <1>5, <1>6, <1>7 DEF Paths
<1> QED
  BY <1>8 DEF Typed

(* A request whose body is refused awaits nothing.                         *)
LEMMA RefusedBody ==
  ASSUME NEW p \in Paths, p.end = "RequestValidationError"
  PROVE  p.awaits = <<>>
<1> DEFINE Bare(q) == q.end = "RequestValidationError" => q.awaits = <<>>
<1>1. ASSUME NEW a, NEW e, e # "RequestValidationError" PROVE Bare(Path(a, e))
  BY <1>1 DEF Path
<1>2. Bare(Path(<<>>, "RequestValidationError"))
  BY DEF Path
<1>3. /\ "OK" # "RequestValidationError" /\ "NO_CONTENT" # "RequestValidationError"
      /\ "AuthenticationError" # "RequestValidationError"
      /\ "ValidationError" # "RequestValidationError"
      /\ "TypeError" # "RequestValidationError"
      /\ "StaleDataError" # "RequestValidationError"
  OBVIOUS
<1> HIDE DEF Bare
<1>4. \A q \in Malformed \cup SendPaths : Bare(q)
  BY <1>1, <1>2, <1>3, Zenon DEF Malformed, SendPaths
<1>5. \A q \in VerifyPaths : Bare(q)
  <2>1. ASSUME NEW a
        PROVE  /\ Bare(Path(a, "AuthenticationError")) /\ Bare(Path(a, "ValidationError"))
               /\ Bare(Path(a, "TypeError")) /\ Bare(Path(a, "StaleDataError"))
               /\ Bare(Path(a, "OK"))
    BY <1>1, <1>3, Zenon
  <2> QED
    BY <2>1, Zenon DEF VerifyPaths
<1>6. \A q \in RefreshPaths \cup LogoutPaths : Bare(q)
  BY <1>1, <1>3, Zenon DEF RefreshPaths, LogoutPaths
<1>7. Bare(p)
  BY <1>4, <1>5, <1>6, Zenon DEF Paths
<1> QED
  BY <1>7 DEF Bare

(* A response is answered as a success, an exception never.                *)
LEMMA StatusType ==
  /\ \A e \in Returned : Status(e) \in Success
  /\ \A e \in Raised : Status(e) \in Statuses \ Success
BY DEF Status, Returned, Raised, DomainErrors, OtherErrors, HttpStatus, Success, Statuses

(* Moving one request keeps the shape of the others.                       *)
LEMMA GotoType ==
  ASSUME TypeInv, NEW r \in Requests, NEW q \in Request, Goto(r, q),
         q.pc # "idle" => q.path \in Paths,
         q.pc = "run" =>
           /\ q.community \in Communities
           /\ \A i \in DOMAIN q.todo :
                \E j \in DOMAIN q.path.awaits : q.path.awaits[j] = q.todo[i],
         q.pc = "commit" => q.path.end \in Committed,
         q.pc = "fail" => q.raised \in Raised
  PROVE  /\ req' \in [Requests -> Request] /\ Shape'
         /\ req'[r] = q /\ \A s \in Requests \ {r} : req'[s] = req[s]
<1>1. req \in [Requests -> Request] /\ req' = [req EXCEPT ![r] = q]
  BY DEF TypeInv, TypeOK, Goto
<1> QED
  BY <1>1 DEF TypeInv, Shape, InFlight

(* An exception, an answer, and a step to the next await keep the shape,   *)
(* and say where the request goes.                                         *)
LEMMA RaiseType ==
  ASSUME TypeInv, NEW r \in Requests, InFlight(r), NEW exc \in Raised, Raise(r, exc)
  PROVE  /\ req' \in [Requests -> Request] /\ Shape'
         /\ req'[r].pc = "fail" /\ req'[r].raised = exc /\ req'[r].path = req[r].path
         /\ \A s \in Requests \ {r} : req'[s] = req[s]
<1> DEFINE none == <<>>
           q1 == [req[r] EXCEPT !.pc = "fail"]
           q2 == [q1 EXCEPT !.todo = none]
           q == [q2 EXCEPT !.raised = exc]
<1>1. req[r] \in Request /\ req[r].path \in Paths /\ Goto(r, q)
  BY DEF TypeInv, TypeOK, Shape, Raise
<1>2. q.pc = "fail" /\ q.raised = exc /\ q.path = req[r].path
  BY <1>1 DEF Request
<1>3. q \in Request
  <2>1. none \in Seq(Await)
    OBVIOUS
  <2> HIDE DEF none
  <2>2. q1 \in Request
    BY <1>1 DEF Request, Phase
  <2> HIDE DEF q1
  <2>3. q2 \in Request
    BY <2>1, <2>2 DEF Request
  <2> HIDE DEF q2
  <2> QED
    BY <2>3 DEF Request
<1> HIDE DEF q
<1> QED
  BY <1>1, <1>2, <1>3, GotoType

LEMMA AnswerType ==
  ASSUME TypeInv, NEW r \in Requests, InFlight(r),
         NEW status \in Statuses, Answer(r, status)
  PROVE  /\ req' \in [Requests -> Request] /\ Shape'
         /\ req'[r].pc = "reply" /\ req'[r].answer = status /\ req'[r].path = req[r].path
         /\ \A s \in Requests \ {r} : req'[s] = req[s]
<1> DEFINE q1 == [req[r] EXCEPT !.pc = "reply"]
           q2 == [q1 EXCEPT !.raised = Nil]
           q == [q2 EXCEPT !.answer = status]
<1>1. req[r] \in Request /\ req[r].path \in Paths /\ Goto(r, q)
  BY DEF TypeInv, TypeOK, Shape, Answer
<1>2. q.pc = "reply" /\ q.answer = status /\ q.path = req[r].path
  BY <1>1 DEF Request
<1>3. q \in Request
  <2>1. q1 \in Request
    BY <1>1 DEF Request, Phase
  <2> HIDE DEF q1
  <2>2. q2 \in Request
    BY <2>1 DEF Request
  <2> HIDE DEF q2
  <2> QED
    BY <2>2 DEF Request
<1> HIDE DEF q
<1> QED
  BY <1>1, <1>2, <1>3, GotoType

LEMMA ForwardType ==
  ASSUME TypeInv, NEW r \in Requests, req[r].pc = "run", ~Ended(r), Forward(r)
  PROVE  /\ req' \in [Requests -> Request] /\ Shape'
         /\ req'[r].pc = "run" /\ req'[r].path = req[r].path /\ req'[r].community = req[r].community
         /\ \A s \in Requests \ {r} : req'[s] = req[s]
         /\ \A i \in DOMAIN req[r].todo :
              req[r].todo[i] # Head(req[r].todo) =>
                \E j \in DOMAIN req'[r].todo : req'[r].todo[j] = req[r].todo[i]
<1> DEFINE q == [req[r] EXCEPT !.todo = Tail(@)]
<1>1. req[r] \in Request /\ req[r].path \in Paths /\ req[r].community \in Communities /\ Goto(r, q)
  BY DEF TypeInv, TypeOK, Shape, Forward, InFlight
<1>2. req[r].todo \in Seq(Await) /\ req[r].todo # <<>>
  BY <1>1 DEF Request, Ended
<1>3. /\ Tail(req[r].todo) \in Seq(Await)
      /\ \A i \in DOMAIN Tail(req[r].todo) :
           i + 1 \in DOMAIN req[r].todo /\ Tail(req[r].todo)[i] = req[r].todo[i + 1]
  BY <1>2
<1>4. /\ q \in Request /\ q.pc = "run" /\ q.path = req[r].path /\ q.community = req[r].community
      /\ q.todo = Tail(req[r].todo)
  BY <1>1, <1>3 DEF Request
<1>5. \A i \in DOMAIN req[r].todo :
        \E j \in DOMAIN req[r].path.awaits : req[r].path.awaits[j] = req[r].todo[i]
  BY DEF TypeInv, Shape
<1> HIDE DEF q
<1>6. /\ req' \in [Requests -> Request] /\ Shape'
      /\ req'[r] = q /\ \A s \in Requests \ {r} : req'[s] = req[s]
  <2>1. \A i \in DOMAIN q.todo :
          \E j \in DOMAIN q.path.awaits : q.path.awaits[j] = q.todo[i]
    BY <1>3, <1>4, <1>5
  <2>2. Goto(r, q)
    BY <1>1
  <2> QED
    BY <1>1, <1>4, <2>1, <2>2, GotoType
<1>7. ASSUME NEW i \in DOMAIN req[r].todo, req[r].todo[i] # Head(req[r].todo)
      PROVE  \E j \in DOMAIN req'[r].todo : req'[r].todo[j] = req[r].todo[i]
  <2>1. /\ i - 1 \in DOMAIN Tail(req[r].todo)
        /\ Tail(req[r].todo)[i - 1] = req[r].todo[i]
    <3>1. /\ i \in 1..Len(req[r].todo) /\ Len(req[r].todo) \in Nat
          /\ Head(req[r].todo) = req[r].todo[1]
      BY <1>2
    <3>2. i - 1 \in 1..(Len(req[r].todo) - 1) /\ (i - 1) + 1 = i
      BY <3>1, <1>7
    <3> QED
      BY <1>2, <3>1, <3>2
  <2> QED
    BY <2>1, <1>4, <1>6
<1> QED
  BY <1>4, <1>6, <1>7

(* A request starts with every await of its path before it.               *)
LEMMA ArriveType ==
  ASSUME TypeInv, NEW r \in Requests, NEW path \in Paths, NEW community \in Communities,
         Goto(r, [Idle EXCEPT !.pc = "run", !.path = path, !.todo = path.awaits,
                              !.community = community])
  PROVE  /\ req' \in [Requests -> Request] /\ Shape'
         /\ req'[r].pc = "run" /\ req'[r].path = path /\ req'[r].todo = path.awaits
         /\ \A s \in Requests \ {r} : req'[s] = req[s]
<1> DEFINE q == [Idle EXCEPT !.pc = "run", !.path = path, !.todo = path.awaits,
                              !.community = community]
<1>1. path.awaits \in Seq(Await)
  BY PathType
<1>2. /\ q \in Request /\ q.pc = "run" /\ q.path = path /\ q.community = community
      /\ q.todo = path.awaits
  BY <1>1 DEF Idle, Request, Phase
<1> HIDE DEF q
<1>3. Goto(r, q)
  BY DEF q
<1> QED
  BY <1>2, <1>3, GotoType

(* An idle request has its shape.                                          *)
LEMMA IdleType == Idle \in Request /\ Idle.pc = "idle"
<1>1. <<>> \in Seq(Await)
  OBVIOUS
<1> QED
  BY <1>1 DEF Idle, Request, Phase

(* A handler that returns, or a body that is refused, goes on to the       *)
(* commit.                                                                 *)
LEMMA CommitType ==
  ASSUME TypeInv, NEW r \in Requests, InFlight(r), req[r].path.end \in Committed,
         Goto(r, [req[r] EXCEPT !.pc = "commit"])
  PROVE  /\ req' \in [Requests -> Request] /\ Shape'
         /\ req'[r].pc = "commit" /\ req'[r].path = req[r].path
         /\ \A s \in Requests \ {r} : req'[s] = req[s]
<1> DEFINE q == [req[r] EXCEPT !.pc = "commit"]
<1>1. req[r] \in Request /\ req[r].path \in Paths
  BY DEF TypeInv, TypeOK, Shape
<1>2. q \in Request /\ q.pc = "commit" /\ q.path = req[r].path
  BY <1>1 DEF Request, Phase
<1> HIDE DEF q
<1>3. Goto(r, q)
  BY DEF q
<1> QED
  BY <1>1, <1>2, <1>3, GotoType

(* Giving a connection back keeps the types of the pool and of the locks;  *)
(* the request holds no slot and no lock, and the others what they held.   *)
LEMMA ReturnType ==
  ASSUME TypeOK, NEW r \in Requests, Return(r), Unlock(r)
  PROVE  /\ conn' \in [Slots -> Conn]
         /\ holder' \in [Slots -> Requests \cup {Nil}]
         /\ lock' \in [Communities -> Requests \cup {Orphan, Nil}]
         /\ \A k \in Slots :
              /\ holder'[k] # r
              /\ holder[k] # r => holder'[k] = holder[k] /\ conn'[k] = conn[k]
              /\ holder'[k] # Nil => holder'[k] = holder[k]
         /\ \A x \in Communities :
              /\ lock'[x] # r
              /\ lock[x] # r => lock'[x] = lock[x]
              /\ lock'[x] \in Requests => lock'[x] = lock[x]
BY NilAssumption DEF TypeOK, Return, Unlock, Conn

-------------------------------------------------------------------------------
(* The inductive invariant.                                                *)
IInv == TypeInv /\ NothingLeaks /\ Healthy /\ Flushes /\ Told

LEMMA InitInv == Init => IInv
<1> SUFFICES ASSUME Init PROVE IInv
  OBVIOUS
<1>1. TypeInv
  BY IdleType DEF Init, TypeInv, TypeOK, Shape, InFlight, Conn
<1>2. NothingLeaks
  BY NilAssumption DEF Init, NothingLeaks
<1>3. \A r \in Requests : req[r].pc = "idle"
  BY IdleType DEF Init
<1>4. Healthy /\ Flushes
  BY <1>3 DEF Healthy, Flushes, InFlight
<1>5. Told
  BY <1>3 DEF Init, Told
<1> QED
  BY <1>1, <1>2, <1>4, <1>5 DEF IInv

\* A request holds a slot, said without the set.
LEMMA HeldSlot ==
  /\ \A r : Held(r) # {} <=> \E k \in Slots : holder[k] = r
  /\ (\A r : Held(r) # {} <=> \E k \in Slots : holder[k] = r)'
BY DEF Held

(* A step of a handler that takes no slot and no lock: it goes on with its *)
(* UPDATE before it or its lock held, or fails with its own exception      *)
(* unless a fault has met it.                                              *)
LEMMA MoveInv ==
  ASSUME IInv, NEW r \in Requests, req[r].pc \in {"run", "commit"},
         req' \in [Requests -> Request], Shape',
         \A s \in Requests \ {r} : req'[s] = req[s],
         req'[r].pc \in {"run", "commit", "fail"}, req'[r].path = req[r].path,
         req'[r].pc = "fail" => r \in hit' \/ req'[r].raised = req[r].path.end,
         req'[r].pc \in {"run", "commit"} /\ Writes(r) =>
           \/ req'[r].pc = "run" /\ \E i \in DOMAIN req'[r].todo : req'[r].todo[i] = "update"
           \/ \E x \in Communities : lock[x] = r
           \/ \E k \in Slots : holder[k] = r /\ conn[k] # "good",
         conn' \in [Slots -> Conn],
         \A k \in Slots : holder[k] # Nil => conn'[k] = conn[k],
         hit' \in {hit, hit \cup {r}},
         UNCHANGED <<up, holder, lock, durable>>
  PROVE  IInv'
<1>1. \A s \in Requests : req'[s].path = req[s].path /\ s # Nil
  BY NilAssumption
<1>2. TypeInv'
  BY DEF IInv, TypeInv, TypeOK
<1>3. NothingLeaks'
  <2>1. \A s \in Requests : Writes(s)' <=> Writes(s)
    BY <1>1 DEF Writes
  <2>2. \A k \in Slots : holder[k] # Nil => holder[k] \in Requests
    BY DEF IInv, TypeInv, TypeOK
  <2> QED
    BY <2>1, <2>2, HeldSlot DEF IInv, NothingLeaks
<1>4. Healthy'
  BY <1>1 DEF IInv, Healthy, InFlight
<1>5. Flushes'
  <2>1. \A s \in Requests : Writes(s)' <=> Writes(s)
    BY <1>1 DEF Writes
  <2> QED
    BY <1>1, <2>1 DEF IInv, Flushes
<1>6. Told'
  <2>1. \A s \in Requests : Writes(s)' <=> Writes(s)
    BY <1>1 DEF Writes
  <2> QED
    BY <2>1 DEF IInv, Told
<1> QED
  BY <1>2, <1>3, <1>4, <1>5, <1>6 DEF IInv

(* The end of a request: its slot and its lock are given back, and it is   *)
(* answered for what was committed.                                        *)
LEMMA CloseInv ==
  ASSUME IInv, NEW r \in Requests, req[r].pc \in {"commit", "fail"},
         Return(r), Unlock(r), NEW status \in Statuses, Answer(r, status),
         r \in hit \/ status = Status(req[r].path.end),
         status \in Success /\ Writes(r) => r \in durable',
         r \in durable' => status \in Success \/ r \in hit,
         durable' \in {durable, durable \cup {r}},
         UNCHANGED <<up, hit>>
  PROVE  IInv'
<1>1. /\ req' \in [Requests -> Request] /\ Shape'
      /\ req'[r].pc = "reply" /\ req'[r].answer = status /\ req'[r].path = req[r].path
      /\ \A s \in Requests \ {r} : req'[s] = req[s]
  BY AnswerType DEF IInv, InFlight
<1>2. /\ conn' \in [Slots -> Conn]
      /\ holder' \in [Slots -> Requests \cup {Nil}]
      /\ lock' \in [Communities -> Requests \cup {Orphan, Nil}]
      /\ \A k \in Slots :
           /\ holder'[k] # r
           /\ holder[k] # r => holder'[k] = holder[k] /\ conn'[k] = conn[k]
           /\ holder'[k] # Nil => holder'[k] = holder[k]
      /\ \A x \in Communities :
           /\ lock'[x] # r
           /\ lock[x] # r => lock'[x] = lock[x]
           /\ lock'[x] \in Requests => lock'[x] = lock[x]
  BY ReturnType DEF IInv, TypeInv
<1>3. \A s \in Requests : req'[s].path = req[s].path /\ s # Nil
  BY <1>1, NilAssumption
<1>4. \A s \in Requests : Writes(s)' <=> Writes(s)
  BY <1>3 DEF Writes
<1>5. TypeInv'
  BY <1>1, <1>2 DEF IInv, TypeInv, TypeOK
<1>6. NothingLeaks'
  <2>1. \A k \in Slots : holder'[k] # Nil => holder'[k] \in Requests /\ holder'[k] # r
    BY <1>2
  <2>2. \A k \in Slots : holder'[k] # Nil => req'[holder'[k]].pc \in {"run", "commit", "fail"}
    BY <1>1, <1>2, <2>1 DEF IInv, NothingLeaks
  <2>3. \A j, k \in Slots : holder'[j] = holder'[k] /\ holder'[j] # Nil => j = k
    BY <1>2 DEF IInv, NothingLeaks
  <2>4. ASSUME NEW x \in Communities, lock'[x] \in Requests
        PROVE  (Held(lock[x]) # {} /\ Writes(lock[x]))'
    <3>1. lock'[x] = lock[x] /\ lock[x] \in Requests \ {r}
      BY <1>2, <2>4
    <3>2. Held(lock[x]) # {} /\ Writes(lock[x])
      BY <3>1 DEF IInv, NothingLeaks
    <3>3. PICK k \in Slots : holder[k] = lock[x]
      BY <3>2, HeldSlot
    <3>4. holder'[k] = lock'[x]
      BY <1>2, <3>1, <3>3
    <3> QED
      BY <1>4, <3>1, <3>2, <3>4, HeldSlot
  <2> QED
    BY <2>2, <2>3, <2>4 DEF NothingLeaks
<1>7. Healthy'
  BY <1>1, <1>2, <1>3 DEF IInv, Healthy, InFlight
<1>8. Flushes'
  BY <1>1, <1>2, <1>4 DEF IInv, Flushes
<1>9. Told'
  BY <1>1, <1>4 DEF IInv, Told
<1> QED
  BY <1>5, <1>6, <1>7, <1>8, <1>9 DEF IInv

-------------------------------------------------------------------------------
(* Every action keeps the invariant.  First the steps of a handler.        *)
LEMMA RunInv ==
  ASSUME IInv, NEW r \in Requests,
         \/ RedisReplies(r) \/ RedisFails(r) \/ Select(r) \/ CheckoutTimesOut(r)
         \/ LoseConnection(r) \/ Finish(r)
  PROVE  IInv'
<1>1. TypeInv /\ conn \in [Slots -> Conn]
  BY DEF IInv, TypeInv, TypeOK
<1>2. ASSUME Awaits(r, "redis") \/ Awaits(r, "select"), Forward(r), hit' = hit,
             UNCHANGED <<up, conn, holder, lock, durable>>
      PROVE  IInv'
  <2>1. req[r].pc = "run" /\ ~Ended(r) /\ Head(req[r].todo) # "update"
    BY <1>2 DEF Awaits
  <2>2. /\ req' \in [Requests -> Request] /\ Shape'
        /\ req'[r].pc = "run" /\ req'[r].path = req[r].path
        /\ \A s \in Requests \ {r} : req'[s] = req[s]
        /\ \A i \in DOMAIN req[r].todo :
             req[r].todo[i] # Head(req[r].todo) =>
               \E j \in DOMAIN req'[r].todo : req'[r].todo[j] = req[r].todo[i]
    BY <1>1, <1>2, <2>1, ForwardType
  <2>3. Writes(r) =>
          \/ \E i \in DOMAIN req'[r].todo : req'[r].todo[i] = "update"
          \/ \E x \in Communities : lock[x] = r
          \/ \E k \in Slots : holder[k] = r /\ conn[k] # "good"
    BY <2>1, <2>2 DEF IInv, Flushes
  <2> QED
    BY <1>1, <1>2, <2>1, <2>2, <2>3, MoveInv
<1>3. ASSUME NEW exc \in Raised, Raise(r, exc), req[r].pc \in {"run", "commit"},
             hit' \in {hit, hit \cup {r}}, r \in hit' \/ exc = req[r].path.end,
             UNCHANGED <<up, conn, holder, lock, durable>>
      PROVE  IInv'
  <2>1. /\ req' \in [Requests -> Request] /\ Shape'
        /\ req'[r].pc = "fail" /\ req'[r].raised = exc /\ req'[r].path = req[r].path
        /\ \A s \in Requests \ {r} : req'[s] = req[s]
    BY <1>1, <1>3, RaiseType DEF InFlight
  <2> QED
    BY <1>1, <1>3, <2>1, MoveInv
<1>4. \A exc \in OtherErrors : exc \in Raised
  BY DEF Raised
<1>5. Queries(r) => req[r].pc = "run"
  BY DEF Queries, Awaits
<1>6. CASE RedisReplies(r)
  BY <1>2, <1>6 DEF RedisReplies
<1>7. CASE RedisFails(r)
  BY <1>3, <1>4, <1>7 DEF RedisFails, Awaits, OtherErrors
<1>8. CASE Select(r)
  BY <1>2, <1>8 DEF Select
<1>9. CASE CheckoutTimesOut(r)
  BY <1>3, <1>4, <1>5, <1>9 DEF CheckoutTimesOut, OtherErrors
<1>10. CASE LoseConnection(r)
  <2>1. r \in hit
    BY <1>5, <1>10 DEF IInv, Healthy, LoseConnection, Broken, Held, InFlight
  <2> QED
    BY <1>3, <1>4, <1>5, <1>10, <2>1 DEF LoseConnection, OtherErrors
<1>11. CASE Finish(r)
  <2>1. req[r].pc = "run" /\ req[r].todo = <<>> /\ req[r].path \in Paths /\ hit' = hit
        /\ UNCHANGED <<up, conn, holder, lock, durable>>
    BY <1>11 DEF Finish, Ended, IInv, TypeInv, Shape, InFlight
  <2>2. CASE req[r].path.end \in Committed
    <3>1. Goto(r, [req[r] EXCEPT !.pc = "commit"])
      BY <1>11, <2>2 DEF Finish
    <3>2. /\ req' \in [Requests -> Request] /\ Shape'
          /\ req'[r].pc = "commit" /\ req'[r].path = req[r].path
          /\ \A s \in Requests \ {r} : req'[s] = req[s]
      BY <1>1, <2>1, <2>2, <3>1, CommitType DEF InFlight
    <3>3. Writes(r) =>
            \/ \E x \in Communities : lock[x] = r
            \/ \E k \in Slots : holder[k] = r /\ conn[k] # "good"
      BY <2>1 DEF IInv, Flushes
    <3> QED
      BY <1>1, <2>1, <3>2, <3>3, MoveInv
  <2>3. CASE req[r].path.end \notin Committed
    <3>1. req[r].path.end \in Raised
      BY <2>1, <2>3, PathType DEF Committed
    <3>2. Raise(r, req[r].path.end)
      BY <1>11, <2>3 DEF Finish
    <3> QED
      BY <1>3, <2>1, <3>1, <3>2
  <2> QED
    BY <2>2, <2>3
<1> QED
  BY <1>6, <1>7, <1>8, <1>9, <1>10, <1>11

LEMMA CommitInv ==
  ASSUME IInv, NEW r \in Requests, Commit(r)
  PROVE  IInv'
<1>1. /\ req[r].pc = "commit" /\ req[r].path.end \in Committed /\ req[r].path \in Paths
  BY DEF IInv, TypeInv, Shape, Commit, InFlight
<1>2. Writes(r) => \E x \in Communities : lock[x] = r
  BY DEF IInv, Flushes, Commit, Broken, Held
<1>3. CASE req[r].path.end \in Returned
  <2>1. Status(req[r].path.end) \in Success /\ Success \subseteq Statuses
    BY <1>3, StatusType DEF Statuses
  <2> QED
    BY <1>1, <1>2, <2>1, CloseInv DEF Commit
<1>4. CASE req[r].path.end = "RequestValidationError"
  <2>1. Status(req[r].path.end) \in Statuses
    BY <1>4, StatusType DEF Raised
  <2>2. ~Writes(r)
    <3>1. req[r].path.awaits = <<>>
      BY <1>1, <1>4, RefusedBody
    <3> QED
      BY <3>1 DEF Writes
  <2>3. r \notin durable'
    <3>1. ~ \E x \in Communities : lock[x] = r
      BY <2>2 DEF IInv, NothingLeaks
    <3>2. r \notin durable
      BY <1>1 DEF IInv, Told
    <3> QED
      BY <3>1, <3>2 DEF Commit
  <2> QED
    BY <1>1, <2>1, <2>2, <2>3, CloseInv DEF Commit
<1> QED
  BY <1>1, <1>3, <1>4 DEF Committed

LEMMA RollBackInv ==
  ASSUME IInv, NEW r \in Requests, RollBack(r)
  PROVE  IInv'
<1>1. req[r].pc = "fail" /\ Return(r) /\ Unlock(r) /\ durable' = durable
      /\ UNCHANGED <<up, hit>>
  BY DEF RollBack
<1>2. r \in durable' => r \in hit
  BY <1>1 DEF IInv, Told
<1>3. PICK exc \in Raised :
        Answer(r, Status(exc)) /\ (exc = req[r].raised \/ Broken(r))
  BY <1>1 DEF IInv, TypeInv, Shape, RollBack, Raised, OtherErrors
<1>4. r \in hit \/ exc = req[r].path.end
  BY <1>1, <1>3 DEF IInv, Healthy, Broken, Held, InFlight
<1>5. Status(exc) \in Statuses \ Success
  BY <1>3, StatusType
<1> HIDE DEF RollBack
<1> QED
  BY <1>1, <1>2, <1>3, <1>4, <1>5, CloseInv

(* A new request holds nothing and has its UPDATE before it.               *)
LEMMA ArriveInv ==
  ASSUME IInv, NEW r \in Requests, NEW path \in Paths, NEW community \in Communities,
         Arrive(r, path, community)
  PROVE  IInv'
<1>1. /\ req' \in [Requests -> Request] /\ Shape'
      /\ req'[r].pc = "run" /\ req'[r].path = path /\ req'[r].todo = path.awaits
      /\ \A s \in Requests \ {r} : req'[s] = req[s]
  BY ArriveType DEF IInv, Arrive
<1>2. /\ req[r].pc = "idle" /\ r # Nil
      /\ UNCHANGED <<up, conn, holder, lock, durable>>
      /\ hit' = IF up THEN hit ELSE hit \cup {r}
  BY NilAssumption DEF Arrive, InFlight
<1>3. \A s \in Requests \ {r} : Writes(s)' <=> Writes(s)
  BY <1>1 DEF Writes
<1>4. TypeInv'
  BY <1>1, <1>2 DEF IInv, TypeInv, TypeOK
<1>5. \A k \in Slots : holder[k] # r
  BY <1>2 DEF IInv, NothingLeaks
<1>6. NothingLeaks'
  <2>1. \A k \in Slots : holder[k] # Nil => holder[k] \in Requests
    BY DEF IInv, TypeInv, TypeOK
  <2>2. \A x \in Communities : lock[x] # r
    BY <1>5, HeldSlot DEF IInv, NothingLeaks
  <2> QED
    BY <1>1, <1>2, <1>3, <1>5, <2>1, <2>2, HeldSlot DEF IInv, NothingLeaks
<1>7. Healthy'
  BY <1>1, <1>2, <1>5 DEF IInv, Healthy, InFlight
<1>8. Flushes'
  <2>1. Writes(r)' => \E i \in DOMAIN req'[r].todo : req'[r].todo[i] = "update"
    BY <1>1 DEF Writes
  <2> QED
    BY <1>1, <1>2, <1>3, <2>1 DEF IInv, Flushes
<1>9. Told'
  <2>1. r \notin durable
    BY <1>2 DEF IInv, Told
  <2> QED
    BY <1>1, <1>2, <1>3, <2>1 DEF IInv, Told
<1> QED
  BY <1>4, <1>6, <1>7, <1>8, <1>9 DEF IInv

(* The pre-ping hands out a connection that works, or none.                *)
LEMMA CheckoutInv ==
  ASSUME IInv, NEW r \in Requests, Checkout(r)
  PROVE  IInv'
<1>1. /\ req[r].pc = "run" /\ Held(r) = {} /\ r # Nil
      /\ UNCHANGED <<up, lock, durable, hit>>
  BY NilAssumption DEF Checkout, Queries, Awaits
<1>2. PICK k \in Free :
        /\ conn' = [conn EXCEPT ![k] = Pinged(@)]
        /\ IF conn'[k] = "none"
             THEN Raise(r, "DBAPIError") /\ UNCHANGED holder
             ELSE holder' = [holder EXCEPT ![k] = r] /\ UNCHANGED req
  BY DEF Checkout
<1>3. k \in Slots /\ holder[k] = Nil
  BY <1>2 DEF Free
<1>4. /\ conn \in [Slots -> Conn] /\ holder \in [Slots -> Requests \cup {Nil}]
      /\ TypeInv
  BY DEF IInv, TypeInv, TypeOK
<1>5. /\ conn' \in [Slots -> Conn]
      /\ conn'[k] = Pinged(conn[k])
      /\ \A j \in Slots \ {k} : conn'[j] = conn[j]
  BY <1>2, <1>3, <1>4 DEF Conn, Pinged
<1>6. CASE conn'[k] = "none"
  <2>1. ~up
    BY <1>5, <1>6 DEF Pinged
  <2>2. r \in hit
    BY <1>1, <2>1 DEF IInv, Healthy, InFlight
  <2>3. "DBAPIError" \in Raised
    BY DEF Raised, OtherErrors
  <2>4. /\ req' \in [Requests -> Request] /\ Shape'
        /\ req'[r].pc = "fail" /\ req'[r].path = req[r].path
        /\ \A s \in Requests \ {r} : req'[s] = req[s]
    BY <1>1, <1>2, <1>4, <1>6, <2>3, RaiseType DEF InFlight
  <2> QED
    BY <1>1, <1>2, <1>3, <1>5, <1>6, <2>2, <2>4, MoveInv
<1>7. CASE conn'[k] # "none"
  <2>1. /\ conn'[k] = "good"
        /\ holder' = [holder EXCEPT ![k] = r] /\ UNCHANGED req
    BY <1>2, <1>5, <1>7 DEF Pinged
  <2>2. TypeInv'
    BY <1>1, <1>3, <1>4, <1>5, <2>1 DEF TypeInv, TypeOK, Shape, InFlight
  <2>3. \A s \in Requests : Writes(s)' <=> Writes(s)
    BY <2>1 DEF Writes
  <2>4. \A j \in Slots : holder[j] # r
    BY <1>1 DEF Held
  <2>5. /\ holder'[k] = r
        /\ \A j \in Slots \ {k} : holder'[j] = holder[j]
    BY <1>3, <1>4, <2>1
  <2>6. NothingLeaks'
    <3>1. \A j \in Slots : holder'[j] # Nil => req[holder'[j]].pc \in {"run", "commit", "fail"}
      BY <1>1, <2>5 DEF IInv, NothingLeaks
    <3>2. \A i, j \in Slots : holder'[i] = holder'[j] /\ holder'[i] # Nil => i = j
      BY <2>4, <2>5 DEF IInv, NothingLeaks
    <3>3. ASSUME NEW x \in Communities, lock[x] \in Requests
          PROVE  (Held(lock[x]) # {} /\ Writes(lock[x]))'
      <4>1. Held(lock[x]) # {} /\ Writes(lock[x]) /\ lock'[x] = lock[x]
        BY <1>1, <3>3 DEF IInv, NothingLeaks
      <4>2. PICK j \in Slots : holder[j] = lock[x]
        BY <4>1, HeldSlot
      <4>3. j # k
        BY <1>3, <3>3, <4>2, NilAssumption
      <4>4. holder'[j] = lock'[x]
        BY <2>5, <4>1, <4>2, <4>3
      <4> QED
        BY <2>3, <3>3, <4>1, <4>4, HeldSlot
    <3> QED
      BY <1>1, <2>1, <3>1, <3>2, <3>3 DEF NothingLeaks
  <2>7. Healthy'
    BY <1>1, <1>5, <2>1, <2>5 DEF IInv, Healthy, InFlight
  <2>8. Flushes'
    <3>1. \A s \in Requests : \A j \in Slots :
            holder[j] = s /\ conn[j] # "good" => holder'[j] = s /\ conn'[j] # "good"
      BY <1>3, <1>5, <2>5, NilAssumption
    <3> QED
      BY <1>1, <2>1, <2>3, <3>1 DEF IInv, Flushes
  <2>9. Told'
    BY <1>1, <2>1, <2>3 DEF IInv, Told
  <2> QED
    BY <2>2, <2>6, <2>7, <2>8, <2>9 DEF IInv
<1> QED
  BY <1>6, <1>7

(* The UPDATE takes its lock, on a connection that works.                  *)
LEMMA UpdateInv ==
  ASSUME IInv, NEW r \in Requests, Update(r)
  PROVE  IInv'
<1>1. /\ req[r].pc = "run" /\ ~Ended(r) /\ Head(req[r].todo) = "update"
      /\ Forward(r) /\ Connected(r)
      /\ lock[req[r].community] = Nil /\ lock' = [lock EXCEPT ![req[r].community] = r]
      /\ UNCHANGED <<up, conn, holder, durable, hit>>
  BY DEF Update, Awaits
<1>2. /\ req' \in [Requests -> Request] /\ Shape'
      /\ req'[r].pc = "run" /\ req'[r].path = req[r].path
      /\ \A s \in Requests \ {r} : req'[s] = req[s]
  BY <1>1, ForwardType DEF IInv
<1>3. req[r].community \in Communities /\ lock \in [Communities -> Requests \cup {Orphan, Nil}]
  BY <1>1 DEF IInv, TypeInv, TypeOK, Shape
<1>4. \A s \in Requests : (Writes(s)' <=> Writes(s)) /\ s # Nil
  BY <1>2, NilAssumption DEF Writes
<1>5. TypeInv'
  BY <1>1, <1>2, <1>3 DEF IInv, TypeInv, TypeOK
<1>6. /\ lock'[req[r].community] = r
      /\ \A x \in Communities : x = req[r].community \/ lock'[x] = lock[x]
  BY <1>1, <1>3
<1>7. NothingLeaks'
  <2>1. Held(r) # {}
    BY <1>1 DEF Connected
  <2>2. Writes(r)
    <3>1. req[r].todo \in Seq(Await) /\ req[r].todo # <<>>
      BY <1>1 DEF IInv, TypeInv, TypeOK, Request, Ended
    <3>2. 1 \in DOMAIN req[r].todo /\ req[r].todo[1] = "update"
      BY <1>1, <3>1
    <3> QED
      BY <1>1, <3>2 DEF IInv, TypeInv, Shape, Writes
  <2>3. \A k \in Slots : holder[k] # Nil => holder[k] \in Requests
    BY DEF IInv, TypeInv, TypeOK
  <2>4. \A s : Held(s)' = Held(s)
    BY <1>1 DEF Held
  <2>5. \A x \in Communities : lock'[x] \in Requests =>
          Held(lock'[x]) # {} /\ Writes(lock'[x])
    BY <1>6, <2>1, <2>2 DEF IInv, NothingLeaks
  <2>6. \A x \in Communities : (lock[x] \in Requests => Held(lock[x]) # {} /\ Writes(lock[x]))'
    BY <1>4, <2>4, <2>5
  <2>7. \A k \in Slots : holder'[k] # Nil => req'[holder'[k]].pc \in {"run", "commit", "fail"}
    BY <1>1, <1>2, <2>3 DEF IInv, NothingLeaks
  <2> QED
    BY <1>1, <2>6, <2>7 DEF IInv, NothingLeaks
<1>8. Healthy'
  BY <1>1, <1>2 DEF IInv, Healthy, InFlight
<1>9. Flushes'
  <2>1. \A s \in Requests : \A x \in Communities : lock[x] = s => lock'[x] = s
    BY <1>1, <1>4, <1>6
  <2> QED
    BY <1>1, <1>2, <1>3, <1>4, <1>6, <2>1 DEF IInv, Flushes
<1>10. Told'
  BY <1>1, <1>2, <1>4 DEF IInv, Told
<1> QED
  BY <1>5, <1>7, <1>8, <1>9, <1>10 DEF IInv

\* The next request starts afresh: this one holds nothing any more.
LEMMA ReplyInv ==
  ASSUME IInv, NEW r \in Requests, Reply(r)
  PROVE  IInv'
<1>1. /\ req[r].pc = "reply" /\ Goto(r, Idle)
      /\ durable' = durable \ {r} /\ hit' = hit \ {r}
      /\ UNCHANGED <<up, conn, holder, lock>>
  BY DEF Reply
<1>2. /\ req' \in [Requests -> Request] /\ Shape' /\ req'[r].pc = "idle"
      /\ \A s \in Requests \ {r} : req'[s] = req[s]
  BY <1>1, IdleType, GotoType DEF IInv
<1>3. \A s \in Requests \ {r} : Writes(s)' <=> Writes(s)
  BY <1>2 DEF Writes
<1>4. TypeInv'
  BY <1>1, <1>2 DEF IInv, TypeInv, TypeOK
<1>5. NothingLeaks'
  <2>1. \A k \in Slots : holder[k] # Nil => holder[k] \in Requests \ {r}
    BY <1>1 DEF IInv, TypeInv, TypeOK, NothingLeaks
  <2>2. \A x \in Communities : lock[x] # r
    BY <2>1, HeldSlot, NilAssumption DEF IInv, NothingLeaks
  <2> QED
    BY <1>1, <1>2, <1>3, <2>1, <2>2, HeldSlot DEF IInv, NothingLeaks
<1>6. Healthy'
  BY <1>1, <1>2 DEF IInv, Healthy, InFlight
<1>7. Flushes'
  BY <1>1, <1>2, <1>3 DEF IInv, Flushes
<1>8. Told'
  BY <1>1, <1>2, <1>3 DEF IInv, Told
<1> QED
  BY <1>4, <1>5, <1>6, <1>7, <1>8 DEF IInv

(* The commit is done and not heard of: a fault has met the request.       *)
LEMMA CommitUnheardInv ==
  ASSUME IInv, NEW r \in Requests, CommitUnheard(r)
  PROVE  IInv'
<1>1. /\ req[r].pc = "commit" /\ Raise(r, "DBAPIError")
      /\ durable' = IF \E x \in Communities : lock[x] = r THEN durable \cup {r} ELSE durable
      /\ conn' = [k \in Slots |-> IF holder[k] = r THEN "stale" ELSE conn[k]]
      /\ lock' = [x \in Communities |-> IF lock[x] = r THEN Nil ELSE lock[x]]
      /\ hit' = hit \cup {r} /\ UNCHANGED <<up, holder>>
  BY DEF CommitUnheard
<1>2. "DBAPIError" \in Raised
  BY DEF Raised, OtherErrors
<1>3. /\ req' \in [Requests -> Request] /\ Shape'
      /\ req'[r].pc = "fail" /\ req'[r].path = req[r].path
      /\ \A s \in Requests \ {r} : req'[s] = req[s]
  BY <1>1, <1>2, RaiseType DEF IInv, InFlight
<1>4. \A s \in Requests : (Writes(s)' <=> Writes(s)) /\ s # Nil
  BY <1>3, NilAssumption DEF Writes
<1>5. TypeInv'
  BY <1>1, <1>3 DEF IInv, TypeInv, TypeOK, Conn
<1>6. NothingLeaks'
  <2>1. \A k \in Slots : holder[k] # Nil => holder[k] \in Requests
    BY DEF IInv, TypeInv, TypeOK
  <2>2. \A x \in Communities : lock'[x] \in Requests => lock'[x] = lock[x]
    BY <1>1, NilAssumption
  <2>3. \A s : Held(s)' = Held(s)
    BY <1>1 DEF Held
  <2>4. \A x \in Communities : (lock[x] \in Requests => Held(lock[x]) # {} /\ Writes(lock[x]))'
    BY <1>4, <2>2, <2>3 DEF IInv, NothingLeaks
  <2>5. \A k \in Slots : holder'[k] # Nil => req'[holder'[k]].pc \in {"run", "commit", "fail"}
    BY <1>1, <1>3, <2>1 DEF IInv, NothingLeaks
  <2> QED
    BY <1>1, <2>4, <2>5 DEF IInv, NothingLeaks
<1>7. Healthy'
  BY <1>1, <1>3 DEF IInv, Healthy, InFlight
<1>8. Flushes'
  BY <1>1, <1>3, <1>4 DEF IInv, Flushes
<1>9. Told'
  BY <1>1, <1>3, <1>4 DEF IInv, Told
<1> QED
  BY <1>5, <1>6, <1>7, <1>8, <1>9 DEF IInv

\* A connection that breaks marks the request that has it.
LEMMA DropInv ==
  ASSUME IInv, NEW k \in Slots, Drop(k)
  PROVE  IInv'
<1>1. /\ conn' = [conn EXCEPT ![k] = "stale"]
      /\ hit' = hit \cup ({holder[k]} \ {Nil})
      /\ UNCHANGED <<up, holder, req, lock, durable>>
      /\ conn \in [Slots -> Conn] /\ holder \in [Slots -> Requests \cup {Nil}]
  BY DEF Drop, IInv, TypeInv, TypeOK
<1>2. /\ conn'[k] = "stale" /\ conn' \in [Slots -> Conn]
      /\ \A j \in Slots \ {k} : conn'[j] = conn[j]
  BY <1>1 DEF Conn
<1>3. /\ \A s : Held(s)' = Held(s)
      /\ \A s : Writes(s)' <=> Writes(s)
  BY <1>1 DEF Held, Writes
<1>4. TypeInv'
  BY <1>1, <1>2 DEF IInv, TypeInv, TypeOK, Shape, InFlight
<1>5. NothingLeaks'
  BY <1>1, <1>3 DEF IInv, NothingLeaks
<1>6. Healthy'
  BY <1>1, <1>2, NilAssumption DEF IInv, Healthy, InFlight
<1>7. Flushes'
  BY <1>1, <1>2, <1>3 DEF IInv, Flushes
<1>8. Told'
  BY <1>1, <1>3 DEF IInv, Told
<1> QED
  BY <1>4, <1>5, <1>6, <1>7, <1>8 DEF IInv

(* A lock that PostgreSQL takes away leaves a session without a connection *)
(* that works.                                                             *)
LEMMA ReapInv ==
  ASSUME IInv, NEW x \in Communities, Reap(x)
  PROVE  IInv'
<1>1. /\ lock[x] = Orphan \/ \E r \in Requests : lock[x] = r /\ ~Connected(r)
      /\ lock' = [lock EXCEPT ![x] = Nil]
      /\ UNCHANGED <<up, conn, holder, req, durable, hit>>
      /\ lock \in [Communities -> Requests \cup {Orphan, Nil}]
  BY DEF Reap, IInv, TypeInv, TypeOK
<1>2. lock'[x] = Nil /\ \A y \in Communities \ {x} : lock'[y] = lock[y]
  BY <1>1
<1>3. /\ \A s : Held(s)' = Held(s)
      /\ \A s : Writes(s)' <=> Writes(s)
  BY <1>1 DEF Held, Writes
<1>4. TypeInv'
  BY <1>1 DEF IInv, TypeInv, TypeOK, Shape, InFlight
<1>5. NothingLeaks'
  <2>1. \A y \in Communities : lock'[y] \in Requests => lock'[y] = lock[y]
    BY <1>2, NilAssumption
  <2>2. \A y \in Communities : (lock[y] \in Requests => Held(lock[y]) # {} /\ Writes(lock[y]))'
    BY <1>3, <2>1 DEF IInv, NothingLeaks
  <2> QED
    BY <1>1, <2>2 DEF IInv, NothingLeaks
<1>6. Healthy'
  BY <1>1 DEF IInv, Healthy, InFlight
<1>7. Flushes'
  <2>1. ASSUME NEW s \in Requests, lock[x] = s
        PROVE  \E k \in Slots : holder[k] = s /\ conn[k] # "good"
    <3>1. ~Connected(s) /\ Held(s) # {}
      BY <1>1, <2>1, NilAssumption DEF IInv, NothingLeaks
    <3> QED
      BY <3>1 DEF Connected, Held
  <2> QED
    BY <1>1, <1>2, <1>3, <2>1 DEF IInv, Flushes
<1>8. Told'
  BY <1>1, <1>3 DEF IInv, Told
<1> QED
  BY <1>4, <1>5, <1>6, <1>7, <1>8 DEF IInv

(* A restart of PostgreSQL ends every transaction, and meets every request *)
(* that is in flight.                                                      *)
LEMMA ServerDownInv ==
  ASSUME IInv, ServerDown
  PROVE  IInv'
<1>1. /\ up' = FALSE /\ UNCHANGED <<holder, req, durable>>
      /\ conn' = [k \in Slots |-> IF conn[k] = "good" THEN "stale" ELSE conn[k]]
      /\ lock' = [x \in Communities |-> Nil]
      /\ hit' = hit \cup {r \in Requests : InFlight(r)}
  BY DEF ServerDown
<1>2. \A s : Writes(s)' <=> Writes(s)
  BY <1>1 DEF Writes
<1>3. TypeInv'
  BY <1>1 DEF IInv, TypeInv, TypeOK, Shape, InFlight, Conn
<1>4. NothingLeaks'
  BY <1>1, NilAssumption DEF IInv, NothingLeaks
<1>5. Healthy'
  BY <1>1 DEF Healthy, InFlight
<1>6. Flushes'
  <2>1. \A k \in Slots : conn'[k] # "good"
    BY <1>1
  <2>2. \A s \in Requests : (\E x \in Communities : lock[x] = s) => \E k \in Slots : holder[k] = s
    BY HeldSlot DEF IInv, NothingLeaks
  <2> QED
    BY <1>1, <1>2, <2>1, <2>2 DEF IInv, Flushes
<1>7. Told'
  BY <1>1, <1>2 DEF IInv, Told
<1> QED
  BY <1>3, <1>4, <1>5, <1>6, <1>7 DEF IInv

LEMMA ServerUpInv ==
  ASSUME IInv, ServerUp
  PROVE  IInv'
<1>1. up' = TRUE /\ UNCHANGED <<conn, holder, req, lock, durable, hit>>
  BY DEF ServerUp
<1>2. /\ \A s : Held(s)' = Held(s)
      /\ \A s : Writes(s)' <=> Writes(s)
  BY <1>1 DEF Held, Writes
<1> QED
  BY <1>1, <1>2 DEF IInv, TypeInv, TypeOK, Shape, InFlight, NothingLeaks, Healthy, Flushes, Told

\* What dies with the process is nobody's any more.
LEMMA ProcessDiesInv ==
  ASSUME IInv, ProcessDies
  PROVE  IInv'
<1>1. /\ req' = [r \in Requests |-> Idle] /\ UNCHANGED up
      /\ durable' = {} /\ hit' = {}
      /\ conn' = [k \in Slots |-> "none"]
      /\ holder' = [k \in Slots |-> Nil]
      /\ lock' = [x \in Communities |-> IF lock[x] \in Requests THEN Orphan ELSE lock[x]]
  BY DEF ProcessDies
<1>2. \A s \in Requests : req'[s].pc = "idle"
  BY <1>1, IdleType
<1>3. TypeInv'
  BY <1>1, <1>2, IdleType DEF IInv, TypeInv, TypeOK, Shape, InFlight, Conn
<1>4. NothingLeaks'
  <2>1. \A x \in Communities : lock'[x] \notin Requests
    BY <1>1, NilAssumption DEF IInv, TypeInv, TypeOK
  <2> QED
    BY <1>1, <2>1 DEF NothingLeaks
<1>5. Healthy' /\ Flushes'
  BY <1>2 DEF Healthy, Flushes, InFlight
<1>6. Told'
  BY <1>1, <1>2 DEF Told
<1> QED
  BY <1>3, <1>4, <1>5, <1>6 DEF IInv

LEMMA StepInv == IInv /\ [Next]_vars => IInv'
<1> SUFFICES ASSUME IInv, [Next]_vars PROVE IInv'
  OBVIOUS
<1>1. CASE UNCHANGED vars
  <2>1. UNCHANGED <<up, conn, holder, req, lock, durable, hit>>
    BY <1>1 DEF vars
  <2>2. /\ \A s : Held(s)' = Held(s)
        /\ \A s : Writes(s)' <=> Writes(s)
    BY <2>1 DEF Held, Writes
  <2> QED
    BY <2>1, <2>2
    DEF IInv, TypeInv, TypeOK, Shape, InFlight, NothingLeaks, Healthy, Flushes, Told
<1>2. ASSUME NEW r \in Requests, Handle(r) PROVE IInv'
  BY <1>2, RunInv, CommitInv, RollBackInv, ReplyInv, CheckoutInv, UpdateInv DEF Handle, Proceed
<1>3. ASSUME NEW r \in Requests, NEW path \in Handled, NEW community \in Communities,
             Arrive(r, path, community)
      PROVE  IInv'
  BY <1>3, HandledAssumption, ArriveInv
<1>4. CASE Fault
  BY <1>4, RunInv, CommitUnheardInv, DropInv, ServerDownInv, ProcessDiesInv DEF Fault
<1>5. CASE (\E x \in Communities : Reap(x)) \/ ServerUp
  BY <1>5, ReapInv, ServerUpInv
<1> QED
  BY <1>1, <1>2, <1>3, <1>4, <1>5 DEF Next

-------------------------------------------------------------------------------
THEOREM Invariant == Spec => []IInv
BY InitInv, StepInv, PTL DEF Spec

(* Type correctness: a request carries what its phase needs.               *)
THEOREM TypeCorrect == Spec => []TypeOK
<1>1. IInv => TypeOK
  BY DEF IInv, TypeInv
<1> QED
  BY <1>1, Invariant, PTL

(* "always closes the session" (core/database.py): whatever breaks and     *)
(* whenever, no slot of the pool stays with a request that has been        *)
(* answered, and no community stays locked by one.                         *)
THEOREM SessionsClose == Spec => []NothingLeaks
<1>1. IInv => NothingLeaks
  BY DEF IInv
<1> QED
  BY <1>1, Invariant, PTL

(* "Commits on success, rolls back on any exception": for every path of    *)
(* the handlers a success is answered only for a committed UPDATE, and an  *)
(* error for a committed one only to a request a fault has met.            *)
THEOREM AnswersAreTrue == Spec => []AnswerIsTrue
<1>1. IInv => AnswerIsTrue
  BY DEF IInv, Told, AnswerIsTrue
<1> QED
  BY <1>1, Invariant, PTL

(* "guards against stale connections": a fault is answered to the requests *)
(* it met, and to none that comes after.                                   *)
THEOREM FaultsAreLocal == Spec => []FaultsStayBehind
<1>1. IInv => FaultsStayBehind
  BY DEF IInv, Healthy, FaultsStayBehind, InFlight
<1> QED
  BY <1>1, Invariant, PTL

-------------------------------------------------------------------------------
(* Nobody waits in a circle.                                               *)

\* Whom r waits for: s has a slot and r needs one, or s has locked the
\* community of the user that r is about to update.
WaitsOn(r, s) ==
  \/ Queries(r) /\ Held(r) = {} /\ Held(s) # {}
  \/ Awaits(r, "update") /\ Held(r) # {} /\ lock[req[r].community] = s

CircularWait ==
  \E S \in SUBSET Requests : S # {} /\ \A r \in S : \E s \in S : WaitsOn(r, s)

Holds(r) == \E x \in Communities : lock[x] = r
OnlyRedis(todo) == \A i \in DOMAIN todo : todo[i] = "redis"
UpdateLast(todo) == \A i, j \in DOMAIN todo : i < j /\ todo[i] = "update" => todo[j] = "redis"

\* A handler has nothing but Redis commands before it once it holds a lock.
InOrder ==
  \A r \in Requests : req[r].pc = "run" =>
    /\ UpdateLast(req[r].todo)
    /\ Holds(r) => OnlyRedis(req[r].todo)

(* No path queries after its UPDATE.                                       *)
LEMMA PathOrder ==
  ASSUME NEW p \in Paths
  PROVE  UpdateLast(p.awaits)
<1> DEFINE Good(q) == UpdateLast(q.awaits)
<1>1. ASSUME NEW a, UpdateLast(a), NEW e PROVE Good(Path(a, e))
  BY <1>1 DEF Path
<1>2. /\ UpdateLast(<<>>)
      /\ UpdateLast(<<"select">>) /\ UpdateLast(<<"select", "redis">>)
      /\ UpdateLast(<<"redis">>) /\ UpdateLast(<<"redis", "redis">>)
      /\ UpdateLast(<<"redis", "select">>)
      /\ UpdateLast(<<"redis", "select", "redis">>)
      /\ UpdateLast(<<"redis", "select", "update", "redis">>)
      /\ UpdateLast(<<"redis", "select", "select">>)
  BY DEF UpdateLast
<1> HIDE DEF Good
<1>3. \A q \in Malformed : Good(q)
  BY <1>1, <1>2, Zenon DEF Malformed
<1>4. \A q \in SendPaths : Good(q)
  BY <1>1, <1>2, Zenon DEF SendPaths
<1>5. \A q \in VerifyPaths : Good(q)
  <2>1. /\ Good(Path(<<"redis">>, "AuthenticationError"))
        /\ Good(Path(<<"redis">>, "TypeError"))
        /\ Good(Path(<<"redis", "redis">>, "AuthenticationError"))
        /\ Good(Path(<<"redis", "redis">>, "ValidationError"))
        /\ Good(Path(<<"redis", "select", "redis">>, "AuthenticationError"))
        /\ Good(Path(<<"redis", "select">>, "AuthenticationError"))
        /\ Good(Path(<<"redis", "select", "redis">>, "OK"))
        /\ Good(Path(<<"redis", "select", "update", "redis">>, "OK"))
        /\ Good(Path(<<"redis", "select", "select">>, "StaleDataError"))
    BY <1>1, <1>2, Zenon
  <2> QED
    BY <2>1, Zenon DEF VerifyPaths
<1>6. \A q \in RefreshPaths \cup LogoutPaths : Good(q)
  BY <1>1, <1>2, Zenon DEF RefreshPaths, LogoutPaths
<1>7. Good(p)
  BY <1>3, <1>4, <1>5, <1>6 DEF Paths
<1> QED
  BY <1>7 DEF Good

(* What is left after an await is in order, and only Redis after an UPDATE. *)
LEMMA TailOrder ==
  ASSUME NEW todo \in Seq(Await), todo # <<>>, UpdateLast(todo)
  PROVE  /\ UpdateLast(Tail(todo))
         /\ Head(todo) = "update" => OnlyRedis(Tail(todo))
         /\ OnlyRedis(todo) => OnlyRedis(Tail(todo))
<1>1. \A i \in DOMAIN Tail(todo) :
        /\ i + 1 \in DOMAIN todo /\ Tail(todo)[i] = todo[i + 1]
        /\ 1 \in DOMAIN todo /\ i \in Nat \ {0} /\ Head(todo) = todo[1]
  OBVIOUS
<1>2. UpdateLast(Tail(todo))
  <2> SUFFICES ASSUME NEW i \in DOMAIN Tail(todo), NEW j \in DOMAIN Tail(todo),
                      i < j, Tail(todo)[i] = "update"
               PROVE  Tail(todo)[j] = "redis"
    BY DEF UpdateLast
  <2>1. i + 1 < j + 1
    BY <1>1
  <2> QED
    BY <1>1, <2>1 DEF UpdateLast
<1>3. Head(todo) = "update" => OnlyRedis(Tail(todo))
  <2> SUFFICES ASSUME Head(todo) = "update", NEW i \in DOMAIN Tail(todo)
               PROVE  Tail(todo)[i] = "redis"
    BY DEF OnlyRedis
  <2>1. 1 < i + 1
    BY <1>1
  <2> QED
    BY <1>1, <2>1 DEF UpdateLast
<1>4. OnlyRedis(todo) => OnlyRedis(Tail(todo))
  BY <1>1 DEF OnlyRedis
<1> QED
  BY <1>2, <1>3, <1>4

(* A request whose handler does not move, or is at its end, is in order if *)
(* it gets no new lock.                                                    *)
LEMMA RestOrder ==
  ASSUME InOrder, \A r \in Requests : (Holds(r))' => Holds(r),
         \A r \in Requests : req'[r].pc = "run" => req'[r] = req[r]
  PROVE  InOrder'
BY DEF InOrder

LEMMA ForwardOrder ==
  ASSUME IInv, InOrder, NEW r \in Requests, req[r].pc = "run", ~Ended(r), Forward(r),
         \A s \in Requests \ {r} : (Holds(s))' => Holds(s),
         (Holds(r))' => Holds(r) \/ Head(req[r].todo) = "update"
  PROVE  InOrder'
<1>1. /\ req[r] \in Request /\ req \in [Requests -> Request]
      /\ req' = [req EXCEPT ![r] = [req[r] EXCEPT !.todo = Tail(@)]]
  BY DEF IInv, TypeInv, TypeOK, Forward, Goto
<1>2. req[r].todo \in Seq(Await) /\ req[r].todo # <<>>
  BY <1>1 DEF Request, Ended
<1>3. /\ \A s \in Requests \ {r} : req'[s] = req[s]
      /\ req'[r].todo = Tail(req[r].todo)
  BY <1>1 DEF Request
<1>4. UpdateLast(req[r].todo) /\ (Holds(r) => OnlyRedis(req[r].todo))
  BY DEF InOrder
<1>5. UpdateLast(req'[r].todo) /\ ((Holds(r))' => OnlyRedis(req'[r].todo))
  BY <1>2, <1>3, <1>4, TailOrder
<1> QED
  BY <1>3, <1>5 DEF InOrder

LEMMA StepOrder ==
  ASSUME IInv, InOrder, [Next]_vars
  PROVE  InOrder'
<1>1. /\ TypeInv /\ req \in [Requests -> Request]
      /\ lock \in [Communities -> Requests \cup {Orphan, Nil}]
      /\ Idle.pc = "idle"
      /\ \A r \in Requests : r # Nil /\ r # Orphan
  BY IdleType, NilAssumption DEF IInv, TypeInv, TypeOK
\* A lock that no step but Update takes.
<1>2. ASSUME \A x \in Communities : lock'[x] \in Requests => lock'[x] = lock[x]
      PROVE  \A r \in Requests : (Holds(r))' => Holds(r)
  BY <1>2 DEF Holds
<1>3. lock' = lock => \A x \in Communities : lock'[x] \in Requests => lock'[x] = lock[x]
  OBVIOUS
\* A request that goes to another phase than run.
<1>4. ASSUME NEW r \in Requests, NEW q, Goto(r, q), q.pc # "run",
             \A x \in Communities : lock'[x] \in Requests => lock'[x] = lock[x]
      PROVE  InOrder'
  <2>1. \A s \in Requests : req'[s].pc = "run" => req'[s] = req[s]
    BY <1>1, <1>4 DEF Goto
  <2> QED
    BY <1>2, <1>4, <2>1, RestOrder
<1>5. ASSUME NEW r \in Requests, NEW exc, Raise(r, exc),
             \A x \in Communities : lock'[x] \in Requests => lock'[x] = lock[x]
      PROVE  InOrder'
  <2> DEFINE q == [req[r] EXCEPT !.pc = "fail", !.todo = <<>>, !.raised = exc]
  <2>1. Goto(r, q) /\ q.pc = "fail"
    BY <1>1, <1>5 DEF Raise, Request
  <2> HIDE DEF q
  <2> QED
    BY <1>4, <1>5, <2>1
<1>6. ASSUME NEW r \in Requests, NEW status, Answer(r, status),
             \A x \in Communities : lock'[x] \in Requests => lock'[x] = lock[x]
      PROVE  InOrder'
  <2> DEFINE q == [req[r] EXCEPT !.pc = "reply", !.raised = Nil, !.answer = status]
  <2>1. Goto(r, q) /\ q.pc = "reply"
    BY <1>1, <1>6 DEF Answer, Request
  <2> HIDE DEF q
  <2> QED
    BY <1>4, <1>6, <2>1
<1>7. ASSUME NEW r \in Requests, Unlock(r)
      PROVE  \A x \in Communities : lock'[x] \in Requests => lock'[x] = lock[x]
  BY <1>1, <1>7 DEF Unlock
<1>8. ASSUME NEW r \in Requests, RedisReplies(r) \/ Select(r) PROVE InOrder'
  BY <1>2, <1>3, <1>8, ForwardOrder DEF RedisReplies, Select, Awaits
<1>9. ASSUME NEW r \in Requests, Update(r) PROVE InOrder'
  <2>1. /\ Awaits(r, "update") /\ Forward(r) /\ lock' = [lock EXCEPT ![req[r].community] = r]
    BY <1>9 DEF Update
  <2>2. \A s \in Requests \ {r} : (Holds(s))' => Holds(s)
    BY <1>1, <2>1 DEF Holds
  <2> QED
    BY <2>1, <2>2, ForwardOrder DEF Awaits
<1>10. ASSUME NEW r \in Requests,
              RedisFails(r) \/ CheckoutTimesOut(r) \/ LoseConnection(r)
       PROVE  InOrder'
  BY <1>3, <1>5, <1>10 DEF RedisFails, CheckoutTimesOut, LoseConnection
<1>11. ASSUME NEW r \in Requests, Finish(r) PROVE InOrder'
  <2>1. CASE Goto(r, [req[r] EXCEPT !.pc = "commit"])
    <3> DEFINE q == [req[r] EXCEPT !.pc = "commit"]
    <3>1. Goto(r, q) /\ q.pc = "commit" /\ lock' = lock
      BY <1>1, <1>11, <2>1 DEF Finish, Request
    <3> HIDE DEF q
    <3> QED
      BY <1>3, <1>4, <3>1
  <2> QED
    BY <1>3, <1>5, <1>11, <2>1 DEF Finish
<1>12. ASSUME NEW r \in Requests, Commit(r) \/ RollBack(r) PROVE InOrder'
  BY <1>6, <1>7, <1>12 DEF Commit, RollBack
<1>13. ASSUME NEW r \in Requests, Reply(r) PROVE InOrder'
  BY <1>1, <1>3, <1>4, <1>13 DEF Reply
<1>14. ASSUME NEW r \in Requests, Checkout(r) PROVE InOrder'
  <2>1. lock' = lock /\ (req' = req \/ Raise(r, "DBAPIError"))
    BY <1>14 DEF Checkout
  <2> QED
    BY <1>2, <1>3, <1>5, <2>1, RestOrder
<1>15. ASSUME NEW r \in Requests, CommitUnheard(r) PROVE InOrder'
  <2>1. \A x \in Communities : lock'[x] \in Requests => lock'[x] = lock[x]
    BY <1>1, <1>15 DEF CommitUnheard
  <2> QED
    BY <1>5, <1>15, <2>1 DEF CommitUnheard
<1>16. ASSUME NEW r \in Requests, NEW path \in Handled, NEW community \in Communities,
              Arrive(r, path, community)
       PROVE  InOrder'
  <2>1. /\ path \in Paths /\ ~InFlight(r) /\ lock' = lock
        /\ Goto(r, [Idle EXCEPT !.pc = "run", !.path = path, !.todo = path.awaits,
                              !.community = community])
    BY <1>16, HandledAssumption DEF Arrive
  <2>2. /\ req'[r].todo = path.awaits
        /\ \A s \in Requests \ {r} : req'[s] = req[s]
    BY <1>1, <2>1, ArriveType
  <2>3. ~Holds(r)
    <3>1. \A k \in Slots : holder[k] # r
      BY <1>1, <2>1 DEF IInv, NothingLeaks, InFlight
    <3>2. \A x \in Communities : lock[x] # r
      BY <3>1 DEF IInv, NothingLeaks, Held
    <3> QED
      BY <3>2 DEF Holds
  <2>4. \A s \in Requests : (Holds(s))' => Holds(s)
    BY <1>2, <1>3, <2>1
  <2>5. UpdateLast(path.awaits)
    BY <2>1, PathOrder
  <2> QED
    BY <2>2, <2>3, <2>4, <2>5 DEF InOrder
<1>17. CASE \/ \E k \in Slots : Drop(k)
            \/ ServerDown \/ ServerUp
            \/ \E x \in Communities : Reap(x)
            \/ UNCHANGED vars
  <2>1. req' = req /\ \A x \in Communities : lock'[x] \in Requests => lock'[x] = lock[x]
    BY <1>1, <1>17 DEF Drop, ServerDown, ServerUp, Reap, vars
  <2> QED
    BY <1>2, <2>1, RestOrder
<1>18. CASE ProcessDies
  <2>1. /\ \A r \in Requests : req'[r].pc # "run"
        /\ \A x \in Communities : lock'[x] \in Requests => lock'[x] = lock[x]
    BY <1>1, <1>18 DEF ProcessDies
  <2> QED
    BY <1>2, <2>1, RestOrder
<1> QED
  BY <1>8, <1>9, <1>10, <1>11, <1>12, <1>13, <1>14, <1>15, <1>16, <1>17, <1>18
  DEF Next, Handle, Proceed, Fault

(* Who waits for a slot waits for one who may wait for a lock; and whoever *)
(* holds a lock has a slot and nothing but Redis to wait for.              *)
LEMMA NoCircle ==
  ASSUME IInv, InOrder
  PROVE  ~CircularWait
<1> SUFFICES ASSUME NEW S \in SUBSET Requests, S # {},
                    \A r \in S : \E s \in S : WaitsOn(r, s)
             PROVE  FALSE
  BY DEF CircularWait
<1>1. ASSUME NEW r \in Requests, Holds(r) PROVE ~Queries(r)
  <2> SUFFICES ASSUME Queries(r) PROVE FALSE
    OBVIOUS
  <2>1. req[r].pc = "run" /\ req[r].todo # <<>> /\ Head(req[r].todo) # "redis"
    BY DEF Queries, Awaits, Ended
  <2>2. req[r].todo \in Seq(Await)
    BY DEF IInv, TypeInv, TypeOK, Request
  <2>3. 1 \in DOMAIN req[r].todo /\ Head(req[r].todo) = req[r].todo[1]
    BY <2>1, <2>2
  <2> QED
    BY <1>1, <2>1, <2>3 DEF InOrder, OnlyRedis
<1>2. \A r \in S : \A s \in S : WaitsOn(r, s) => Queries(r) /\ Queries(s)
  BY DEF WaitsOn, Queries
<1>3. ASSUME NEW r \in S, Held(r) # {} PROVE FALSE
  <2>1. PICK s \in S : Awaits(r, "update") /\ lock[req[r].community] = s
    BY <1>3 DEF WaitsOn
  <2>2. req[r].community \in Communities
    BY <2>1 DEF IInv, TypeInv, Shape, Awaits
  <2> QED
    BY <1>1, <1>2, <2>1, <2>2 DEF Holds
<1>4. PICK r \in S : TRUE
  OBVIOUS
<1> QED
  BY <1>3, <1>4 DEF WaitsOn

(* The connection that get_db keeps over the awaits of Redis and of a lock *)
(* (core/database.py) is never kept for the sake of one who waits for it:  *)
(* a request that has locked a community waits for no lock and no slot     *)
(* before its commit, and one that waits for a connection has locked       *)
(* nothing, whatever the size of the pool and however many requests share  *)
(* it: no requests wait for each other in a circle.  (An UPDATE locks its  *)
(* user's row before the community, which is why that order cannot close a *)
(* circle either: OneStatementNeverDeadlocks in CommunityVersionProofs.)   *)
THEOREM NobodyWaitsInACircle == Spec => []~CircularWait
<1>1. Init => IInv /\ InOrder
  BY InitInv, IdleType DEF Init, InOrder
<1>2. IInv /\ InOrder /\ [Next]_vars => (IInv /\ InOrder)'
  BY StepInv, StepOrder
<1>3. IInv /\ InOrder => ~CircularWait
  BY NoCircle
<1> QED
  BY <1>1, <1>2, <1>3, PTL DEF Spec
================================================================================
