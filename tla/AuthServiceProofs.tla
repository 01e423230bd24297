------------------------- MODULE AuthServiceProofs -------------------------
(***************************************************************************)
(* What TLAPS proves of AuthService, for any users, challenges, mobiles,   *)
(* communities, attempt cap and any number of overlapping requests.        *)
(***************************************************************************)
EXTENDS AuthService, FiniteSetTheorems, TLAPS

(* What a request holds in memory in each phase.  TypeOK is not inductive  *)
(* without it: StoreChallenge, CountAttempt and Commit store what the      *)
(* request holds.                                                          *)
Shape(q) ==
  /\ q.pc \in {"setex", "count", "burn", "load", "accept"} => q.chal \in Challenges
  /\ q.chal # Nil => q.payload \in Payload
  /\ q.pc \in {"flush", "accept", "commit"} => q.user \in Users
  /\ q.pc = "flush" => q.target \in Row
  /\ q.tokens => q.pc \in {"flush", "accept", "commit"}

TypeInv == TypeOK /\ \A r \in Requests : Shape(req[r])

(* A step that gives request r a well-shaped record keeps req typed.       *)
LEMMA GotoKeepsShape ==
  ASSUME TypeInv, NEW r \in Requests, NEW f \in Request, Shape(f), Goto(r, f)
  PROVE  req' \in [Requests -> Request] /\ \A o \in Requests : Shape(req'[o])
BY DEF TypeInv, TypeOK, Goto, Shape

(* The record of an idle request is one.                                   *)
LEMMA IdleShape == Idle \in Request /\ Shape(Idle)
BY NilAssumption DEF Idle, Request, Phase, Shape

(* The four ends of LoadUser: the user is gone, revoked, verified, or      *)
(* pending and promoted in the session.                                    *)
Loaded(q, f) ==
  \E u \in q.payload.uids :
    /\ u \in Users
    /\ \/ users[u] = "pending" /\ f.pc = "flush" /\ f.target = "verified"
       \/ users[u] = "verified" /\ f.pc = "accept" /\ f.target = Nil
    /\ f.chal = q.chal /\ f.payload = q.payload /\ f.user = u /\ f.tokens

LEMMA LoadUserOutcome ==
  ASSUME TypeInv, NEW r \in Requests, LoadUser(r)
  PROVE  \E f \in Request :
           /\ Goto(r, f) /\ Shape(f)
           /\ f = [req[r] EXCEPT !.pc = "burn"] \/ f = Idle \/ Loaded(req[r], f)
<1> DEFINE q == req[r]
           Goal == \E f \in Request :
                     /\ Goto(r, f) /\ Shape(f)
                     /\ f = [q EXCEPT !.pc = "burn"] \/ f = Idle \/ Loaded(q, f)
<1>1. q \in Request /\ Shape(q) /\ q.pc = "load"
  BY DEF TypeInv, TypeOK, LoadUser
<1>2. q.chal \in Challenges /\ q.payload \in Payload /\ q.tokens = FALSE
  BY <1>1, NilAssumption DEF Shape, Request
<1>3. CASE \E u \in q.payload.uids : ~Exists(u) /\ Goto(r, [q EXCEPT !.pc = "burn"])
  <2> DEFINE f == [q EXCEPT !.pc = "burn"]
  <2>1. f \in Request
    BY <1>1 DEF Request, Phase
  <2>2. Shape(f)
    BY <1>1, <1>2 DEF Shape, Request
  <2> QED
    BY <1>3, <2>1, <2>2
<1>4. CASE Done(r)
  BY <1>4, IdleShape DEF Done
<1>5. ASSUME NEW u \in q.payload.uids, users[u] \in {"pending", "verified"},
             Goto(r, [q EXCEPT
               !.pc = IF Promoted(users[u]) = Nil THEN "accept" ELSE "flush",
               !.user = u, !.target = Promoted(users[u]), !.tokens = TRUE])
      PROVE  Goal
  <2> DEFINE pc == IF Promoted(users[u]) = Nil THEN "accept" ELSE "flush"
             target == Promoted(users[u])
             f == [q EXCEPT !.pc = pc, !.user = u, !.target = target, !.tokens = TRUE]
  <2>1. u \in Users
    BY <1>2 DEF Payload
  <2>2. \/ users[u] = "pending" /\ pc = "flush" /\ target = "verified"
        \/ users[u] = "verified" /\ pc = "accept" /\ target = Nil
    BY <1>5, NilAssumption DEF Promoted, Row, Auth
  <2>3. Goto(r, f)
    BY <1>5
  <2> HIDE DEF pc, target
  <2>4. pc \in Phase /\ target \in Row \cup {Nil}
    BY <2>2 DEF Phase, Row, Auth
  <2>5. f \in Request
    BY <1>1, <2>1, <2>4 DEF Request
  <2>6. f.pc = pc /\ f.target = target /\ f.chal = q.chal /\ f.payload = q.payload
        /\ f.user = u /\ f.tokens
    BY <1>1 DEF Request
  <2> HIDE DEF f
  <2>7. Shape(f)
    BY <1>2, <2>1, <2>2, <2>4, <2>6 DEF Shape, Row, Auth
  <2>8. Loaded(q, f)
    BY <2>1, <2>2, <2>6 DEF Loaded
  <2> QED
    BY <2>3, <2>5, <2>7, <2>8
<1> QED
  BY <1>3, <1>4, <1>5 DEF LoadUser

LEMMA TypeInit == Init => TypeInv
BY IdleShape DEF Init, TypeInv, TypeOK, Row, Fate

(* Reading in one step and writing in a later one never mixes up what is   *)
(* stored: the type invariant of the service.                              *)
LEMMA TypeNext == TypeInv /\ [Next]_vars => TypeInv'
<1> SUFFICES ASSUME TypeInv, [Next]_vars PROVE TypeInv'
  OBVIOUS
<1> USE DEF TypeInv, TypeOK
<1>1. ASSUME NEW r \in Requests, Done(r) 
      PROVE  req' \in [Requests -> Request] /\ \A o \in Requests : Shape(req'[o])
  BY <1>1, IdleShape, GotoKeepsShape DEF Done
<1>2. ASSUME NEW r \in Requests, NEW c \in Challenges, NEW m \in Mobiles, SendOtp(r, c, m)
      PROVE  TypeInv'
  <2> DEFINE f == [Idle EXCEPT !.pc = "setex", !.chal = c,
                               !.payload = NewPayload(ListByMobile(m))]
  <2>1. NewPayload(ListByMobile(m)) \in Payload
    BY DEF NewPayload, ListByMobile, Payload
  <2>2. f \in Request /\ Shape(f)
    BY <2>1, IdleShape, NilAssumption DEF Idle, Request, Phase, Shape
  <2>3. req' \in [Requests -> Request] /\ \A o \in Requests : Shape(req'[o])
    BY <1>2, <2>2, GotoKeepsShape DEF SendOtp
  <2> QED
    BY <1>2, <2>3 DEF SendOtp
<1>3. ASSUME NEW r \in Requests, StoreChallenge(r)
      PROVE  TypeInv'
  <2>1. req[r].chal \in Challenges /\ req[r].payload \in Payload
    BY <1>3, NilAssumption DEF StoreChallenge, Shape
  <2> QED
    BY <1>1, <1>3, <2>1 DEF StoreChallenge, Entry, history
<1>4. ASSUME NEW r \in Requests, NEW c \in Challenges, NEW right \in BOOLEAN,
             VerifyOtp(r, c, right)
      PROVE  TypeInv'
  <2> DEFINE p == redis[c].payload
             f == [Idle EXCEPT !.pc = Verdict(p, right), !.chal = c, !.payload = p]
  <2>1. p \in Payload
    BY <1>4 DEF VerifyOtp, Entry
  <2>2. Verdict(p, right) \in {"burn", "count", "load"}
    BY DEF Verdict
  <2>3. f \in Request /\ Shape(f)
    BY <2>1, <2>2, IdleShape, NilAssumption DEF Idle, Request, Phase, Shape
  <2>4. req' \in [Requests -> Request] /\ \A o \in Requests : Shape(req'[o])
    BY <1>4, <2>3, GotoKeepsShape DEF VerifyOtp
  <2> QED
    BY <1>4, <2>4 DEF VerifyOtp
<1>5. ASSUME NEW r \in Requests, CountAttempt(r)
      PROVE  TypeInv'
  <2>1. req[r].chal \in Challenges /\ req[r].payload \in Payload
    BY <1>5, NilAssumption DEF CountAttempt, Shape
  <2>2. Counted(req[r].payload) \in Payload
    BY <2>1 DEF Counted, Payload
  <2>3. KeepTtl(redis[req[r].chal]) \in BOOLEAN
    BY <2>1 DEF KeepTtl, Entry
  <2> QED
    BY <1>1, <1>5, <2>1, <2>2, <2>3 DEF CountAttempt, Entry
<1>6. ASSUME NEW r \in Requests, BurnAndReject(r)
      PROVE  TypeInv'
  <2>1. req[r].chal \in Challenges
    BY <1>6 DEF BurnAndReject, Shape
  <2> QED
    BY <1>1, <1>6, <2>1 DEF BurnAndReject, Fate
<1>7. ASSUME NEW r \in Requests, LoadUser(r)
      PROVE  TypeInv'
  <2>1. req' \in [Requests -> Request] /\ \A o \in Requests : Shape(req'[o])
    BY <1>7, LoadUserOutcome, GotoKeepsShape
  <2> QED
    BY <1>7, <2>1 DEF LoadUser, history
<1>8. ASSUME NEW r \in Requests, BurnAndAccept(r)
      PROVE  TypeInv'
  <2> DEFINE f == [req[r] EXCEPT !.pc = "commit"]
  <2>1. req[r].chal \in Challenges
    BY <1>8 DEF BurnAndAccept, Shape
  <2>2. f \in Request /\ Shape(f)
    BY <1>8 DEF BurnAndAccept, Request, Phase, Shape
  <2>3. req' \in [Requests -> Request] /\ \A o \in Requests : Shape(req'[o])
    BY <1>8, <2>2, GotoKeepsShape DEF BurnAndAccept
  <2> QED
    BY <1>8, <2>1, <2>3 DEF BurnAndAccept, Fate
<1>9. ASSUME NEW r \in Requests, NEW u \in Users, Refresh(r, u)
      PROVE  TypeInv'
  <2> DEFINE f == [Idle EXCEPT !.pc = "commit", !.user = u, !.tokens = TRUE]
  <2>1. f \in Request /\ Shape(f)
    BY IdleShape, NilAssumption DEF Idle, Request, Phase, Shape
  <2>2. req' \in [Requests -> Request] /\ \A o \in Requests : Shape(req'[o])
    BY <1>9, <2>1, GotoKeepsShape DEF Refresh
  <2> QED
    BY <1>9, <2>2 DEF Refresh, history
<1>10. ASSUME NEW r \in Requests, Provision(r)
       PROVE  TypeInv'
  <2>1. PICK u \in Users, s \in Row :
          /\ Goto(r, [Idle EXCEPT !.pc = "flush", !.user = u, !.target = s])
          /\ UNCHANGED <<users, redis, holders, history>>
    BY <1>10 DEF Provision, CreateUser, UpdateUser, DeleteUser, Row
  <2> DEFINE f == [Idle EXCEPT !.pc = "flush", !.user = u, !.target = s]
  <2>2. f \in Request /\ Shape(f)
    BY IdleShape, NilAssumption DEF Idle, Request, Phase, Shape
  <2>3. req' \in [Requests -> Request] /\ \A o \in Requests : Shape(req'[o])
    BY <2>1, <2>2, GotoKeepsShape
  <2> QED
    BY <2>1, <2>3 DEF history
<1>11. ASSUME NEW r \in Requests, FlushRow(r)
       PROVE  TypeInv'
  <2> DEFINE f == [req[r] EXCEPT !.pc = IF req[r].chal = Nil THEN "commit" ELSE "accept"]
  <2>1. f \in Request /\ Shape(f)
    BY <1>11 DEF FlushRow, Request, Phase, Shape
  <2>2. req' \in [Requests -> Request] /\ \A o \in Requests : Shape(req'[o])
    BY <1>1, <1>11, <2>1, GotoKeepsShape DEF FlushRow
  <2> QED
    BY <1>11, <2>2 DEF FlushRow, history
<1>12. ASSUME NEW r \in Requests, Commit(r) \/ CommitUnheard(r)
       PROVE  TypeInv'
  <2>1. req[r].user \in Users
    BY <1>12 DEF Commit, CommitUnheard, Shape
  <2>2. users' \in [Users -> Row] /\ wasVerified' \subseteq Users
    BY <1>12, <2>1 DEF Commit, CommitUnheard, CommitRow, Request
  <2>3. holders' \subseteq Users
    BY <1>12, <2>1 DEF Commit, CommitUnheard
  <2>4. grants' \in [Challenges -> Nat]
    BY <1>12 DEF Commit, CommitUnheard
  <2> QED
    BY <1>1, <1>12, <2>2, <2>3, <2>4 DEF Commit, CommitUnheard
<1>13. ASSUME NEW r \in Requests, Fail(r)
       PROVE  TypeInv'
  BY <1>1, <1>13 DEF Fail, history
<1>14. ASSUME NEW r \in Requests, Refuse(r)
       PROVE  TypeInv'
  BY <1>14 DEF Refuse, vars, history
<1>15. ASSUME NEW c \in Challenges, Expire(c)
       PROVE  TypeInv'
  BY <1>15 DEF Expire, history
<1>16. CASE UNCHANGED vars
  BY <1>16 DEF vars, history
<1> QED
  BY <1>2, <1>3, <1>4, <1>5, <1>6, <1>7, <1>8, <1>9, <1>10, <1>11, <1>12, <1>13,
     <1>14, <1>15, <1>16 DEF Next, Login, Handle

(* Type correctness of the service, whatever overlaps and whatever fails.  *)
THEOREM TypeCorrect == Spec => []TypeOK
<1>1. Spec => []TypeInv
  BY TypeInit, TypeNext, PTL DEF Spec
<1>2. TypeInv => TypeOK
  BY DEF TypeInv
<1> QED
  BY <1>1, <1>2, PTL

-----------------------------------------------------------------------------
(* Wrong codes are never overcounted.                                      *)

CountInv ==
  /\ \A c \in Challenges : redis[c] # Nil => redis[c].payload.attempts <= guesses[c]
  /\ \A r \in Requests : req[r].pc \in {"setex", "count"} =>
                           req[r].payload.attempts <= guesses[req[r].chal]

LEMMA CountNext == TypeInv /\ CountInv /\ [Next]_vars => CountInv'
<1> SUFFICES ASSUME TypeInv, CountInv, [Next]_vars PROVE CountInv'
  OBVIOUS
<1>t. /\ req \in [Requests -> Request]
      /\ redis \in [Challenges -> Entry \cup {Nil}]
      /\ guesses \in [Challenges -> Nat]
      /\ \A r \in Requests : Shape(req[r])
  BY DEF TypeInv, TypeOK
\* Nothing stored, nothing counted, and r is not about to do either.
<1>1. ASSUME NEW r \in Requests, UNCHANGED <<redis, guesses>>,
             NEW f \in Request, f.pc \notin {"setex", "count"}, Goto(r, f)
      PROVE  CountInv'
  BY <1>t, <1>1 DEF CountInv, Goto
\* The same, and a key is dropped.
<1>2. ASSUME NEW c \in Challenges, redis' = [redis EXCEPT ![c] = Nil], guesses' = guesses,
             \A r \in Requests : req'[r] = req[r] \/ req'[r].pc \notin {"setex", "count"}
      PROVE  CountInv'
  BY <1>t, <1>2 DEF CountInv
<1>i. Idle \in Request /\ Idle.pc = "idle"
  BY IdleShape DEF Idle
<1>3. ASSUME NEW r \in Requests, NEW c \in Challenges, NEW m \in Mobiles, SendOtp(r, c, m)
      PROVE  CountInv'
  <2> DEFINE p == NewPayload(ListByMobile(m))
             f == [Idle EXCEPT !.pc = "setex", !.chal = c, !.payload = p]
  <2>1. p.attempts = 0
    BY DEF NewPayload
  <2>2. f.chal = c /\ f.payload = p
    BY DEF Idle
  <2>3. req' = [req EXCEPT ![r] = f] /\ UNCHANGED <<redis, guesses>>
    BY <1>3 DEF SendOtp, Goto
  <2> QED
    BY <1>t, <2>1, <2>2, <2>3 DEF CountInv
<1>4. ASSUME NEW r \in Requests, StoreChallenge(r)
      PROVE  CountInv'
  <2>1. req[r].chal \in Challenges /\ req[r].payload.attempts <= guesses[req[r].chal]
    BY <1>t, <1>4 DEF StoreChallenge, Shape, CountInv
  <2>2. req' = [req EXCEPT ![r] = Idle] /\ guesses' = guesses
        /\ redis' = [redis EXCEPT ![req[r].chal] = [payload |-> req[r].payload, ttl |-> TRUE]]
    BY <1>4 DEF StoreChallenge, Done, Goto, history
  <2> QED
    BY <1>t, <1>i, <2>1, <2>2 DEF CountInv
<1>5. ASSUME NEW r \in Requests, NEW c \in Challenges, NEW right \in BOOLEAN,
             VerifyOtp(r, c, right)
      PROVE  CountInv'
  <2> DEFINE p == redis[c].payload
             f == [Idle EXCEPT !.pc = Verdict(p, right), !.chal = c, !.payload = p]
  <2>1. f.chal = c /\ f.payload = p /\ p.attempts <= guesses[c]
    BY <1>5 DEF Idle, VerifyOtp, CountInv
  <2>2. req' = [req EXCEPT ![r] = f] /\ UNCHANGED <<redis, guesses>>
    BY <1>5 DEF VerifyOtp, Goto
  <2> HIDE DEF f
  <2> QED
    BY <1>t, <2>1, <2>2 DEF CountInv
<1>6. ASSUME NEW r \in Requests, CountAttempt(r)
      PROVE  CountInv'
  <2> DEFINE c == req[r].chal
             e == [payload |-> Counted(req[r].payload), ttl |-> KeepTtl(redis[c])]
  <2>1. c \in Challenges /\ req[r].payload \in Payload
        /\ req[r].payload.attempts <= guesses[c]
    BY <1>t, <1>6, NilAssumption DEF CountAttempt, Shape, CountInv
  <2>2. e.payload.attempts <= guesses[c] + 1
    BY <1>t, <2>1 DEF Counted, Payload
  <2>3. /\ req' = [req EXCEPT ![r] = Idle]
        /\ redis' = [redis EXCEPT ![c] = e]
        /\ guesses' = [guesses EXCEPT ![c] = guesses[c] + 1]
    BY <1>6 DEF CountAttempt, Done, Goto
  <2>4. \A d \in Challenges : redis'[d] # Nil => redis'[d].payload.attempts <= guesses'[d]
    <3> HIDE DEF e
    <3> QED BY <1>t, <2>1, <2>2, <2>3 DEF CountInv
  <2>5. \A o \in Requests : req'[o].pc \in {"setex", "count"} =>
                              req'[o].payload.attempts <= guesses'[req'[o].chal]
    <3> SUFFICES ASSUME NEW o \in Requests, req'[o].pc \in {"setex", "count"}
                 PROVE  req'[o].payload.attempts <= guesses'[req'[o].chal]
      OBVIOUS
    <3>1. req'[o] = req[o] /\ req[o].pc \in {"setex", "count"}
      BY <1>t, <1>i, <2>3
    <3>2. req[o].chal \in Challenges /\ req[o].payload \in Payload
      BY <1>t, <3>1, NilAssumption DEF Shape
    <3>3. req[o].payload.attempts \in Nat /\ guesses[req[o].chal] \in Nat
      BY <1>t, <3>2 DEF Payload
    <3>4. req[o].payload.attempts <= guesses[req[o].chal]
      BY <3>1 DEF CountInv
    <3> QED
      BY <1>t, <2>1, <2>3, <3>1, <3>2, <3>3, <3>4
  <2> QED
    BY <2>4, <2>5 DEF CountInv
<1>7. ASSUME NEW r \in Requests, BurnAndReject(r) \/ BurnAndAccept(r)
      PROVE  CountInv'
  <2>1. req[r].chal \in Challenges
    BY <1>t, <1>7 DEF BurnAndReject, BurnAndAccept, Shape
  <2>2. redis' = [redis EXCEPT ![req[r].chal] = Nil] /\ guesses' = guesses
    BY <1>7 DEF BurnAndReject, BurnAndAccept
  <2>3. CASE BurnAndReject(r)
    <3>1. \A o \in Requests : req'[o] = req[o] \/ req'[o].pc = "idle"
      BY <1>t, <1>i, <2>3 DEF BurnAndReject, Done, Goto
    <3> QED
      BY <1>2, <2>1, <2>2, <3>1
  <2>4. CASE BurnAndAccept(r)
    <3>1. \A o \in Requests : req'[o] = req[o] \/ req'[o].pc = "commit"
      BY <1>t, <2>4 DEF BurnAndAccept, Goto, Request
    <3> QED
      BY <1>2, <2>1, <2>2, <3>1
  <2> QED
    BY <1>7, <2>3, <2>4
<1>8. ASSUME NEW r \in Requests, LoadUser(r)
      PROVE  CountInv'
  <2>1. PICK f \in Request : Goto(r, f)
               /\ (f = [req[r] EXCEPT !.pc = "burn"] \/ f = Idle \/ Loaded(req[r], f))
    BY <1>8, LoadUserOutcome
  <2>2. f.pc \notin {"setex", "count"}
    BY <1>t, <1>i, <2>1 DEF Loaded, Request
  <2> QED
    BY <1>1, <1>8, <2>1, <2>2 DEF LoadUser, history
<1>9. ASSUME NEW r \in Requests,
             (\E u \in Users : Refresh(r, u)) \/ Provision(r) \/ FlushRow(r)
      PROVE  CountInv'
  <2>1. UNCHANGED <<redis, guesses>>
    BY <1>9 DEF Refresh, Provision, CreateUser, UpdateUser, DeleteUser, FlushRow, history
  <2>2. ASSUME NEW u \in Users, Refresh(r, u)
        PROVE  \A o \in Requests : req'[o] = req[o] \/ req'[o].pc = "commit"
    BY <1>t, <2>2 DEF Refresh, Goto, Idle
  <2>3. ASSUME Provision(r)
        PROVE  \A o \in Requests : req'[o] = req[o] \/ req'[o].pc = "flush"
    BY <1>t, <2>3 DEF Provision, CreateUser, UpdateUser, DeleteUser, Goto, Idle
  <2>4. ASSUME FlushRow(r)
        PROVE  \A o \in Requests : req'[o] = req[o] \/ req'[o].pc \in {"commit", "accept", "idle"}
    BY <1>t, <1>i, <2>4 DEF FlushRow, Done, Goto, Request
  <2>5. \A o \in Requests : req'[o] = req[o] \/ req'[o].pc \notin {"setex", "count"}
    BY <1>9, <2>2, <2>3, <2>4
  <2> QED
    BY <2>1, <2>5 DEF CountInv
<1>10. ASSUME NEW r \in Requests, Commit(r) \/ CommitUnheard(r) \/ Fail(r)
       PROVE  CountInv'
  BY <1>i, <1>1, <1>10 DEF Commit, CommitUnheard, Fail, Done, history
<1>11. ASSUME NEW c \in Challenges, Expire(c)
       PROVE  CountInv'
  BY <1>2, <1>11 DEF Expire, history
<1>12. CASE UNCHANGED vars
  BY <1>12 DEF vars, history, CountInv
<1> QED
  BY <1>3, <1>4, <1>5, <1>6, <1>7, <1>8, <1>9, <1>10, <1>11, <1>12
  DEF Next, Login, Handle, Refuse

(* However many verify_otp calls overlap, the stored counter never runs    *)
(* ahead of the wrong codes recorded: nobody is locked out early.          *)
THEOREM NeverOvercounted == Spec => []NoOvercount
<1>1. Init => CountInv
  BY NilAssumption DEF Init, CountInv, Idle
<1>2. Spec => [](TypeInv /\ CountInv)
  BY <1>1, TypeInit, TypeNext, CountNext, PTL DEF Spec
<1>3. CountInv => NoOvercount
  BY DEF CountInv, NoOvercount
<1> QED
  BY <1>2, <1>3, PTL

-----------------------------------------------------------------------------
(* Tokens only for the one user who answered.                              *)

(* What a request knows of its challenge and of the user it will answer,   *)
(* told by the histories: the payload names the users the code was sent    *)
(* to; past the comparison, the right code was presented and there is one  *)
(* such user; a refresh is by a holder; and the row is verified, or will   *)
(* be by this very commit.                                                 *)
Backed(q, adr, ans, hol, was) ==
  /\ q.chal # Nil => q.payload.uids = adr[q.chal] /\ adr[q.chal] # {}
  /\ q.pc = "load" => q.chal \in ans /\ \E u \in Users : adr[q.chal] = {u}
  /\ q.tokens => /\ IF q.chal = Nil THEN q.user \in hol
                                    ELSE q.chal \in ans /\ adr[q.chal] = {q.user}
                 /\ \/ q.target = Nil /\ q.user \in was
                    \/ q.target = "verified"

HolderInv ==
  /\ \A c \in Challenges :
       redis[c] # Nil => redis[c].payload.uids = addressed[c] /\ addressed[c] # {}
  /\ \A r \in Requests : Backed(req[r], addressed, answered, holders, wasVerified)
  /\ \A u \in Users : users[u] = "verified" => u \in wasVerified
  /\ HolderAnsweredCode

(* The histories the invariant reads only grow; a challenge is addressed   *)
(* once.                                                                   *)
Grows ==
  /\ answered \subseteq answered'
  /\ holders \subseteq holders'
  /\ wasVerified \subseteq wasVerified'
  /\ \A c \in Challenges : addressed[c] # {} => addressed'[c] = addressed[c]

LEMMA HistoryGrows == TypeInv /\ [Next]_vars => Grows
<1> SUFFICES ASSUME TypeInv, [Next]_vars PROVE Grows
  OBVIOUS
<1> USE DEF Grows
<1>t. addressed \in [Challenges -> SUBSET Users]
  BY DEF TypeInv, TypeOK
<1>1. ASSUME NEW r \in Requests, Login(r) PROVE Grows
  BY <1>t, <1>1 DEF Login, SendOtp, VerifyOtp, Refresh, Refuse, history, vars
<1>2. ASSUME NEW r \in Requests, Provision(r) PROVE Grows
  BY <1>2 DEF Provision, CreateUser, UpdateUser, DeleteUser, history
<1>3. ASSUME NEW r \in Requests, Handle(r) PROVE Grows
  BY <1>3 DEF Handle, StoreChallenge, CountAttempt, BurnAndReject, LoadUser, FlushRow,
              BurnAndAccept, Commit, CommitUnheard, CommitRow, history
<1>4. ASSUME NEW r \in Requests, Fail(r) PROVE Grows
  BY <1>4 DEF Fail, history
<1>5. ASSUME NEW c \in Challenges, Expire(c) PROVE Grows
  BY <1>5 DEF Expire, history
<1>6. CASE UNCHANGED vars
  BY <1>6 DEF vars, history
<1> QED
  BY <1>1, <1>2, <1>3, <1>4, <1>5, <1>6 DEF Next

(* What is backed stays backed as the histories grow.                      *)
LEMMA BackedStays ==
  ASSUME Grows, NEW q \in Request, Shape(q),
         Backed(q, addressed, answered, holders, wasVerified)
  PROVE  Backed(q, addressed', answered', holders', wasVerified')
<1>1. q.chal # Nil => q.chal \in Challenges
  BY DEF Request
<1>2. q.pc = "load" => q.chal # Nil
  BY NilAssumption DEF Shape
<1> QED
  BY <1>1, <1>2 DEF Grows, Backed

(* A step is proved by what it stores, the record of its request and the   *)
(* rows and holders it commits.                                            *)
LEMMA HolderStep ==
  ASSUME TypeInv, HolderInv, Grows, NEW r \in Requests, NEW f \in Request, Goto(r, f),
         Backed(f, addressed', answered', holders', wasVerified'),
         \A c \in Challenges : redis'[c] # Nil =>
           redis'[c].payload.uids = addressed'[c] /\ addressed'[c] # {},
         \A u \in Users : users'[u] = "verified" => u \in wasVerified',
         HolderAnsweredCode'
  PROVE  HolderInv'
<1>1. ASSUME NEW o \in Requests
      PROVE  Backed(req'[o], addressed', answered', holders', wasVerified')
  <2>1. CASE o = r
    BY <2>1 DEF TypeInv, TypeOK, Goto
  <2>2. CASE o # r
    <3>1. req'[o] = req[o] /\ req[o] \in Request /\ Shape(req[o])
      BY <2>2 DEF TypeInv, TypeOK, Goto
    <3>2. Backed(req[o], addressed, answered, holders, wasVerified)
      BY DEF HolderInv
    <3> QED
      BY <3>1, <3>2, BackedStays
  <2> QED
    BY <2>1, <2>2
<1> QED
  BY <1>1 DEF HolderInv

(* Holders stay backed as the histories grow.                              *)
LEMMA HoldersStay ==
  ASSUME TypeInv, HolderAnsweredCode, Grows, holders' = holders
  PROVE  HolderAnsweredCode'
BY DEF HolderAnsweredCode, Grows, TypeInv, TypeOK

LEMMA IdleBacked == ASSUME NEW adr, NEW ans, NEW hol, NEW was
                    PROVE  Backed(Idle, adr, ans, hol, was)
BY DEF Backed, Idle

LEMMA HolderNext == TypeInv /\ HolderInv /\ [Next]_vars => HolderInv'
<1> SUFFICES ASSUME TypeInv, HolderInv, [Next]_vars PROVE HolderInv'
  OBVIOUS
<1>g. Grows
  BY HistoryGrows
<1>t. /\ req \in [Requests -> Request]
      /\ redis \in [Challenges -> Entry \cup {Nil}]
      /\ addressed \in [Challenges -> SUBSET Users]
      /\ \A r \in Requests : Shape(req[r])
      /\ holders \subseteq Users /\ wasVerified \subseteq Users
  BY DEF TypeInv, TypeOK
<1>h. /\ \A c \in Challenges :
           redis[c] # Nil => redis[c].payload.uids = addressed[c] /\ addressed[c] # {}
      /\ \A r \in Requests : Backed(req[r], addressed, answered, holders, wasVerified)
      /\ \A u \in Users : users[u] = "verified" => u \in wasVerified
      /\ HolderAnsweredCode
  BY DEF HolderInv
\* Keys kept or dropped, whatever the histories add.
<1>k. ASSUME \A c \in Challenges : redis'[c] \in {redis[c], Nil}
      PROVE  \A c \in Challenges : redis'[c] # Nil =>
               redis'[c].payload.uids = addressed'[c] /\ addressed'[c] # {}
  BY <1>g, <1>h, <1>k DEF Grows
\* A step that commits nothing and keeps or drops keys.
<1>1. ASSUME NEW r \in Requests, NEW f \in Request, Goto(r, f),
             Backed(f, addressed', answered', holders', wasVerified'),
             \A c \in Challenges : redis'[c] \in {redis[c], Nil},
             UNCHANGED <<users, holders, wasVerified>>
      PROVE  HolderInv'
  BY <1>1, <1>g, <1>h, <1>k, HoldersStay, HolderStep
<1>2. ASSUME NEW r \in Requests, NEW c \in Challenges, NEW m \in Mobiles, SendOtp(r, c, m)
      PROVE  HolderInv'
  <2>1. PICK f : f = [Idle EXCEPT !.pc = "setex", !.chal = c,
                                  !.payload = NewPayload(ListByMobile(m))]
    OBVIOUS
  <2>2. /\ f.pc = "setex" /\ f.chal = c /\ ~f.tokens
        /\ f.payload = [uids |-> ListByMobile(m), attempts |-> 0]
    BY <2>1 DEF Idle, NewPayload
  <2>3. Goto(r, f) /\ UNCHANGED <<users, redis, holders, wasVerified>>
    BY <1>2, <2>1 DEF SendOtp
  <2>4. addressed'[c] = ListByMobile(m) /\ ListByMobile(m) # {}
    BY <1>2, <1>t DEF SendOtp, ListByMobile
  <2>5. ListByMobile(m) \in SUBSET Users
    BY DEF ListByMobile
  <2>6. f \in Request
    BY <2>1, <2>5, IdleShape, NilAssumption DEF Idle, Request, Phase, NewPayload, Payload
  <2>7. Backed(f, addressed', answered', holders', wasVerified')
    BY <2>2, <2>4 DEF Backed
  <2> QED
    BY <1>1, <2>3, <2>6, <2>7
<1>3. ASSUME NEW r \in Requests, StoreChallenge(r)
      PROVE  HolderInv'
  <2> DEFINE c == req[r].chal
  <2>1. /\ c \in Challenges /\ c # Nil
        /\ redis' = [redis EXCEPT ![c] = [payload |-> req[r].payload, ttl |-> TRUE]]
        /\ Goto(r, Idle) /\ UNCHANGED <<users, holders, history>>
    BY <1>3, <1>t, NilAssumption DEF StoreChallenge, Shape, Done
  <2>2. req[r].payload.uids = addressed[c] /\ addressed[c] # {}
    BY <1>h, <2>1 DEF Backed
  <2>3. \A d \in Challenges : redis'[d] # Nil =>
          redis'[d].payload.uids = addressed'[d] /\ addressed'[d] # {}
    BY <1>t, <1>h, <2>1, <2>2 DEF history
  <2> QED
    BY <1>g, <1>h, <2>1, <2>3, IdleBacked, IdleShape, HoldersStay, HolderStep DEF history
<1>4. ASSUME NEW r \in Requests, NEW c \in Challenges, NEW right \in BOOLEAN,
             VerifyOtp(r, c, right)
      PROVE  HolderInv'
  <2> DEFINE p == redis[c].payload
  <2>1. PICK f : f = [Idle EXCEPT !.pc = Verdict(p, right), !.chal = c, !.payload = p]
    OBVIOUS
  <2>2. f.pc = Verdict(p, right) /\ f.chal = c /\ f.payload = p /\ f.tokens = FALSE
        /\ f.user = Nil /\ f.target = Nil
    BY <2>1 DEF Idle
  <2>3. /\ Goto(r, f) /\ UNCHANGED <<users, redis, holders, addressed, wasVerified>>
        /\ redis[c] # Nil /\ p \in Payload
        /\ right => c \in answered'
    BY <1>4, <1>t, <2>1 DEF VerifyOtp, Entry
  <2>4. Verdict(p, right) \in {"burn", "count", "load"}
    BY DEF Verdict
  <2>5. f \in Request
    BY <2>1, <2>3, <2>4, IdleShape, NilAssumption DEF Idle, Request, Phase
  <2>6. p.uids = addressed[c] /\ addressed[c] # {} /\ addressed[c] \in SUBSET Users
    BY <1>h, <1>t, <2>3
  <2>7. ASSUME f.pc = "load" PROVE c \in answered' /\ \E u \in Users : addressed[c] = {u}
    <3>1. right /\ ~Ambiguous(p)
      BY <2>2, <2>7 DEF Verdict
    <3>2. Cardinality(addressed[c]) = 1 /\ IsFiniteSet(addressed[c])
      BY <2>6, <3>1, ModelAssumption, FS_Subset DEF Ambiguous
    <3>3. \E u : addressed[c] = {u}
      BY <3>2, FS_Singleton
    <3> QED
      BY <2>3, <2>6, <3>1, <3>3
  <2>8. Backed(f, addressed', answered', holders', wasVerified')
    BY <2>2, <2>3, <2>6, <2>7 DEF Backed
  <2> QED
    BY <1>1, <2>3, <2>5, <2>8
<1>5. ASSUME NEW r \in Requests, CountAttempt(r)
      PROVE  HolderInv'
  <2> DEFINE c == req[r].chal
             e == [payload |-> Counted(req[r].payload), ttl |-> KeepTtl(redis[c])]
  <2>1. /\ c \in Challenges /\ c # Nil /\ req[r].payload \in Payload
        /\ redis' = [redis EXCEPT ![c] = e]
        /\ Goto(r, Idle) /\ UNCHANGED <<users, holders, addressed, wasVerified>>
    BY <1>5, <1>t, NilAssumption DEF CountAttempt, Shape, Done
  <2>2. e.payload.uids = addressed[c] /\ addressed[c] # {}
    BY <1>h, <2>1 DEF Backed, Counted, Payload
  <2> HIDE DEF e
  <2>3. \A d \in Challenges : redis'[d] # Nil =>
          redis'[d].payload.uids = addressed'[d] /\ addressed'[d] # {}
    BY <1>t, <1>h, <2>1, <2>2
  <2> QED
    BY <1>g, <1>h, <2>1, <2>3, IdleBacked, IdleShape, HoldersStay, HolderStep
<1>6. ASSUME NEW r \in Requests, BurnAndReject(r)
      PROVE  HolderInv'
  <2>1. Goto(r, Idle) /\ UNCHANGED <<users, holders, wasVerified>>
        /\ \A c \in Challenges : redis'[c] \in {redis[c], Nil}
    BY <1>6, <1>t DEF BurnAndReject, Done
  <2> QED
    BY <1>1, <2>1, IdleBacked, IdleShape
<1>7. ASSUME NEW r \in Requests, LoadUser(r)
      PROVE  HolderInv'
  <2> DEFINE q == req[r]
  <2>1. PICK f \in Request : /\ Goto(r, f)
                             /\ f = [q EXCEPT !.pc = "burn"] \/ f = Idle \/ Loaded(q, f)
    BY <1>7, LoadUserOutcome
  <2>2. q \in Request /\ q.pc = "load" /\ q.chal \in Challenges /\ q.chal # Nil
        /\ q.tokens = FALSE
    BY <1>7, <1>t, NilAssumption DEF LoadUser, Shape, Request
  <2>3. UNCHANGED <<users, redis, holders, addressed, answered, wasVerified>>
    BY <1>7 DEF LoadUser, history
  <2>4. Backed(q, addressed, answered, holders, wasVerified)
    BY <1>h
  <2>5. Backed(f, addressed, answered, holders, wasVerified)
    <3>1. CASE f = [q EXCEPT !.pc = "burn"]
      <4>1. f.pc = "burn" /\ f.chal = q.chal /\ f.payload = q.payload /\ ~f.tokens
        BY <2>2, <3>1 DEF Request
      <4> QED
        BY <2>4, <4>1 DEF Backed
    <3>2. CASE f = Idle
      BY <3>2, IdleBacked
    <3>3. CASE Loaded(q, f)
      BY <1>h, <2>2, <2>4, <3>3 DEF Loaded, Backed
    <3> QED
      BY <2>1, <3>1, <3>2, <3>3
  <2> QED
    BY <1>1, <2>1, <2>3, <2>5
<1>8. ASSUME NEW r \in Requests, BurnAndAccept(r)
      PROVE  HolderInv'
  <2> DEFINE q == req[r]
  <2>1. PICK f : f = [q EXCEPT !.pc = "commit"]
    OBVIOUS
  <2>2. /\ f \in Request /\ f.pc = "commit"
        /\ f.chal = q.chal /\ f.payload = q.payload /\ f.user = q.user
        /\ f.target = q.target /\ f.tokens = q.tokens
    BY <1>t, <2>1 DEF Request, Phase
  <2>3. /\ Goto(r, f)
        /\ UNCHANGED <<users, holders, addressed, answered, wasVerified>>
        /\ \A c \in Challenges : redis'[c] \in {redis[c], Nil}
    BY <1>8, <1>t, <2>1 DEF BurnAndAccept
  <2>4. Backed(f, addressed, answered, holders, wasVerified)
    BY <1>h, <2>2 DEF Backed
  <2> QED
    BY <1>1, <2>2, <2>3, <2>4
<1>9. ASSUME NEW r \in Requests, NEW u \in Users, Refresh(r, u)
      PROVE  HolderInv'
  <2>1. PICK f : f = [Idle EXCEPT !.pc = "commit", !.user = u, !.tokens = TRUE]
    OBVIOUS
  <2>2. f \in Request /\ f.pc = "commit" /\ f.chal = Nil /\ f.user = u /\ f.target = Nil
    BY <2>1, IdleShape, NilAssumption DEF Idle, Request, Phase
  <2>3. Goto(r, f) /\ UNCHANGED <<users, redis, holders, history>>
        /\ u \in holders /\ users[u] = "verified"
    BY <1>9, <2>1 DEF Refresh
  <2>4. Backed(f, addressed, answered, holders, wasVerified)
    BY <1>h, <2>2, <2>3 DEF Backed
  <2> QED
    BY <1>1, <2>2, <2>3, <2>4 DEF history
<1>10. ASSUME NEW r \in Requests, Provision(r)
       PROVE  HolderInv'
  <2>1. PICK u \in Users, s \in Row :
          /\ Goto(r, [Idle EXCEPT !.pc = "flush", !.user = u, !.target = s])
          /\ UNCHANGED <<users, redis, holders, history>>
    BY <1>10 DEF Provision, CreateUser, UpdateUser, DeleteUser, Row
  <2>2. PICK f : f = [Idle EXCEPT !.pc = "flush", !.user = u, !.target = s]
    OBVIOUS
  <2>3. f \in Request /\ f.pc = "flush" /\ f.chal = Nil /\ ~f.tokens
    BY <2>2, IdleShape, NilAssumption DEF Idle, Request, Phase
  <2>4. Backed(f, addressed, answered, holders, wasVerified)
    BY <2>3 DEF Backed
  <2> QED
    BY <1>1, <2>1, <2>2, <2>3, <2>4 DEF history
<1>11. ASSUME NEW r \in Requests, FlushRow(r)
       PROVE  HolderInv'
  <2> DEFINE q == req[r]
  <2>1. UNCHANGED <<users, redis, holders, history>>
    BY <1>11 DEF FlushRow
  <2>2. CASE Done(r)
    BY <1>1, <2>1, <2>2, IdleBacked, IdleShape DEF Done, history
  <2>3. ASSUME NEW pc \in {"commit", "accept"}, Goto(r, [q EXCEPT !.pc = pc])
        PROVE  HolderInv'
    <3>1. PICK f : f = [q EXCEPT !.pc = pc]
      OBVIOUS
    <3>2. /\ f \in Request /\ f.pc = pc
          /\ f.chal = q.chal /\ f.payload = q.payload /\ f.user = q.user
          /\ f.target = q.target /\ f.tokens = q.tokens
      BY <1>t, <3>1 DEF Request, Phase
    <3>3. Backed(f, addressed, answered, holders, wasVerified)
      BY <1>h, <3>2 DEF Backed
    <3> QED
      BY <1>1, <2>1, <2>3, <3>1, <3>2, <3>3 DEF history
  <2> QED
    BY <1>11, <2>2, <2>3 DEF FlushRow
<1>12. ASSUME NEW r \in Requests, Commit(r) \/ CommitUnheard(r)
       PROVE  HolderInv'
  <2> DEFINE q == req[r]
  <2>1. /\ Goto(r, Idle) /\ UNCHANGED <<redis, addressed, answered>>
        /\ q.user \in Users
        /\ holders' = holders \/ (q.tokens /\ holders' = holders \cup {q.user})
        /\ users' = IF q.target = Nil THEN users ELSE [users EXCEPT ![q.user] = q.target]
        /\ wasVerified' = wasVerified \cup {u \in Users : users'[u] = "verified"}
    BY <1>12, <1>t DEF Commit, CommitUnheard, CommitRow, Done, Shape
  <2>2. Backed(q, addressed, answered, holders, wasVerified)
    BY <1>h
  <2>3. ASSUME q.tokens
        PROVE  q.user \in wasVerified' /\ \E c \in answered : addressed[c] = {q.user}
    <3>1. q.user \in wasVerified'
      <4>1. CASE q.target = Nil
        BY <2>1, <2>2, <2>3, <4>1, NilAssumption DEF Backed, Row, Auth
      <4>2. CASE q.target = "verified"
        <5>1. users'[q.user] = "verified"
          BY <2>1, <4>2, NilAssumption DEF TypeInv, TypeOK, Row, Auth
        <5> QED
          BY <2>1, <5>1
      <4> QED
        BY <2>2, <2>3, <4>1, <4>2 DEF Backed
    <3>2. \E c \in answered : addressed[c] = {q.user}
      BY <1>h, <2>2, <2>3 DEF Backed, HolderAnsweredCode
    <3> QED
      BY <3>1, <3>2
  <2>4. HolderAnsweredCode'
    BY <1>h, <2>1, <2>3 DEF HolderAnsweredCode
  <2>5. \A u \in Users : users'[u] = "verified" => u \in wasVerified'
    BY <2>1
  <2>6. \A c \in Challenges : redis'[c] # Nil =>
          redis'[c].payload.uids = addressed'[c] /\ addressed'[c] # {}
    BY <1>h, <2>1
  <2> QED
    BY <1>g, <2>1, <2>4, <2>5, <2>6, IdleBacked, IdleShape, HolderStep
<1>13. ASSUME NEW r \in Requests, Fail(r)
       PROVE  HolderInv'
  BY <1>1, <1>13, IdleBacked, IdleShape DEF Fail, Done, history
<1>14. ASSUME NEW c \in Challenges, Expire(c)
       PROVE  HolderInv'
  BY <1>14, <1>t DEF Expire, history, HolderInv, HolderAnsweredCode
<1>15. CASE UNCHANGED vars
  BY <1>15 DEF vars, history, HolderInv, HolderAnsweredCode
<1> QED
  BY <1>2, <1>3, <1>4, <1>5, <1>6, <1>7, <1>8, <1>9, <1>10, <1>11, <1>12, <1>13,
     <1>14, <1>15 DEF Next, Login, Handle, Refuse

(* A TokenPair is only ever held by a user who alone was sent a challenge, *)
(* whose right code was presented, and whose row was committed VERIFIED:   *)
(* through any overlap of verify_otp, refresh, revocation and deletion.    *)
THEOREM TokensAreEarned == Spec => []HolderAnsweredCode
<1>1. Init => HolderInv
  BY IdleBacked DEF Init, HolderInv, HolderAnsweredCode
<1>2. Spec => [](TypeInv /\ HolderInv)
  BY <1>1, TypeInit, TypeNext, HolderNext, PTL DEF Spec
<1>3. HolderInv => HolderAnsweredCode
  BY DEF HolderInv
<1> QED
  BY <1>2, <1>3, PTL

-----------------------------------------------------------------------------
(* Rows: the unique key, and deletion.                                     *)

(* A session that has flushed a row may commit it: no other has flushed a  *)
(* row of the community, the row is not one that has been deleted, and no  *)
(* other row has come to hold its key.                                     *)
MayCommit(q, rows) ==
  /\ rows[q.user] = "deleted" => q.target = "deleted"
  /\ q.target \in Auth =>
       \A v \in Users : /\ rows[v] \in Auth
                        /\ MobileOf[v] = MobileOf[q.user]
                        /\ CommunityOf[v] = CommunityOf[q.user]
                        => v = q.user

RowsInv ==
  /\ UniqueMobile
  /\ \A r, o \in Requests : r # o /\ Writer(req[r]) /\ Writer(req[o]) =>
                              CommunityOf[req[r].user] # CommunityOf[req[o].user]
  /\ \A r \in Requests : Writer(req[r]) => MayCommit(req[r], users)

(* A step that flushes and commits nothing.                                *)
Quiet ==
  /\ users' = users
  /\ \A o \in Requests : Writer(req'[o]) =>
       Writer(req[o]) /\ req'[o].user = req[o].user /\ req'[o].target = req[o].target

LEMMA QuietStep ==
  ASSUME TypeInv, [Next]_vars
  PROVE  Quiet \/ \E r \in Requests : FlushRow(r) \/ Commit(r) \/ CommitUnheard(r)
<1>t. req \in [Requests -> Request] /\ \A r \in Requests : Shape(req[r])
  BY DEF TypeInv, TypeOK
<1>i. ~Writer(Idle)
  BY DEF Writer, Idle
<1>1. ASSUME NEW r \in Requests, NEW f, Goto(r, f), ~Writer(f), users' = users PROVE Quiet
  BY <1>t, <1>1 DEF Quiet, Goto
<1>2. ASSUME NEW r \in Requests, Login(r) PROVE Quiet
  <2>1. ASSUME NEW c \in Challenges, NEW m \in Mobiles, SendOtp(r, c, m) PROVE Quiet
    BY <1>t, <2>1 DEF SendOtp, Goto, Quiet, Writer, Idle
  <2>2. ASSUME NEW c \in Challenges, NEW right \in BOOLEAN, VerifyOtp(r, c, right) PROVE Quiet
    BY <1>t, <2>2 DEF VerifyOtp, Goto, Quiet, Writer, Idle
  <2>3. ASSUME NEW u \in Users, Refresh(r, u) PROVE Quiet
    BY <1>t, <2>3 DEF Refresh, Goto, Quiet, Writer, Idle
  <2>4. CASE Refuse(r)
    BY <2>4 DEF Refuse, vars, Quiet, Writer
  <2> QED
    BY <1>2, <2>1, <2>2, <2>3, <2>4 DEF Login
<1>3. ASSUME NEW r \in Requests, Provision(r) PROVE Quiet
  BY <1>t, <1>3 DEF Provision, CreateUser, UpdateUser, DeleteUser, Goto, Quiet, Writer, Idle
<1>4. ASSUME NEW r \in Requests,
             StoreChallenge(r) \/ CountAttempt(r) \/ BurnAndReject(r) \/ Fail(r)
      PROVE  Quiet
  BY <1>1, <1>4, <1>i DEF StoreChallenge, CountAttempt, BurnAndReject, Fail, Done
<1>5. ASSUME NEW r \in Requests, LoadUser(r) PROVE Quiet
  <2>1. PICK f \in Request : /\ Goto(r, f)
                             /\ \/ f = [req[r] EXCEPT !.pc = "burn"]
                                \/ f = Idle
                                \/ Loaded(req[r], f)
    BY <1>5, LoadUserOutcome
  <2>2. CASE f = [req[r] EXCEPT !.pc = "burn"]
    <3>1. f.pc = "burn"
      BY <1>t, <2>2 DEF Request
    <3> QED
      BY <1>1, <1>5, <2>1, <3>1 DEF LoadUser, Writer
  <2>3. CASE f = Idle \/ Loaded(req[r], f)
    BY <1>1, <1>5, <1>i, <2>1, <2>3 DEF LoadUser, Loaded, Writer
  <2> QED
    BY <2>1, <2>2, <2>3
<1>6. ASSUME NEW r \in Requests, BurnAndAccept(r) PROVE Quiet
  <2>1. req' = [req EXCEPT ![r] = [req[r] EXCEPT !.pc = "commit"]] /\ users' = users
        /\ req[r].pc = "accept"
    BY <1>6 DEF BurnAndAccept, Goto
  <2>2. /\ req'[r].user = req[r].user /\ req'[r].target = req[r].target
        /\ \A o \in Requests \ {r} : req'[o] = req[o]
    BY <1>t, <2>1 DEF Request
  <2>3. Writer(req'[r]) => Writer(req[r])
    BY <2>1, <2>2 DEF Writer
  <2> QED
    BY <2>1, <2>2, <2>3 DEF Quiet
<1>7. ASSUME NEW c \in Challenges, Expire(c) PROVE Quiet
  BY <1>7 DEF Expire, Quiet
<1>8. CASE UNCHANGED vars
  BY <1>8 DEF vars, Quiet
<1> QED
  BY <1>2, <1>3, <1>4, <1>5, <1>6, <1>7, <1>8 DEF Next, Handle

LEMMA RowsNext == TypeInv /\ RowsInv /\ [Next]_vars => RowsInv'
<1> SUFFICES ASSUME TypeInv, RowsInv, [Next]_vars PROVE RowsInv'
  OBVIOUS
<1>t. /\ req \in [Requests -> Request]
      /\ users \in [Users -> Row]
      /\ \A r \in Requests : Shape(req[r])
  BY DEF TypeInv, TypeOK
<1>1. CASE Quiet
  <2>1. UniqueMobile'
    BY <1>1 DEF Quiet, RowsInv, UniqueMobile, Exists
  <2>2. ASSUME NEW r \in Requests, Writer(req'[r]) PROVE MayCommit(req'[r], users')
    BY <1>1, <2>2 DEF Quiet, RowsInv, MayCommit
  <2> QED
    BY <1>1, <2>1, <2>2 DEF Quiet, RowsInv, Writer
<1>2. ASSUME NEW r \in Requests, FlushRow(r) PROVE RowsInv'
  <2> DEFINE q == req[r]
  <2>1. users' = users /\ q.user \in Users /\ q.target \in Row /\ LockFree(r, q.user)
        /\ \A o \in Requests \ {r} : req'[o] = req[o]
    BY <1>2, <1>t DEF FlushRow, Shape, Done, Goto, history
  <2>2. ASSUME Writer(req'[r])
        PROVE  Lands(q.user, q.target) /\ req'[r].user = q.user /\ req'[r].target = q.target
    BY <1>2, <1>t, <2>2 DEF FlushRow, Done, Goto, Idle, Writer, Request
  <2>3. ASSUME Lands(q.user, q.target) PROVE MayCommit(q, users)
    <3>1. CASE q.target = "deleted"
      BY <3>1 DEF MayCommit, Auth
    <3>2. CASE q.target # "deleted" /\ users[q.user] = "unborn"
      <4>1. ~Taken(q.user)
        BY <2>3, <3>2 DEF Lands
      <4> QED
        BY <3>2, <4>1 DEF MayCommit, Taken, ListByMobile, Exists, Auth
    <3>3. CASE q.target # "deleted" /\ users[q.user] # "unborn"
      <4>1. Exists(q.user)
        BY <2>3, <3>3 DEF Lands
      <4> QED
        BY <2>1, <4>1 DEF MayCommit, Exists, Auth, RowsInv, UniqueMobile
    <3> QED
      BY <3>1, <3>2, <3>3
  <2>4. UniqueMobile'
    BY <2>1 DEF RowsInv, UniqueMobile, Exists
  <2>5. \A o \in Requests : Writer(req'[o]) => MayCommit(req'[o], users')
    BY <2>1, <2>2, <2>3 DEF RowsInv, MayCommit
  <2>6. \A o, p \in Requests : o # p /\ Writer(req'[o]) /\ Writer(req'[p]) =>
                                 CommunityOf[req'[o].user] # CommunityOf[req'[p].user]
    BY <2>1, <2>2 DEF RowsInv, LockFree
  <2> QED
    BY <2>4, <2>5, <2>6 DEF RowsInv, Writer
<1>3. ASSUME NEW r \in Requests, Commit(r) \/ CommitUnheard(r) PROVE RowsInv'
  <2> DEFINE q == req[r]
  <2>1. /\ req' = [req EXCEPT ![r] = Idle]
        /\ q.pc = "commit" /\ q.user \in Users /\ q.target \in Row \cup {Nil}
        /\ users' = IF q.target = Nil THEN users ELSE [users EXCEPT ![q.user] = q.target]
    BY <1>3, <1>t DEF Commit, CommitUnheard, CommitRow, Done, Goto, Shape, Request
  <2>2. ~Writer(req'[r]) /\ \A o \in Requests \ {r} : req'[o] = req[o]
    BY <1>t, <2>1 DEF Writer, Idle
  <2>3. \A o, p \in Requests : o # p /\ Writer(req'[o]) /\ Writer(req'[p]) =>
                                 CommunityOf[req'[o].user] # CommunityOf[req'[p].user]
    BY <2>2 DEF RowsInv
  <2>4. CASE q.target = Nil
    BY <2>1, <2>2, <2>3, <2>4 DEF RowsInv, UniqueMobile, Exists, MayCommit, Writer
  <2>5. CASE q.target # Nil
    <3>1. Writer(q) /\ MayCommit(q, users)
      BY <2>1, <2>5 DEF Writer, RowsInv
    <3>2. \A u \in Users : users'[u] = IF u = q.user THEN q.target ELSE users[u]
      BY <1>t, <2>1, <2>5
    <3>3. UniqueMobile'
      BY <2>1, <3>1, <3>2 DEF MayCommit, UniqueMobile, RowsInv, Exists
    <3>4. ASSUME NEW o \in Requests, Writer(req'[o]) PROVE MayCommit(req'[o], users')
      <4>1. o # r /\ req'[o] = req[o] /\ Writer(req[o]) /\ req[o].user \in Users
        BY <1>t, <2>2, <3>4 DEF Shape, Writer
      <4>2. CommunityOf[req[o].user] # CommunityOf[q.user] /\ MayCommit(req[o], users)
        BY <3>1, <4>1 DEF RowsInv
      <4> QED
        BY <3>2, <4>1, <4>2 DEF MayCommit
    <3> QED
      BY <2>3, <3>3, <3>4 DEF RowsInv, Writer
  <2> QED
    BY <2>4, <2>5
<1> QED
  BY <1>1, <1>2, <1>3, QuietStep

LEMMA RowsAlways == Spec => [](TypeInv /\ RowsInv)
<1>1. Init => RowsInv
  BY DEF Init, RowsInv, UniqueMobile, Exists, Auth, Writer, Idle
<1> QED
  BY <1>1, TypeInit, TypeNext, RowsNext, PTL DEF Spec

(* The unique (community_id, mobile): a creation cannot slip past the      *)
(* check of another that has not committed.                                *)
THEOREM MobileStaysUnique == Spec => []UniqueMobile
<1>1. RowsInv => UniqueMobile
  BY DEF RowsInv
<1> QED
  BY <1>1, RowsAlways, PTL

(* A user deleted while a login or an update of the same row is under way  *)
(* stays deleted.                                                          *)
THEOREM DeletionIsFinal == Spec => DeletedStaysDeleted
<1>1. TypeInv /\ RowsInv /\ [Next]_vars =>
        [\A u \in Users : users[u] = "deleted" => users'[u] = "deleted"]_vars
  <2> SUFFICES ASSUME TypeInv, RowsInv, [Next]_vars, NEW u \in Users, users[u] = "deleted"
               PROVE  users'[u] = "deleted"
    OBVIOUS
  <2>t. users \in [Users -> Row] /\ \A r \in Requests : Shape(req[r])
    BY DEF TypeInv, TypeOK
  <2>1. CASE Quiet
    BY <2>1 DEF Quiet
  <2>2. ASSUME NEW r \in Requests, FlushRow(r) PROVE users'[u] = "deleted"
    BY <2>2 DEF FlushRow
  <2>3. ASSUME NEW r \in Requests, Commit(r) \/ CommitUnheard(r)
        PROVE  users'[u] = "deleted"
    <3> DEFINE q == req[r]
    <3>1. /\ q.pc = "commit" /\ q.user \in Users
          /\ users' = IF q.target = Nil THEN users ELSE [users EXCEPT ![q.user] = q.target]
      BY <2>3, <2>t DEF Commit, CommitUnheard, CommitRow, Shape
    <3>2. q.target # Nil /\ users[q.user] = "deleted" => q.target = "deleted"
      BY <3>1 DEF RowsInv, MayCommit, Writer
    <3> QED
      BY <2>t, <3>1, <3>2
  <2> QED
    BY <2>1, <2>2, <2>3, QuietStep
<1> QED
  BY <1>1, RowsAlways, PTL DEF DeletedStaysDeleted, Spec
=============================================================================
