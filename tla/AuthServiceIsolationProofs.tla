--------------------- MODULE AuthServiceIsolationProofs ---------------------
(***************************************************************************)
(* What verify_otp promises holds for overlapping requests too, any number *)
(* of them, as long as no two work on one challenge at a time, and none    *)
(* changes a row that another has loaded: with failures, lost answers and  *)
(* expiries between any two awaits (one theorem, on the expiry itself, has *)
(* to rule one of those out).  A lock per challenge and one per row would  *)
(* make it so; the code has neither.                                       *)
(***************************************************************************)
EXTENDS AuthServiceSequential, AuthServiceProofs

\* The hypotheses: requests overlap, but not on one challenge or not on one
\* user from the load of the row to the commit.
OnePerChallenge ==
  \A r, s \in Requests : r # s /\ req[r].chal # Nil => req[s].chal # req[r].chal
OnePerUser ==
  \A r, s \in Requests : r # s /\ req[r].user # Nil => req[s].user # req[r].user

(* One request at a time, as the sequential run has it, is a special case. *)
LEMMA AloneIsIsolated ==
  ASSUME \A r, s \in Requests : r = s PROVE [](OnePerChallenge /\ OnePerUser)
<1>1. OnePerChallenge /\ OnePerUser
  BY DEF OnePerChallenge, OnePerUser
<1> QED
  BY <1>1, PTL

-----------------------------------------------------------------------------
(* One request per challenge.                                              *)

\* The request works on a challenge and has not been refused by the cap.
Trying(q) == q.pc \in {"count", "load", "accept"} \/ (q.pc = "flush" /\ q.chal # Nil)

\* What a request knows of its challenge is still so: nobody else has
\* counted, burned or exchanged it.
Current(q) ==
  /\ Trying(q) \/ q.pc \in {"setex", "burn"} =>
       /\ addressed[q.chal] # {}
       /\ fate[q.chal] = "open"
       /\ q.payload.attempts = guesses[q.chal]
  /\ Trying(q) => guesses[q.chal] < MaxAttempts
  /\ q.pc = "commit" /\ q.chal # Nil => fate[q.chal] = "accepted" /\ grants[q.chal] = 0

Kept ==
  \A c \in Challenges :
    /\ redis[c] # Nil =>
         addressed[c] # {} /\ fate[c] = "open" /\ redis[c].payload.attempts = guesses[c]
    /\ addressed[c] = {} => fate[c] = "open" /\ guesses[c] = 0 /\ grants[c] = 0
    /\ guesses[c] <= MaxAttempts
    /\ grants[c] <= 1
    /\ fate[c] # "accepted" => grants[c] = 0

SeqInv == Kept /\ \A r \in Requests : Current(req[r])

LEMMA SeqInit == Init => SeqInv
BY ModelAssumption DEF Init, SeqInv, Kept, Current, Trying, Idle

\* What others hold stays current, as a step changes no challenge but its
\* request's; only what the request holds now has to be looked at.
LEMMA OthersCurrent ==
  ASSUME OnePerChallenge, TypeInv, SeqInv, [Next]_vars,
         NEW r \in Requests, NEW f, Goto(r, f), Current(f)',
         \A c \in Challenges : req[r].chal # c =>
           guesses'[c] = guesses[c] /\ fate'[c] = fate[c] /\ grants'[c] = grants[c]
  PROVE  \A o \in Requests : Current(req[o])'
<1>1. /\ req'[r] = f /\ req \in [Requests -> Request]
      /\ \A o \in Requests \ {r} : req'[o] = req[o]
  BY DEF TypeInv, TypeOK, Goto
<1>2. ASSUME NEW o \in Requests \ {r} PROVE Current(req[o])'
  <2>1. PICK q \in Request : q = req[o] /\ req'[o] = q /\ Current(q) /\ Shape(q)
    BY <1>1 DEF SeqInv, TypeInv
  <2>2. q.chal \in Challenges \cup {Nil} /\ (q.chal # Nil => req[r].chal # q.chal)
    BY <2>1 DEF OnePerChallenge, Request
  <2>3. q.chal \in Challenges =>
          /\ guesses'[q.chal] = guesses[q.chal] /\ fate'[q.chal] = fate[q.chal]
          /\ grants'[q.chal] = grants[q.chal]
          /\ addressed[q.chal] # {} => addressed'[q.chal] # {}
    BY <2>2, NilAssumption, HistoryGrows DEF Grows
  <2>4. Trying(q) \/ q.pc \in {"setex", "burn"} => q.chal \in Challenges
    BY <2>1, <2>2 DEF Trying, Shape
  <2>5. Current(q)'
    BY <2>1, <2>2, <2>3, <2>4 DEF Current, Trying
  <2> QED
    BY <2>1, <2>5 DEF Current, Trying
<1>3. PICK g : g = f
  OBVIOUS
<1>4. Current(g)'
  BY <1>3 DEF Current, Trying
<1>5. Current(req[r])'
  BY <1>1, <1>3, <1>4 DEF Current, Trying
<1> QED
  BY <1>2, <1>5

\* A request that ends.
LEMMA DoneCurrent ==
  ASSUME OnePerChallenge, TypeInv, SeqInv, [Next]_vars,
         NEW r \in Requests, Done(r),
         \A c \in Challenges : req[r].chal # c =>
           guesses'[c] = guesses[c] /\ fate'[c] = fate[c] /\ grants'[c] = grants[c]
  PROVE  \A o \in Requests : Current(req[o])'
<1>1. Current(Idle)'
  BY DEF Current, Trying, Idle
<1> QED
  BY <1>1, OthersCurrent DEF Done

(* Every step keeps SeqInv.                                                *)
LEMMA SeqNext == OnePerChallenge /\ TypeInv /\ SeqInv /\ [Next]_vars => SeqInv'
<1> SUFFICES ASSUME OnePerChallenge, TypeInv, SeqInv, [Next]_vars PROVE SeqInv'
  OBVIOUS
<1>t. /\ req \in [Requests -> Request]
      /\ redis \in [Challenges -> Entry \cup {Nil}]
      /\ users \in [Users -> Row]
      /\ addressed \in [Challenges -> SUBSET Users]
      /\ guesses \in [Challenges -> Nat] /\ grants \in [Challenges -> Nat]
      /\ fate \in [Challenges -> Fate]
      /\ \A r \in Requests : Shape(req[r])
      /\ MaxAttempts \in Nat /\ Nil \notin Challenges
  BY ModelAssumption, NilAssumption DEF TypeInv, TypeOK
\* Neither Redis nor the record of challenges changes.
<1>k. ASSUME UNCHANGED <<redis, addressed, guesses, grants, fate>>
      PROVE  Kept'
  BY <1>k DEF SeqInv, Kept
<1>1. ASSUME NEW r \in Requests, NEW c \in Challenges, NEW m \in Mobiles, SendOtp(r, c, m)
      PROVE  SeqInv'
  <2> DEFINE p == NewPayload(ListByMobile(m))
             f == [Idle EXCEPT !.pc = "setex", !.chal = c, !.payload = p]
  <2>1. f.pc = "setex" /\ f.chal = c /\ f.payload = p /\ p.attempts = 0
    BY DEF Idle, NewPayload
  <2>2. /\ Goto(r, f) /\ addressed[c] = {}
        /\ addressed' = [addressed EXCEPT ![c] = ListByMobile(m)] /\ ListByMobile(m) # {}
        /\ UNCHANGED <<redis, guesses, grants, fate>>
    BY <1>1 DEF SendOtp, ListByMobile
  <2> HIDE DEF f, p
  <2>4. addressed'[c] # {} /\ fate[c] = "open" /\ guesses[c] = 0
        /\ \A d \in Challenges \ {c} : addressed'[d] = addressed[d]
    BY <1>t, <2>2 DEF SeqInv, Kept
  <2>5. Kept'
    BY <1>t, <2>2, <2>4 DEF SeqInv, Kept
  <2>6. PICK g : g = f
    OBVIOUS
  <2>7. Current(g)'
    BY <2>1, <2>2, <2>4, <2>6 DEF Current, Trying
  <2> QED
    BY <2>2, <2>5, <2>6, <2>7, OthersCurrent DEF SeqInv
<1>2. ASSUME NEW r \in Requests, StoreChallenge(r)
      PROVE  SeqInv'
  <2> DEFINE c == req[r].chal
  <2>1. /\ c \in Challenges /\ addressed[c] # {} /\ fate[c] = "open"
        /\ req[r].payload.attempts = guesses[c]
    BY <1>t, <1>2 DEF StoreChallenge, Shape, SeqInv, Current
  <2>2. /\ redis' = [redis EXCEPT ![c] = [payload |-> req[r].payload, ttl |-> TRUE]]
        /\ UNCHANGED <<addressed, guesses, grants, fate>> /\ Done(r)
    BY <1>2 DEF StoreChallenge, history
  <2> HIDE DEF c
  <2>3. Kept'
    BY <1>t, <2>1, <2>2 DEF SeqInv, Kept
  <2> QED
    BY <2>2, <2>3, DoneCurrent DEF SeqInv
<1>3. ASSUME NEW r \in Requests, NEW c \in Challenges, NEW right \in BOOLEAN,
             VerifyOtp(r, c, right)
      PROVE  SeqInv'
  <2> DEFINE p == redis[c].payload
             f == [Idle EXCEPT !.pc = Verdict(p, right), !.chal = c, !.payload = p]
  <2>1. /\ Verdict(p, right) \in {"burn", "count", "load"}
        /\ Verdict(p, right) # "burn" => ~AtCap(p)
    BY DEF Verdict
  <2>2. f.pc = Verdict(p, right) /\ f.chal = c /\ f.payload = p
    BY DEF Idle
  <2>3. Goto(r, f) /\ redis[c] # Nil /\ UNCHANGED <<users, redis, addressed, guesses, grants, fate>>
    BY <1>3 DEF VerifyOtp
  <2>4. addressed[c] # {} /\ fate[c] = "open" /\ p.attempts = guesses[c]
    BY <2>3 DEF SeqInv, Kept
  <2>5. f.pc # "burn" => guesses[c] < MaxAttempts
    BY <1>t, <2>1, <2>2, <2>4 DEF AtCap
  <2> HIDE DEF f, p
  <2>7. PICK g : g = f
    OBVIOUS
  <2>8. Current(g)'
    BY <2>1, <2>2, <2>3, <2>4, <2>5, <2>7 DEF Current, Trying
  <2> QED
    BY <1>k, <2>3, <2>7, <2>8, OthersCurrent DEF SeqInv
<1>4. ASSUME NEW r \in Requests, CountAttempt(r)
      PROVE  SeqInv'
  <2> DEFINE c == req[r].chal
             e == [payload |-> Counted(req[r].payload), ttl |-> KeepTtl(redis[c])]
  <2>1. /\ c \in Challenges /\ req[r].payload \in Payload
        /\ addressed[c] # {} /\ fate[c] = "open"
        /\ req[r].payload.attempts = guesses[c] /\ guesses[c] < MaxAttempts
    BY <1>t, <1>4 DEF CountAttempt, Shape, SeqInv, Current, Trying
  <2>2. e.payload.attempts = guesses[c] + 1
    BY <2>1 DEF Counted, Payload
  <2>3. /\ redis' = [redis EXCEPT ![c] = e]
        /\ guesses' = [guesses EXCEPT ![c] = guesses[c] + 1]
        /\ UNCHANGED <<addressed, grants, fate>> /\ Done(r)
    BY <1>4 DEF CountAttempt
  <2> HIDE DEF c, e
  <2>4. Kept'
    BY <1>t, <2>1, <2>2, <2>3 DEF SeqInv, Kept
  <2>5. \A d \in Challenges : c # d =>
          guesses'[d] = guesses[d] /\ fate'[d] = fate[d] /\ grants'[d] = grants[d]
    BY <1>t, <2>1, <2>3
  <2> QED
    BY <2>3, <2>4, <2>5, DoneCurrent DEF SeqInv, c
<1>5. ASSUME NEW r \in Requests, BurnAndReject(r)
      PROVE  SeqInv'
  <2> DEFINE c == req[r].chal
  <2>1. c \in Challenges /\ addressed[c] # {} /\ fate[c] = "open"
    BY <1>t, <1>5 DEF BurnAndReject, Shape, SeqInv, Current
  <2>2. /\ redis' = [redis EXCEPT ![c] = Nil] /\ fate' = [fate EXCEPT ![c] = "rejected"]
        /\ UNCHANGED <<addressed, guesses, grants>> /\ Done(r)
    BY <1>5 DEF BurnAndReject
  <2> HIDE DEF c
  <2>3. Kept'
    BY <1>t, <2>1, <2>2 DEF SeqInv, Kept
  <2>4. \A d \in Challenges : c # d =>
          guesses'[d] = guesses[d] /\ fate'[d] = fate[d] /\ grants'[d] = grants[d]
    BY <1>t, <2>1, <2>2
  <2> QED
    BY <2>2, <2>3, <2>4, DoneCurrent DEF SeqInv, c
<1>6. ASSUME NEW r \in Requests, LoadUser(r)
      PROVE  SeqInv'
  <2> DEFINE q == req[r]
  <2>1. /\ q \in Request /\ q.pc = "load" /\ q.chal # Nil
        /\ UNCHANGED <<users, redis, addressed, guesses, grants, fate>>
    BY <1>t, <1>6 DEF LoadUser, history, Shape
  <2>2. /\ addressed[q.chal] # {} /\ fate[q.chal] = "open"
        /\ q.payload.attempts = guesses[q.chal] /\ guesses[q.chal] < MaxAttempts
    BY <2>1 DEF SeqInv, Current, Trying
  <2>3. PICK f \in Request :
          /\ Goto(r, f)
          /\ f = [q EXCEPT !.pc = "burn"] \/ f = Idle \/ Loaded(q, f)
    BY <1>6, LoadUserOutcome
  <2> HIDE DEF q
  <2>4. CASE f = [q EXCEPT !.pc = "burn"]
    <3>1. f.pc = "burn" /\ f.chal = q.chal /\ f.payload = q.payload
      BY <2>1, <2>4 DEF Request
    <3> QED
      BY <1>k, <2>1, <2>2, <2>3, <3>1, OthersCurrent DEF SeqInv, Current, Trying
  <2>5. CASE f = Idle
    BY <1>k, <2>1, <2>3, <2>5, DoneCurrent DEF SeqInv, Done
  <2>6. CASE Loaded(q, f)
    BY <1>k, <2>1, <2>2, <2>3, <2>6, OthersCurrent DEF SeqInv, Current, Trying, Loaded
  <2> QED
    BY <2>3, <2>4, <2>5, <2>6
<1>7. ASSUME NEW r \in Requests, BurnAndAccept(r)
      PROVE  SeqInv'
  <2> DEFINE c == req[r].chal
             f == [req[r] EXCEPT !.pc = "commit"]
  <2>1. /\ c \in Challenges /\ addressed[c] # {} /\ fate[c] = "open"
        /\ grants[c] = 0
    BY <1>t, <1>7 DEF BurnAndAccept, Shape, SeqInv, Kept, Current, Trying
  <2>2. /\ redis' = [redis EXCEPT ![c] = Nil] /\ fate' = [fate EXCEPT ![c] = "accepted"]
        /\ UNCHANGED <<users, addressed, guesses, grants>> /\ Goto(r, f)
    BY <1>7 DEF BurnAndAccept
  <2>3. f.pc = "commit" /\ f.chal = c
    BY <1>t DEF Request
  <2> HIDE DEF c, f
  <2>4. Kept'
    BY <1>t, <2>1, <2>2 DEF SeqInv, Kept
  <2>5. fate'[c] = "accepted" /\ grants'[c] = 0
    BY <1>t, <2>1, <2>2
  <2>6. PICK g : g = f
    OBVIOUS
  <2>7. Current(g)'
    BY <2>1, <2>2, <2>3, <2>5, <2>6 DEF Current, Trying
  <2>8. \A d \in Challenges : c # d =>
          guesses'[d] = guesses[d] /\ fate'[d] = fate[d] /\ grants'[d] = grants[d]
    BY <1>t, <2>1, <2>2
  <2> QED
    BY <2>2, <2>4, <2>6, <2>7, <2>8, OthersCurrent DEF SeqInv, c
<1>8. ASSUME NEW r \in Requests, NEW f, Goto(r, f), f.chal = Nil,
             f.pc \in {"flush", "commit"},
             UNCHANGED <<users, redis, addressed, guesses, grants, fate>>
      PROVE  SeqInv'
  <2>1. Current(f)'
    BY <1>8 DEF Current, Trying
  <2> QED
    BY <1>k, <1>8, <2>1, OthersCurrent DEF SeqInv
<1>9. ASSUME NEW r \in Requests, NEW u \in Users, Refresh(r, u)
      PROVE  SeqInv'
  BY <1>8, <1>9 DEF Refresh, Idle, history
<1>10. ASSUME NEW r \in Requests, Provision(r)
       PROVE  SeqInv'
  <2>1. PICK u \in Users, s \in Row :
          /\ Goto(r, [Idle EXCEPT !.pc = "flush", !.user = u, !.target = s])
          /\ UNCHANGED <<users, redis, holders, history>>
    BY <1>10 DEF Provision, CreateUser, UpdateUser, DeleteUser, Row
  <2> QED
    BY <1>8, <2>1 DEF Idle, history
<1>11. ASSUME NEW r \in Requests, FlushRow(r)
       PROVE  SeqInv'
  <2> DEFINE q == req[r]
             pc == IF q.chal = Nil THEN "commit" ELSE "accept"
             f == [q EXCEPT !.pc = pc]
  <2>1. /\ q \in Request /\ q.pc = "flush" /\ Current(q)
        /\ UNCHANGED <<users, redis, addressed, guesses, grants, fate>>
        /\ Goto(r, f) \/ Done(r)
    BY <1>t, <1>11 DEF FlushRow, SeqInv, history
  <2>2. f.pc = pc /\ f.chal = q.chal /\ f.payload = q.payload
    BY <2>1 DEF Request
  <2> HIDE DEF q, f
  <2>3. CASE Goto(r, f)
    <3>1. PICK g : g = f
      OBVIOUS
    <3>2. Current(g)'
      BY <2>1, <2>2, <3>1 DEF Current, Trying
    <3> QED
      BY <1>k, <2>1, <2>3, <3>1, <3>2, OthersCurrent DEF SeqInv
  <2>4. CASE Done(r)
    BY <1>k, <2>1, <2>4, DoneCurrent DEF SeqInv
  <2> QED
    BY <2>1, <2>3, <2>4
<1>12. ASSUME NEW r \in Requests, Commit(r)
       PROVE  SeqInv'
  <2> DEFINE q == req[r]
  <2>1. /\ q.pc = "commit" /\ Current(q) /\ Done(r)
        /\ grants' = [c \in Challenges |-> IF q.chal = c THEN grants[c] + 1 ELSE grants[c]]
        /\ UNCHANGED <<redis, addressed, guesses, fate>>
    BY <1>12 DEF Commit, SeqInv
  <2> HIDE DEF q
  <2>2. \A c \in Challenges : q.chal = c => fate[c] = "accepted" /\ grants[c] = 0
    BY <1>t, <2>1 DEF Current
  <2>3. Kept'
    BY <1>t, <2>1, <2>2 DEF SeqInv, Kept
  <2>4. \A d \in Challenges : q.chal # d => grants'[d] = grants[d]
    BY <1>t, <2>1
  <2> QED
    BY <2>1, <2>3, <2>4, DoneCurrent DEF SeqInv, q
<1>13. ASSUME NEW r \in Requests, CommitUnheard(r) \/ Fail(r)
       PROVE  SeqInv'
  BY <1>k, <1>13, DoneCurrent DEF CommitUnheard, Fail, history, SeqInv
<1>14. ASSUME NEW c \in Challenges, Expire(c)
       PROVE  SeqInv'
  <2>1. /\ redis' = [redis EXCEPT ![c] = Nil]
        /\ UNCHANGED <<users, req, addressed, guesses, grants, fate>>
    BY <1>14 DEF Expire, history
  <2>2. Kept'
    BY <1>t, <2>1 DEF SeqInv, Kept
  <2>3. \A r \in Requests : Current(req[r])'
    BY <2>1 DEF SeqInv, Current
  <2> QED
    BY <2>2, <2>3 DEF SeqInv
<1>15. CASE UNCHANGED vars
  BY <1>15 DEF vars, history, SeqInv, Kept, Current
<1> QED
  BY <1>1, <1>2, <1>3, <1>4, <1>5, <1>6, <1>7, <1>9, <1>10, <1>11, <1>12, <1>13,
     <1>14, <1>15 DEF Next, Login, Handle, Refuse

LEMMA SeqAlways == Spec /\ []OnePerChallenge => [](TypeInv /\ SeqInv)
<1>1. OnePerChallenge /\ TypeInv /\ SeqInv /\ [Next]_vars => SeqInv'
  BY SeqNext
<1> QED
  BY <1>1, SeqInit, TypeInit, TypeNext, PTL DEF Spec

-----------------------------------------------------------------------------
(* "burns the challenge on success": what verify_otp has deleted never     *)
(* comes back, whatever fails or expires around it.                        *)
THEOREM BurnsAreFinal == Spec /\ []OnePerChallenge => []BurnIsFinal
<1>1. SeqInv => BurnIsFinal
  BY DEF SeqInv, Kept, BurnIsFinal
<1> QED
  BY <1>1, SeqAlways, PTL

(* The counter in Redis is the number of wrong codes recorded: none is     *)
(* forgotten by the read-modify-write of verify_otp, none counted twice.   *)
THEOREM AttemptsAreExact == Spec /\ []OnePerChallenge => []AttemptsExact
<1>1. SeqInv => AttemptsExact
  BY DEF SeqInv, Kept, AttemptsExact
<1> QED
  BY <1>1, SeqAlways, PTL

(* The cap of verify_otp is a cap on the wrong codes really taken.         *)
THEOREM CapHolds == Spec /\ []OnePerChallenge => []CapRespected
<1>1. SeqInv => CapRespected
  BY DEF SeqInv, Kept, CapRespected
<1> QED
  BY <1>1, SeqAlways, PTL

(* A challenge is exchanged at most once, though it is burned before the   *)
(* commit that may fail and the answer that may be lost.                   *)
THEOREM ChallengesAreOneTime == Spec /\ []OnePerChallenge => []OneTimeUse
<1>1. SeqInv => OneTimeUse
  BY DEF SeqInv, Kept, OneTimeUse
<1> QED
  BY <1>1, SeqAlways, PTL

-----------------------------------------------------------------------------
(* The service implements the one-time password.                           *)

\* A step of AuthService is the step of OtpChallenge of the same purpose, or
\* one that OtpChallenge does not see.
LEMMA OtpStep == TypeInv /\ SeqInv /\ [Next]_vars => [Otp!Next]_(Otp!vars)
<1> SUFFICES ASSUME TypeInv, SeqInv, [Next]_vars PROVE [Otp!Next]_(Otp!vars)
  OBVIOUS
<1>t. /\ req \in [Requests -> Request] /\ \A r \in Requests : Shape(req[r])
      /\ grants \in [Challenges -> Nat] /\ guesses \in [Challenges -> Nat]
      /\ Nil \notin Challenges
  BY NilAssumption DEF TypeInv, TypeOK
<1>1. ASSUME NEW r \in Requests, CountAttempt(r) PROVE Otp!Next
  <2>1. /\ req[r].chal \in Challenges /\ fate[req[r].chal] = "open"
        /\ guesses[req[r].chal] < MaxAttempts
    BY <1>t, <1>1 DEF CountAttempt, Shape, SeqInv, Current, Trying
  <2>2. Otp!Wrong(req[r].chal)
    BY <1>1, <2>1 DEF CountAttempt, Otp!Wrong
  <2> QED
    BY <2>1, <2>2 DEF Otp!Next
<1>2. ASSUME NEW r \in Requests, BurnAndReject(r) PROVE Otp!Next
  <2>1. req[r].chal \in Challenges /\ fate[req[r].chal] = "open"
    BY <1>t, <1>2 DEF BurnAndReject, Shape, SeqInv, Current
  <2>2. Otp!Reject(req[r].chal)
    BY <1>2, <2>1 DEF BurnAndReject, Otp!Reject
  <2> QED
    BY <2>1, <2>2 DEF Otp!Next
<1>3. ASSUME NEW r \in Requests, BurnAndAccept(r) PROVE Otp!Next
  <2>1. /\ req[r].chal \in Challenges /\ fate[req[r].chal] = "open"
        /\ guesses[req[r].chal] < MaxAttempts
    BY <1>t, <1>3 DEF BurnAndAccept, Shape, SeqInv, Current, Trying
  <2>2. Otp!Accept(req[r].chal)
    BY <1>3, <2>1 DEF BurnAndAccept, Otp!Accept
  <2> QED
    BY <2>1, <2>2 DEF Otp!Next
<1>4. ASSUME NEW r \in Requests, Commit(r) PROVE [Otp!Next]_(Otp!vars)
  <2> DEFINE q == req[r]
  <2>1. /\ q.pc = "commit" /\ Current(q) /\ UNCHANGED <<guesses, fate>>
        /\ grants' = [c \in Challenges |-> IF q.chal = c THEN grants[c] + 1 ELSE grants[c]]
        /\ q \in Request
    BY <1>t, <1>4 DEF Commit, SeqInv
  <2> HIDE DEF q
  <2>m. q.chal \in Challenges \cup {Nil}
    BY <2>1 DEF Request
  <2>2. CASE q.chal = Nil
    <3>1. grants' = grants
      BY <1>t, <2>1, <2>2
    <3> QED
      BY <2>1, <3>1 DEF Otp!vars
  <2>3. CASE q.chal \in Challenges
    <3>1. fate[q.chal] = "accepted" /\ grants[q.chal] = 0
      BY <1>t, <2>1, <2>3 DEF Current
    <3>2. PICK d \in Challenges : d = q.chal
      BY <2>3
    <3>3. grants' = [c \in Challenges |-> IF d = c THEN grants[c] + 1 ELSE grants[c]]
      BY <2>1, <3>2
    <3>4. grants[d] + 1 = 1
      BY <3>1, <3>2
    <3>5. grants' = [c \in Challenges |-> IF d = c THEN 1 ELSE grants[c]]
      BY <3>3, <3>4, Zenon
    <3>6. grants' = [grants EXCEPT ![d] = 1]
      BY <1>t, <3>5
    <3> QED
      BY <2>1, <3>1, <3>2, <3>6 DEF Otp!Next, Otp!Grant
  <2> QED
    BY <2>m, <2>2, <2>3
<1>5. CASE UNCHANGED <<guesses, fate, grants>>
  BY <1>5 DEF Otp!vars
<1> QED
  BY <1>1, <1>2, <1>3, <1>4, <1>5 DEF Next, Login, Provision, Handle, SendOtp,
     StoreChallenge, VerifyOtp, Refresh, Refuse, CreateUser, UpdateUser, DeleteUser,
     LoadUser, FlushRow, CommitUnheard, Fail, Expire, history, vars

(* send_otp and verify_otp, with their Redis key, their session and what   *)
(* fails between the two, behave as the one-time password of OtpChallenge. *)
THEOREM ServiceImplementsOtp == Spec /\ []OnePerChallenge => ImplementsOtp
<1>1. Init => Otp!Init
  BY DEF Init, Otp!Init
<1>2. TypeInv /\ SeqInv /\ [Next]_vars => [Otp!Next]_(Otp!vars)
  BY OtpStep
<1> QED
  BY <1>1, <1>2, SeqAlways, PTL DEF Spec, ImplementsOtp, Otp!Spec

-----------------------------------------------------------------------------
(* The expiry of a challenge, which the TTL itself can take away.          *)

\* The TTL of a challenge does not fire between the GET and the SET of a
\* wrong attempt on it.
ExpiryWaits ==
  \A c \in Challenges :
    Expire(c) => \A r \in Requests : req[r].pc = "count" => req[r].chal # c

\* What a wrong attempt is about to write again is still there.
KeysInv ==
  /\ EveryKeyExpires
  /\ \A r \in Requests : req[r].pc = "count" => redis[req[r].chal] # Nil

LEMMA KeysNext ==
  OnePerChallenge /\ TypeInv /\ KeysInv /\ [Next /\ ExpiryWaits]_vars => KeysInv'
<1> SUFFICES ASSUME OnePerChallenge, TypeInv, KeysInv, [Next /\ ExpiryWaits]_vars
             PROVE  KeysInv'
  OBVIOUS
<1>t. /\ req \in [Requests -> Request]
      /\ redis \in [Challenges -> Entry \cup {Nil}]
      /\ \A r \in Requests : Shape(req[r])
      /\ Nil \notin Challenges
  BY NilAssumption DEF TypeInv, TypeOK
\* A request that ends, or goes on to anything but a count, having written no
\* key or its own.
<1>g. ASSUME NEW r \in Requests, NEW f, Goto(r, f), f.pc # "count",
             NEW e, redis' = redis \/ redis' = [redis EXCEPT ![req[r].chal] = e],
             req[r].chal \in Challenges \/ redis' = redis, e # Nil => e.ttl
      PROVE  KeysInv'
  <2>1. req'[r] = f /\ \A o \in Requests \ {r} : req'[o] = req[o]
    BY <1>t, <1>g DEF Goto
  <2>2. EveryKeyExpires'
    BY <1>t, <1>g DEF KeysInv, EveryKeyExpires
  <2>3. ASSUME NEW o \in Requests, req'[o].pc = "count" PROVE redis'[req'[o].chal] # Nil
    <3>1. o # r /\ req'[o] = req[o] /\ redis[req[o].chal] # Nil
      BY <1>g, <2>1, <2>3 DEF KeysInv
    <3>2. req[o].chal \in Challenges
      BY <1>t, <2>3, <3>1 DEF Shape
    <3>3. req[r].chal \in Challenges => req[o].chal # req[r].chal
      BY <1>t, <3>1 DEF OnePerChallenge
    <3> QED
      BY <1>t, <1>g, <3>1, <3>2, <3>3
  <2> QED
    BY <2>2, <2>3 DEF KeysInv
<1>d. ASSUME NEW r \in Requests, Done(r),
             NEW e, redis' = redis \/ redis' = [redis EXCEPT ![req[r].chal] = e],
             req[r].chal \in Challenges \/ redis' = redis, e # Nil => e.ttl
      PROVE  KeysInv'
  BY <1>g, <1>d DEF Done, Idle
<1>1. ASSUME NEW r \in Requests, StoreChallenge(r) PROVE KeysInv'
  <2> DEFINE e == [payload |-> req[r].payload, ttl |-> TRUE]
  <2>1. e.ttl /\ redis' = [redis EXCEPT ![req[r].chal] = e] /\ Done(r)
    BY <1>1 DEF StoreChallenge
  <2>2. req[r].chal \in Challenges
    BY <1>t, <1>1 DEF StoreChallenge, Shape
  <2> HIDE DEF e
  <2> QED
    BY <1>d, <2>1, <2>2
<1>2. ASSUME NEW r \in Requests, CountAttempt(r) PROVE KeysInv'
  <2> DEFINE c == req[r].chal
             e == [payload |-> Counted(req[r].payload), ttl |-> KeepTtl(redis[c])]
  <2>1. c \in Challenges /\ redis[c] # Nil /\ redis[c].ttl
    BY <1>t, <1>2 DEF CountAttempt, Shape, KeysInv, EveryKeyExpires
  <2>2. e.ttl /\ redis' = [redis EXCEPT ![c] = e] /\ Done(r)
    BY <1>2, <2>1 DEF CountAttempt, KeepTtl
  <2> HIDE DEF e
  <2> QED
    BY <1>d, <2>1, <2>2
<1>3. ASSUME NEW r \in Requests, BurnAndReject(r) \/ BurnAndAccept(r) PROVE KeysInv'
  <2>1. /\ req[r].chal \in Challenges
        /\ redis' = [redis EXCEPT ![req[r].chal] = Nil]
        /\ Done(r) \/ Goto(r, [req[r] EXCEPT !.pc = "commit"])
    BY <1>t, <1>3 DEF BurnAndReject, BurnAndAccept, Shape
  <2>2. [req[r] EXCEPT !.pc = "commit"].pc = "commit"
    BY <1>t DEF Request
  <2> QED
    BY <1>g, <1>d, <2>1, <2>2
<1>4. ASSUME NEW r \in Requests, NEW c \in Challenges, NEW right \in BOOLEAN,
             VerifyOtp(r, c, right)
      PROVE  KeysInv'
  <2>1. PICK f : f.chal = c /\ Goto(r, f) /\ redis[c] # Nil /\ redis' = redis
    BY <1>4 DEF VerifyOtp, Idle
  <2>2. req'[r] = f /\ \A o \in Requests \ {r} : req'[o] = req[o]
    BY <1>t, <2>1 DEF Goto
  <2> QED
    BY <2>1, <2>2 DEF KeysInv, EveryKeyExpires
<1>5. ASSUME NEW r \in Requests, NEW f, Goto(r, f), f.pc # "count", redis' = redis
      PROVE  KeysInv'
  BY <1>5, <1>g
<1>6. ASSUME NEW r \in Requests, Done(r), redis' = redis PROVE KeysInv'
  BY <1>6, <1>5 DEF Done, Idle
<1>7. ASSUME NEW r \in Requests, LoadUser(r) PROVE KeysInv'
  <2>1. PICK f \in Request :
          /\ Goto(r, f) /\ req[r].pc = "load"
          /\ f = [req[r] EXCEPT !.pc = "burn"] \/ f = Idle \/ Loaded(req[r], f)
    BY <1>7, LoadUserOutcome DEF LoadUser
  <2>2. f.pc # "count"
    BY <1>t, <2>1 DEF Request, Idle, Loaded
  <2> QED
    BY <1>5, <1>7, <2>1, <2>2 DEF LoadUser
<1>8. ASSUME NEW r \in Requests, FlushRow(r) PROVE KeysInv'
  <2>1. PICK pc \in {"commit", "accept"} : Goto(r, [req[r] EXCEPT !.pc = pc]) \/ Done(r)
    BY <1>8 DEF FlushRow
  <2>2. [req[r] EXCEPT !.pc = pc].pc # "count" /\ redis' = redis
    BY <1>t, <1>8 DEF Request, FlushRow
  <2> QED
    BY <1>5, <1>6, <2>1, <2>2
<1>9. ASSUME NEW r \in Requests,
             \/ \E c \in Challenges, m \in Mobiles : SendOtp(r, c, m)
             \/ \E u \in Users : Refresh(r, u)
             \/ Provision(r)
      PROVE  KeysInv'
  BY <1>5, <1>9 DEF SendOtp, Refresh, Provision, CreateUser, UpdateUser, DeleteUser, Idle
<1>10. ASSUME NEW r \in Requests, Commit(r) \/ CommitUnheard(r) \/ Fail(r) PROVE KeysInv'
  BY <1>6, <1>10 DEF Commit, CommitUnheard, Fail
<1>11. ASSUME NEW c \in Challenges, Expire(c), ExpiryWaits PROVE KeysInv'
  BY <1>t, <1>11 DEF Expire, ExpiryWaits, KeysInv, EveryKeyExpires, Shape
<1>12. CASE UNCHANGED vars
  BY <1>12 DEF vars, KeysInv, EveryKeyExpires
<1> QED
  BY <1>1, <1>2, <1>3, <1>4, <1>7, <1>8, <1>9, <1>10, <1>11, <1>12
     DEF Next, Login, Handle, Refuse

(* "keepttl=True keeps the original expiry": a challenge in Redis expires  *)
(* some day, if its TTL never fires under a wrong attempt and no two       *)
(* requests work on one challenge.  Nothing in the code sees to either.    *)
THEOREM KeysExpire ==
  Spec /\ []OnePerChallenge /\ [][ExpiryWaits]_vars => []EveryKeyExpires
<1>1. Init => KeysInv
  BY DEF Init, Idle, KeysInv, EveryKeyExpires
<1>2. OnePerChallenge /\ TypeInv /\ KeysInv /\ [Next]_vars /\ [ExpiryWaits]_vars => KeysInv'
  BY KeysNext
<1>3. KeysInv => EveryKeyExpires
  BY DEF KeysInv
<1> QED
  BY <1>1, <1>2, <1>3, TypeInit, TypeNext, PTL DEF Spec

-----------------------------------------------------------------------------
(* One request per user.                                                   *)

(* Only a commit changes the users table.                                  *)
LEMMA RowsChange ==
  ASSUME TypeInv, [Next]_vars, users' # users
  PROVE  \E r \in Requests :
           /\ req[r].pc = "commit" /\ Done(r)
           /\ users' = [users EXCEPT ![req[r].user] = req[r].target]
<1>1. CASE \E r \in Requests : Commit(r) \/ CommitUnheard(r)
  BY <1>1 DEF Commit, CommitUnheard, CommitRow
<1> QED
  BY <1>1, QuietStep DEF Quiet, FlushRow

\* What a login knows of the row it has loaded is still so, as far as it
\* decided on it.
LoadedStands(q) ==
  q.pc \in {"flush", "accept", "commit"} /\ q.chal # Nil =>
    q.target \in {Nil, "verified"} /\ users[q.user] \in {"pending", "verified"}

LoadedInv == \A r \in Requests : LoadedStands(req[r])

\* A request of a login takes its row from LoadUser and keeps it.
LEMMA RowsKept ==
  ASSUME TypeInv, [Next]_vars, NEW r \in Requests,
         req'[r].pc \in {"flush", "accept", "commit"}, req'[r].chal # Nil
  PROVE  \/ Loaded(req[r], req'[r])
         \/ /\ req[r].pc \in {"flush", "accept", "commit"} /\ req[r].chal = req'[r].chal
            /\ req[r].target = req'[r].target /\ req[r].user = req'[r].user
<1> DEFINE q == req[r]
           Same(f) == /\ q.pc \in {"flush", "accept", "commit"} /\ q.chal = f.chal
                      /\ q.target = f.target /\ q.user = f.user
           Goal == Loaded(q, req'[r]) \/ Same(req'[r])
<1>t. req \in [Requests -> Request] /\ q \in Request /\ \A o \in Requests : Shape(req[o])
  BY DEF TypeInv, TypeOK
<1>1. ASSUME NEW f, Goto(r, f), f.pc \notin {"flush", "accept", "commit"} \/ f.chal = Nil
      PROVE  FALSE
  BY <1>t, <1>1 DEF Goto
<1>2. ASSUME NEW o \in Requests \ {r}, NEW f, Goto(o, f) PROVE Goal
  BY <1>t, <1>2 DEF Goto
<1>3. ASSUME NEW o \in Requests, Done(o) PROVE Goal
  BY <1>1, <1>2, <1>3 DEF Done, Idle
<1>4. ASSUME UNCHANGED req PROVE Goal
  BY <1>4
<1>5. ASSUME NEW o \in Requests, Login(o) PROVE Goal
  <2>1. ASSUME NEW c \in Challenges, NEW m \in Mobiles, SendOtp(o, c, m) PROVE Goal
    BY <1>1, <1>2, <2>1 DEF SendOtp, Idle
  <2>2. ASSUME NEW c \in Challenges, NEW right \in BOOLEAN, VerifyOtp(o, c, right) PROVE Goal
    BY <1>1, <1>2, <2>2 DEF VerifyOtp, Idle, Verdict
  <2>3. ASSUME NEW u \in Users, Refresh(o, u) PROVE Goal
    BY <1>1, <1>2, <2>3 DEF Refresh, Idle
  <2> QED
    BY <1>4, <1>5, <2>1, <2>2, <2>3 DEF Login, Refuse, vars
<1>6. ASSUME NEW o \in Requests, Provision(o) PROVE Goal
  BY <1>1, <1>2, <1>6 DEF Provision, CreateUser, UpdateUser, DeleteUser, Idle
<1>7. ASSUME LoadUser(r) PROVE Goal
  <2>1. PICK f \in Request :
          /\ Goto(r, f)
          /\ f = [q EXCEPT !.pc = "burn"] \/ f = Idle \/ Loaded(q, f)
    BY <1>7, LoadUserOutcome
  <2>2. f # Idle /\ f # [q EXCEPT !.pc = "burn"]
    BY <1>t, <1>1, <2>1 DEF Idle, Request
  <2>3. req'[r] = f
    BY <1>t, <2>1 DEF Goto
  <2> QED
    BY <2>1, <2>2, <2>3
<1>8. ASSUME FlushRow(r) \/ BurnAndAccept(r) PROVE Goal
  <2>1. PICK pc \in {"commit", "accept"} : Goto(r, [q EXCEPT !.pc = pc]) \/ Done(r)
    BY <1>8 DEF FlushRow, BurnAndAccept
  <2>2. q.pc \in {"flush", "accept"}
    BY <1>8 DEF FlushRow, BurnAndAccept
  <2>3. CASE Goto(r, [q EXCEPT !.pc = pc])
    BY <1>t, <2>2, <2>3 DEF Goto, Request
  <2> QED
    BY <1>3, <2>1, <2>3
<1>9. ASSUME NEW o \in Requests, Handle(o) PROVE Goal
  <2>1. CASE LoadUser(o)
    BY <1>2, <1>7, <2>1, LoadUserOutcome
  <2>2. CASE FlushRow(o) \/ BurnAndAccept(o)
    BY <1>2, <1>3, <1>8, <2>2 DEF FlushRow, BurnAndAccept
  <2> QED
    BY <1>3, <1>9, <2>1, <2>2 DEF Handle, StoreChallenge, CountAttempt, BurnAndReject,
       Commit, CommitUnheard
<1> QED
  BY <1>3, <1>4, <1>5, <1>6, <1>9 DEF Next, Fail, Expire, vars

LEMMA LoadedNext ==
  OnePerUser /\ TypeInv /\ LoadedInv /\ [Next]_vars => LoadedInv'
<1> SUFFICES ASSUME OnePerUser, TypeInv, LoadedInv, [Next]_vars, NEW r \in Requests
             PROVE  LoadedStands(req[r])'
  BY DEF LoadedInv
<1>1. PICK f \in Request : f = req'[r] /\ Shape(f)
  BY TypeNext DEF TypeInv, TypeOK
<1> SUFFICES ASSUME f.pc \in {"flush", "accept", "commit"}, f.chal # Nil
             PROVE  f.target \in {Nil, "verified"} /\ users'[f.user] \in {"pending", "verified"}
  BY <1>1 DEF LoadedStands
<1>2. CASE users' = users
  BY <1>1, <1>2, RowsKept DEF LoadedInv, LoadedStands, Loaded
<1>3. CASE users' # users
  <2>1. PICK s \in Requests :
          /\ req[s].pc = "commit" /\ Done(s)
          /\ users' = [users EXCEPT ![req[s].user] = req[s].target]
    BY <1>3, RowsChange
  <2>2. r # s /\ req[r] = f
    BY <1>1, <2>1 DEF TypeInv, TypeOK, Done, Goto, Idle
  <2>3. f.user # Nil /\ req[s].user # f.user
    BY <1>1, <2>2, NilAssumption DEF OnePerUser, Shape
  <2>4. users'[f.user] = users[f.user]
    BY <1>1, <2>1, <2>3 DEF TypeInv, TypeOK, Shape
  <2> QED
    BY <2>2, <2>4 DEF LoadedInv, LoadedStands
<1> QED
  BY <1>2, <1>3

LEMMA LoadedAlways == Spec /\ []OnePerUser => [](TypeInv /\ LoadedInv)
<1>1. Init => LoadedInv
  BY DEF Init, Idle, LoadedInv, LoadedStands
<1>2. OnePerUser /\ TypeInv /\ LoadedInv /\ [Next]_vars => LoadedInv'
  BY LoadedNext
<1> QED
  BY <1>1, <1>2, TypeInit, TypeNext, PTL DEF Spec

(* "promotes PENDING users to VERIFIED": a login never makes a revoked     *)
(* user verified, only an update of the row does.                          *)
THEOREM RevocationHolds == Spec /\ []OnePerUser => RevocationStands
<1>1. TypeInv /\ LoadedInv /\ [Next]_vars =>
        [\A u \in Users :
           users[u] = "revoked" /\ users'[u] = "verified" =>
             \E r \in Requests : req[r].user = u /\ req[r].pc = "commit"
                                   /\ req[r].chal = Nil /\ req'[r].pc = "idle"]_vars
  <2> SUFFICES ASSUME TypeInv, LoadedInv, [Next]_vars, NEW u \in Users,
                      users[u] = "revoked", users'[u] = "verified"
               PROVE  \E r \in Requests : req[r].user = u /\ req[r].pc = "commit"
                                            /\ req[r].chal = Nil /\ req'[r].pc = "idle"
    OBVIOUS
  <2>1. PICK r \in Requests :
          /\ req[r].pc = "commit" /\ Done(r)
          /\ users' = [users EXCEPT ![req[r].user] = req[r].target]
    BY RowsChange
  <2>2. req[r].user = u
    BY <2>1 DEF TypeInv, TypeOK
  <2>3. req[r].chal = Nil
    BY <2>1, <2>2 DEF LoadedInv, LoadedStands
  <2>4. req'[r].pc = "idle"
    BY <2>1 DEF TypeInv, TypeOK, Done, Goto, Idle
  <2> QED
    BY <2>1, <2>2, <2>3, <2>4
<1> QED
  BY <1>1, LoadedAlways, PTL DEF RevocationStands, Spec
=============================================================================
