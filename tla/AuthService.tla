---------------------------- MODULE AuthService ----------------------------
(***************************************************************************)
(* The OTP login of civio-cloud: AuthService.send_otp, verify_otp and      *)
(* refresh, run by concurrent HTTP requests over two stores that are not   *)
(* committed together: the Redis challenge keys, written at once, and the  *)
(* users table, written by a flush and made visible by the commit that     *)
(* get_db issues after the handler.  The requests that provision, revoke   *)
(* and delete users (the BaseRepository primitives) run beside them.       *)
(*                                                                         *)
(* Every await of the code is a step of its own, so that anything may      *)
(* happen between a read and the write that depends on it.                 *)
(***************************************************************************)
EXTENDS Naturals, FiniteSets

CONSTANTS
  Users,         \* the ids (UUIDs) user rows may have
  Challenges,    \* the challenge ids (uuid4) send_otp may draw
  Requests,      \* the HTTP requests in flight at once, one session each
  MobileOf,      \* the mobile column of each user row
  CommunityOf,   \* the community_id column of each user row
  MaxAttempts,   \* _MAX_ATTEMPTS
  MaxGuesses,    \* bound of the model: wrong codes recorded per challenge
  Nil            \* None, an absent key, a write that is not there

Auth == {"pending", "verified", "revoked"}        \* the enum AuthStatus
Row == Auth \cup {"unborn", "deleted"}            \* a row that is not there
Mobiles == {MobileOf[u] : u \in Users}

Fate == {"open", "rejected", "accepted"}

Payload == [uids : SUBSET Users, attempts : Nat]
Entry == [payload : Payload, ttl : BOOLEAN]

ASSUME ModelAssumption ==
  /\ MaxAttempts \in Nat \ {0}
  /\ MaxGuesses \in Nat
  /\ IsFiniteSet(Users)
  /\ DOMAIN MobileOf = Users
  /\ DOMAIN CommunityOf = Users

ASSUME NilAssumption == Nil \notin Users \cup Challenges \cup Row

VARIABLES
  users,         \* the committed users table: the auth_status of each row
  redis,         \* otp:<challenge id> -> the stored entry, or Nil
  req,           \* where each request stands and what it holds in memory
  holders,       \* the users to whom a TokenPair has been delivered
  \* History, read by no step of the code:
  addressed,     \* the users whose mobile got the challenge, when it was sent
  answered,      \* the challenges whose right code was presented
  guesses,       \* wrong codes recorded, per challenge
  grants,        \* TokenPairs a challenge was exchanged for
  fate,          \* how verify_otp disposed of each challenge
  wasVerified    \* the users whose committed row has been VERIFIED

history == <<addressed, answered, guesses, grants, fate, wasVerified>>
vars == <<users, redis, req, holders, history>>

Phase == {"idle", "setex", "count", "burn", "load", "flush", "accept", "commit"}

(* A request: chal is the challenge it works on (Nil: it is no verify_otp  *)
(* or send_otp), payload the JSON it read or is about to store, user the   *)
(* ORM instance it loaded, target the row it has changed in its session    *)
(* (Nil: nothing to flush), tokens whether it answers with a TokenPair.    *)
Request == [pc : Phase, chal : Challenges \cup {Nil},
            payload : Payload \cup {Nil}, user : Users \cup {Nil},
            target : Row \cup {Nil}, tokens : BOOLEAN]

Idle == [pc |-> "idle", chal |-> Nil, payload |-> Nil, user |-> Nil,
         target |-> Nil, tokens |-> FALSE]

Init ==
  /\ users = [u \in Users |-> "unborn"]
  /\ redis = [c \in Challenges |-> Nil]
  /\ req = [r \in Requests |-> Idle]
  /\ holders = {}
  /\ addressed = [c \in Challenges |-> {}]
  /\ answered = {}
  /\ guesses = [c \in Challenges |-> 0]
  /\ grants = [c \in Challenges |-> 0]
  /\ fate = [c \in Challenges |-> "open"]
  /\ wasVerified = {}

-----------------------------------------------------------------------------
Exists(u) == users[u] \in Auth

\* The request goes on with the fields of f changed, or is answered.
Goto(r, f) == req' = [req EXCEPT ![r] = f]
Done(r) == Goto(r, Idle)

-----------------------------------------------------------------------------
(* Plausible bugs, one per property: what a definition below would be with *)
(* the bug.  The specification uses none of them.                          *)

AtCapOneLate(p) == p.attempts > MaxAttempts
CountedTwice(p) == [p EXCEPT !.attempts = @ + 2]
CountedNever(p) == p
AmbiguousNever(p) == FALSE
PromotedByName(status) == IF status = "pending" THEN "VERIFIED" ELSE Nil
WriterEarly(q) == q.target # Nil
TakenNever(u) == FALSE
LandsAnyway(u, target) == TRUE

\* REVOKED is not refused.
LoadUserUnchecked(r) ==
  /\ req[r].pc = "load"
  /\ \E u \in req[r].payload.uids :
       /\ Exists(u)
       /\ Goto(r, [req[r] EXCEPT
            !.pc = "flush", !.user = u, !.target = "verified", !.tokens = TRUE])
  /\ UNCHANGED <<users, redis, holders, history>>

-----------------------------------------------------------------------------
(* The pieces of the code the actions are made of.                         *)

\* UserRepository.list_by_mobile: every row with the mobile, any community.
ListByMobile(m) == {u \in Users : Exists(u) /\ MobileOf[u] = m}

\* The payload send_otp stores.
NewPayload(uids) == [uids |-> uids, attempts |-> 0]

AtCap(p) == p.attempts >= MaxAttempts
Counted(p) == [p EXCEPT !.attempts = @ + 1]
Ambiguous(p) == Cardinality(p.uids) # 1

\* SET key value KEEPTTL: a key that is gone is created, without any TTL.
KeepTtl(entry) == entry # Nil /\ entry.ttl

\* The row _promote_or_check leaves in the session for a loaded row.
Promoted(status) == IF status = "pending" THEN "verified" ELSE Nil

\* A session that has flushed a row holds the lock of the row, and of its
\* community (tg_bump_community_version updates it), until it ends.
Writer(q) == q.target # Nil /\ q.pc \in {"accept", "commit"}
LockFree(r, u) ==
  \A o \in Requests \ {r} :
    Writer(req[o]) => CommunityOf[req[o].user] # CommunityOf[u]

\* Whether the flushed statement succeeds: an INSERT against the unique
\* (community_id, mobile), an UPDATE only if it still matches a row
\* (StaleDataError); a DELETE that matches none only warns.
Taken(u) == \E v \in ListByMobile(MobileOf[u]) : CommunityOf[v] = CommunityOf[u]
Lands(u, target) ==
  CASE target = "deleted" -> TRUE
    [] users[u] = "unborn" -> ~Taken(u)
    [] OTHER -> Exists(u)

-----------------------------------------------------------------------------
(* POST /auth/otp/send                                                     *)

\* The rows with the mobile are listed and the payload is built from them.
SendOtp(r, c, m) ==
  /\ req[r].pc = "idle"
  /\ addressed[c] = {}                       \* uuid4 never repeats
  /\ ListByMobile(m) # {}
  /\ Goto(r, [Idle EXCEPT !.pc = "setex", !.chal = c,
                          !.payload = NewPayload(ListByMobile(m))])
  /\ addressed' = [addressed EXCEPT ![c] = {u \in Users : Exists(u) /\ MobileOf[u] = m}]
  /\ UNCHANGED <<users, redis, holders, answered, guesses, grants, fate, wasVerified>>

\* SETEX, and the answer; the commit of a session that wrote nothing is no step.
StoreChallenge(r) ==
  /\ req[r].pc = "setex"
  /\ redis' = [redis EXCEPT ![req[r].chal] = [payload |-> req[r].payload, ttl |-> TRUE]]
  /\ Done(r)
  /\ UNCHANGED <<users, holders, history>>

-----------------------------------------------------------------------------
(* POST /auth/otp/verify                                                   *)

\* What verify_otp does next with the payload it read and the code it got.
Verdict(p, right) ==
  CASE AtCap(p) -> "burn"
    [] ~AtCap(p) /\ ~right -> "count"
    [] ~AtCap(p) /\ right /\ Ambiguous(p) -> "burn"
    [] ~AtCap(p) /\ right /\ ~Ambiguous(p) -> "load"

\* GET the key and judge the code.
VerifyOtp(r, c, right) ==
  /\ req[r].pc = "idle"
  /\ redis[c] # Nil
  /\ right \/ guesses[c] < MaxGuesses
  /\ Goto(r, [Idle EXCEPT !.pc = Verdict(redis[c].payload, right),
                          !.chal = c, !.payload = redis[c].payload])
  /\ answered' = IF right THEN answered \cup {c} ELSE answered
  /\ UNCHANGED <<users, redis, holders, addressed, guesses, grants, fate, wasVerified>>

\* A wrong code: the payload read before is written back, one attempt up.
CountAttempt(r) ==
  LET c == req[r].chal IN
  /\ req[r].pc = "count"
  /\ redis' = [redis EXCEPT ![c] = [payload |-> Counted(req[r].payload),
                                    ttl |-> KeepTtl(redis[c])]]
  /\ guesses' = [guesses EXCEPT ![c] = @ + 1]
  /\ Done(r)
  /\ UNCHANGED <<users, holders, addressed, answered, grants, fate, wasVerified>>

\* Too many attempts, an ambiguous mobile, or a user who is gone.
BurnAndReject(r) ==
  /\ req[r].pc = "burn"
  /\ redis' = [redis EXCEPT ![req[r].chal] = Nil]
  /\ fate' = [fate EXCEPT ![req[r].chal] = "rejected"]
  /\ Done(r)
  /\ UNCHANGED <<users, holders, addressed, answered, guesses, grants, wasVerified>>

\* SELECT the user; _promote_or_check up to its flush.
LoadUser(r) ==
  /\ req[r].pc = "load"
  /\ \E u \in req[r].payload.uids :
       \/ /\ ~Exists(u)
          /\ Goto(r, [req[r] EXCEPT !.pc = "burn"])
       \/ /\ users[u] = "revoked"
          /\ Done(r)
       \/ /\ users[u] \in {"pending", "verified"}
          /\ Goto(r, [req[r] EXCEPT
               !.pc = IF Promoted(users[u]) = Nil THEN "accept" ELSE "flush",
               !.user = u, !.target = Promoted(users[u]), !.tokens = TRUE])
  /\ UNCHANGED <<users, redis, holders, history>>

BurnAndAccept(r) ==
  /\ req[r].pc = "accept"
  /\ redis' = [redis EXCEPT ![req[r].chal] = Nil]
  /\ fate' = [fate EXCEPT ![req[r].chal] = "accepted"]
  /\ Goto(r, [req[r] EXCEPT !.pc = "commit"])
  /\ UNCHANGED <<users, holders, addressed, answered, guesses, grants, wasVerified>>

-----------------------------------------------------------------------------
(* POST /auth/refresh                                                      *)

\* A delivered refresh token; the row must be VERIFIED when it is read.
Refresh(r, u) ==
  /\ req[r].pc = "idle"
  /\ u \in holders
  /\ users[u] = "verified"
  /\ Goto(r, [Idle EXCEPT !.pc = "commit", !.user = u, !.tokens = TRUE])
  /\ UNCHANGED <<users, redis, holders, history>>

-----------------------------------------------------------------------------
(* Provisioning and revocation: BaseRepository.create, update and delete,  *)
(* each up to its flush.                                                   *)

CreateUser(r, u, status) ==
  /\ req[r].pc = "idle"
  /\ users[u] = "unborn"
  /\ \A o \in Requests : req[o].user # u     \* uuid_generate_v4 never repeats
  /\ Goto(r, [Idle EXCEPT !.pc = "flush", !.user = u, !.target = status])
  /\ UNCHANGED <<users, redis, holders, history>>

\* An attribute set to the value it has flushes nothing.
UpdateUser(r, u, status) ==
  /\ req[r].pc = "idle"
  /\ Exists(u)
  /\ users[u] # status
  /\ Goto(r, [Idle EXCEPT !.pc = "flush", !.user = u, !.target = status])
  /\ UNCHANGED <<users, redis, holders, history>>

DeleteUser(r, u) ==
  /\ req[r].pc = "idle"
  /\ Exists(u)
  /\ Goto(r, [Idle EXCEPT !.pc = "flush", !.user = u, !.target = "deleted"])
  /\ UNCHANGED <<users, redis, holders, history>>

-----------------------------------------------------------------------------
(* The session                                                             *)

\* session.flush: it waits for the locks, then the statement succeeds or the
\* exception rolls the request back.
FlushRow(r) ==
  LET q == req[r] IN
  /\ q.pc = "flush"
  /\ LockFree(r, q.user)
  /\ IF Lands(q.user, q.target)
       THEN Goto(r, [q EXCEPT !.pc = IF q.chal = Nil THEN "commit" ELSE "accept"])
       ELSE Done(r)
  /\ UNCHANGED <<users, redis, holders, history>>

\* get_db after the handler: the commit makes the row visible.
CommitRow(q) ==
  /\ users' = IF q.target = Nil THEN users ELSE [users EXCEPT ![q.user] = q.target]
  /\ wasVerified' = wasVerified \cup {u \in Users : users'[u] = "verified"}

\* ... and only then the answer goes out, if it is a TokenPair to its user.
Commit(r) ==
  LET q == req[r] IN
  /\ q.pc = "commit"
  /\ CommitRow(q)
  /\ holders' = IF q.tokens THEN holders \cup {q.user} ELSE holders
  /\ grants' = [c \in Challenges |-> IF q.chal = c THEN grants[c] + 1 ELSE grants[c]]
  /\ Done(r)
  /\ UNCHANGED <<redis, addressed, answered, guesses, fate>>

\* The commit is applied, its acknowledgement or the answer is lost.
CommitUnheard(r) ==
  /\ req[r].pc = "commit"
  /\ CommitRow(req[r])
  /\ Done(r)
  /\ UNCHANGED <<redis, holders, addressed, answered, guesses, grants, fate>>

\* Any await may raise, and the process may stop: the session is rolled back
\* (row locks and flushed rows are gone), what was sent to Redis stays.
Fail(r) ==
  /\ req[r].pc # "idle"
  /\ Done(r)
  /\ UNCHANGED <<users, redis, holders, history>>

\* A request refused on what it reads first: 401, 404, or nothing to do.
Refuse(r) ==
  /\ req[r].pc = "idle"
  /\ \/ \E c \in Challenges : redis[c] = Nil
     \/ \E m \in Mobiles : ListByMobile(m) = {}
     \/ \E u \in holders : users[u] # "verified"
     \/ \E u \in Users : ~Exists(u)
  /\ UNCHANGED vars

\* Redis drops a key at its TTL.
Expire(c) ==
  /\ redis[c] # Nil
  /\ redis[c].ttl
  /\ redis' = [redis EXCEPT ![c] = Nil]
  /\ UNCHANGED <<users, req, holders, history>>

-----------------------------------------------------------------------------
Login(r) ==
  \/ \E c \in Challenges, m \in Mobiles : SendOtp(r, c, m)
  \/ \E c \in Challenges, right \in BOOLEAN : VerifyOtp(r, c, right)
  \/ \E u \in Users : Refresh(r, u)
  \/ Refuse(r)

Provision(r) ==
  \E u \in Users :
    \/ \E s \in Auth : CreateUser(r, u, s) \/ UpdateUser(r, u, s)
    \/ DeleteUser(r, u)

\* The handler of a request in flight goes on.
Handle(r) ==
  \/ StoreChallenge(r) \/ CountAttempt(r) \/ BurnAndReject(r) \/ LoadUser(r)
  \/ FlushRow(r) \/ BurnAndAccept(r) \/ Commit(r) \/ CommitUnheard(r)

Next ==
  \/ \E r \in Requests : Login(r) \/ Provision(r) \/ Handle(r) \/ Fail(r)
  \/ \E c \in Challenges : Expire(c)

Spec == Init /\ [][Next]_vars

\* The event loop runs every handler that can go on, and the queue of a
\* PostgreSQL row lock is first come, first served, so a flush that finds the
\* lock free again and again gets it.
Fairness == \A r \in Requests : WF_vars(Handle(r)) /\ SF_vars(FlushRow(r))
LiveSpec == Spec /\ Fairness

-----------------------------------------------------------------------------
(* Type invariant: every variable has its type.                            *)
TypeOK ==
  /\ users \in [Users -> Row]
  /\ redis \in [Challenges -> Entry \cup {Nil}]
  /\ req \in [Requests -> Request]
  /\ holders \subseteq Users
  /\ addressed \in [Challenges -> SUBSET Users]
  /\ answered \subseteq Challenges
  /\ guesses \in [Challenges -> Nat]
  /\ grants \in [Challenges -> Nat]
  /\ fate \in [Challenges -> Fate]
  /\ wasVerified \subseteq Users

(* Whatever the interleaving, nobody is locked out early: neither a stored *)
(* counter nor one a request is about to store is ahead of the wrong codes *)
(* recorded for the challenge (verify_otp's read-modify-write of attempts).*)
NoOvercount ==
  /\ \A c \in Challenges : redis[c] # Nil => redis[c].payload.attempts <= guesses[c]
  /\ \A r \in Requests :
       req[r].pc = "count" => req[r].payload.attempts <= guesses[req[r].chal]

(* A TokenPair, from verify_otp or through any chain of refreshes, is only *)
(* ever held by a user who alone had the mobile a challenge was sent to,   *)
(* whose right code was presented, and whose row was committed VERIFIED.   *)
HolderAnsweredCode ==
  \A u \in holders :
    /\ u \in wasVerified
    /\ \E c \in answered : addressed[c] = {u}

(* The unique key of users: however creations and deletions interleave,    *)
(* no two rows of a community have the same mobile.                        *)
UniqueMobile ==
  \A u, v \in Users :
    /\ Exists(u) /\ Exists(v)
    /\ MobileOf[u] = MobileOf[v] /\ CommunityOf[u] = CommunityOf[v]
    => u = v

(* A deleted row stays deleted: a login or an update that loaded the row   *)
(* before the deletion never writes it back (flush finds no row).          *)
DeletedStaysDeleted ==
  [][\A u \in Users : users[u] = "deleted" => users'[u] = "deleted"]_vars

(* Every request is answered: no two handlers wait for each other's locks, *)
(* and a flush that waits for the lock of its community gets it.           *)
RequestCompletes ==
  \A r \in Requests : req[r].pc # "idle" ~> req[r].pc = "idle"

-----------------------------------------------------------------------------
(* What the docstrings and comments of auth_service.py promise.            *)
(* Overlapping requests break every one of these; one request at a time    *)
(* breaks EveryKeyExpires alone.                                           *)

(* "burns the challenge on success": a challenge verify_otp has deleted    *)
(* never comes back, with a code that can be presented again.              *)
BurnIsFinal == \A c \in Challenges : fate[c] # "open" => redis[c] = Nil

(* "keepttl=True keeps the original expiry": a challenge in Redis expires  *)
(* some day, whichever of the writes of send_otp and verify_otp was last.  *)
EveryKeyExpires == \A c \in Challenges : redis[c] # Nil => redis[c].ttl

(* "stores a challenge with a 5-attempt cap": no more than MaxAttempts     *)
(* wrong codes are ever taken for one challenge.                           *)
CapRespected == \A c \in Challenges : guesses[c] <= MaxAttempts

(* A challenge is exchanged for a TokenPair at most once.                  *)
OneTimeUse == \A c \in Challenges : grants[c] <= 1

(* The stored counter is exactly the number of wrong codes recorded.       *)
AttemptsExact ==
  \A c \in Challenges : redis[c] # Nil => redis[c].payload.attempts = guesses[c]

(* "promotes PENDING users to VERIFIED": a login never turns a revoked row *)
(* back into a verified one; only an update through the repository does.   *)
RevocationStands ==
  [][\A u \in Users :
       users[u] = "revoked" /\ users'[u] = "verified" =>
         \E r \in Requests : req[r].user = u /\ req[r].pc = "commit"
                               /\ req[r].chal = Nil /\ req'[r].pc = "idle"]_vars
=============================================================================
