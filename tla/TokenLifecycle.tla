--------------------------- MODULE TokenLifecycle ---------------------------
(***************************************************************************)
(* What becomes of a TokenPair once AuthService has issued it: the JWTs    *)
(* carry claims that were true when they were made (role, community_id)    *)
(* and an expiry, the users table says what is true now.  A request is     *)
(* decoded first (decode_token), then the row of its user is loaded        *)
(* (get_current_user, AuthService.refresh), then its body runs; rows       *)
(* change and time passes in between.                                      *)
(***************************************************************************)
EXTENDS Naturals, FiniteSets

CONSTANTS
  Users,
  Communities,
  Roles,          \* the enum UserRole
  Permitted,      \* the roles given to require_role
  Jtis,           \* the jti (uuid4) a pair of tokens may draw
  Requests,       \* the HTTP requests in flight at once
  AccessTtl,      \* jwt_access_ttl_min, in units of the clock
  RefreshTtl,     \* jwt_refresh_ttl_days, likewise
  MaxTime,        \* bound of the model: the clock stops there
  Nil             \* a row that is not there, no token, no request

Auth == {"pending", "verified", "revoked"}
Row == [status : Auth, role : Roles, community : Communities]

\* The endpoints by what guards them: POST /auth/refresh, those that depend
\* on get_current_user (logout), and those that depend on require_role.
Endpoint == {"refresh", "logout", "gated"}

Token == [jti : Jtis, sub : Users, type : {"access", "refresh"},
          iat : Nat, exp : Nat, claims : Row \cup {Nil}]

ASSUME TtlAssumption ==
  /\ AccessTtl \in Nat /\ RefreshTtl \in Nat /\ MaxTime \in Nat
  /\ Permitted \subseteq Roles

ASSUME NilAssumption == Nil \notin Row \cup Token

VARIABLES
  now,        \* the clock of the API, in whole seconds: int(now.timestamp())
  row,        \* the committed row of each user
  issued,     \* every token handed out: clients may keep them for ever
  req,        \* the requests in flight
  \* History, read by no step of the code:
  allowedIn   \* the communities in which the row has allowed each request
              \* at some time since it was presented

vars == <<now, row, issued, req, allowedIn>>

(* A request: its token and endpoint, the time it was presented, and the   *)
(* User instance loaded for it (Nil: not yet).                             *)
Request == [pc : {"idle", "load", "run"}, endpoint : Endpoint \cup {Nil},
            token : Token \cup {Nil}, at : Nat, user : Row \cup {Nil}]

Idle == [pc |-> "idle", endpoint |-> Nil, token |-> Nil, at |-> 0, user |-> Nil]

Init ==
  /\ now = 0
  /\ row \in [Users -> Row]
  /\ issued = {}
  /\ req = [r \in Requests |-> Idle]
  /\ allowedIn = [r \in Requests |-> {}]

-----------------------------------------------------------------------------
Fresh(j) == \A t \in issued : t.jti # j
Goto(r, q) == req' = [req EXCEPT ![r] = q]
Done(r) == Goto(r, Idle)

\* What a row allows: require_role asks for a role, the others for none.
RoleAllowed(endpoint, role) == endpoint = "gated" => role \in Permitted
Allows(t, endpoint) == t # Nil /\ t.status = "verified" /\ RoleAllowed(endpoint, t.role)

-----------------------------------------------------------------------------
(* Plausible bugs, one per property.                                       *)

ClaimsTrusted(q, t) == IF q.token.claims = Nil THEN t ELSE q.token.claims
AnyType(t, endpoint) == TRUE
RefreshNamedBearer(type) == IF type = "refresh" THEN "bearer" ELSE type

-----------------------------------------------------------------------------
(* The pieces of the code.                                                 *)

Ttl(type) == IF type = "access" THEN AccessTtl ELSE RefreshTtl

\* The claim "type" of a token.
TypeClaim(type) == type

\* _build_token: the claims of a refresh token name its user only.
BuildToken(j, u, type, claims) ==
  [jti |-> j, sub |-> u, type |-> TypeClaim(type), iat |-> now,
   exp |-> now + Ttl(type), claims |-> claims]

\* _issue_tokens, from the User instance the request holds.
Pair(j, u, user) ==
  {BuildToken(j, u, "access", user), BuildToken(j, u, "refresh", Nil)}

\* jwt.decode: ExpiredSignatureError once exp lies before the clock.
Expired(t) == t.exp < now

\* get_current_user wants an access token, refresh a refresh token.
TypeFits(t, endpoint) == (t.type = "refresh") <=> (endpoint = "refresh")

\* The User that guards and handlers look at is the row just loaded.
Loaded(q, t) == t

-----------------------------------------------------------------------------
\* verify_otp has accepted a challenge (AuthService): a pair for its user, of
\* the instance t it loaded and promoted awaits before.  The row may have
\* changed since or be gone, and ChangeRow lets it have been any t before.
Login(u, j, t) ==
  /\ Fresh(j)
  /\ t.status = "verified"
  /\ issued' = issued \cup Pair(j, u, t)
  /\ UNCHANGED <<now, row, req, allowedIn>>

\* decode_token and the test of the token's type.
Present(r, t, endpoint) ==
  /\ req[r].pc = "idle"
  /\ ~Expired(t)
  /\ TypeFits(t, endpoint)
  /\ Goto(r, [pc |-> "load", endpoint |-> endpoint, token |-> t, at |-> now, user |-> Nil])
  /\ allowedIn' = [allowedIn EXCEPT ![r] =
                     IF Allows(row[t.sub], endpoint) THEN {row[t.sub].community} ELSE {}]
  /\ UNCHANGED <<now, row, issued>>

\* user_repo.get, the test of auth_status, and require_role: 401 or 403.
Load(r) ==
  LET q == req[r]
      t == row[q.token.sub] IN
  /\ q.pc = "load"
  /\ \/ /\ t # Nil
        /\ Allows(Loaded(q, t), q.endpoint)
        /\ Goto(r, [q EXCEPT !.pc = "run", !.user = Loaded(q, t)])
        /\ UNCHANGED allowedIn
     \/ /\ ~Allows(t, q.endpoint)
        /\ Done(r)
        /\ allowedIn' = [allowedIn EXCEPT ![r] = {}]
  /\ UNCHANGED <<now, row, issued>>

\* A new pair; nothing is done to the token it was exchanged for.
Refresh(r, j) ==
  LET q == req[r] IN
  /\ q.pc = "run"
  /\ q.endpoint = "refresh"
  /\ Fresh(j)
  /\ issued' = issued \cup Pair(j, q.token.sub, q.user)
  /\ Done(r)
  /\ allowedIn' = [allowedIn EXCEPT ![r] = {}]
  /\ UNCHANGED <<now, row>>

\* "Stateless MVP": a log line and 204.
Logout(r) ==
  /\ req[r].pc = "run"
  /\ req[r].endpoint = "logout"
  /\ Done(r)
  /\ allowedIn' = [allowedIn EXCEPT ![r] = {}]
  /\ UNCHANGED <<now, row, issued>>

\* The body of a gated endpoint ends, or any request fails or is cut off.
End(r) ==
  /\ req[r].pc # "idle"
  /\ Done(r)
  /\ allowedIn' = [allowedIn EXCEPT ![r] = {}]
  /\ UNCHANGED <<now, row, issued>>

\* Another request commits a change of the row, or deletes it.
ChangeRow(u, t) ==
  /\ row[u] # Nil
  /\ t # row[u]
  /\ row' = [row EXCEPT ![u] = t]
  /\ allowedIn' = [r \in Requests |->
       IF /\ req[r].pc # "idle" /\ req[r].token.sub = u
          /\ Allows(t, req[r].endpoint)
         THEN allowedIn[r] \cup {t.community}
         ELSE allowedIn[r]]
  /\ UNCHANGED <<now, issued, req>>

\* No bearer token, a malformed, expired or unfit one: 401, and no read.
Refuse(r) ==
  /\ req[r].pc = "idle"
  /\ UNCHANGED vars

Tick ==
  /\ now < MaxTime
  /\ now' = now + 1
  /\ UNCHANGED <<row, issued, req, allowedIn>>

Next ==
  \/ Tick
  \/ \E u \in Users :
       \/ \E j \in Jtis, t \in Row : Login(u, j, t)
       \/ \E t \in Row \cup {Nil} : ChangeRow(u, t)
  \/ \E r \in Requests :
       \/ Load(r) \/ Logout(r) \/ End(r) \/ Refuse(r)
       \/ \E j \in Jtis : Refresh(r, j)
       \/ \E t \in issued, endpoint \in Endpoint : Present(r, t, endpoint)

Spec == Init /\ [][Next]_vars

-----------------------------------------------------------------------------
(* Type invariant.                                                         *)
TypeOK ==
  /\ now \in Nat
  /\ row \in [Users -> Row \cup {Nil}]
  /\ issued \subseteq Token
  /\ req \in [Requests -> Request]
  /\ allowedIn \in [Requests -> SUBSET Communities]

(* A token's claims give no authority of their own: a request whose body   *)
(* runs was allowed by the row of its user, VERIFIED and with a permitted  *)
(* role, at some moment since it was presented, and runs in the community  *)
(* the row had then; however old the role and community_id in its token.   *)
NoStaleAuthority ==
  \A r \in Requests : req[r].pc = "run" => req[r].user.community \in allowedIn[r]

(* "JWT access tokens: 15-minute expiry", "refresh tokens: 7-day expiry":  *)
(* no endpoint acts on a token older than the tokens it is meant for live, *)
(* through any chain of refreshes; a refresh token that gets to any other  *)
(* than POST /auth/refresh would make days of the minutes.                 *)
NothingOutlivesTtl ==
  \A r \in Requests :
    LET q == req[r] IN
    q.pc # "idle" =>
      /\ q.at >= q.token.iat
      /\ q.at <= q.token.iat + (IF q.endpoint = "refresh" THEN RefreshTtl ELSE AccessTtl)
=============================================================================
