------------------------ MODULE TokenLifecycleProofs ------------------------
(***************************************************************************)
(* What holds of tokens for any users, roles, lifetimes and number of      *)
(* overlapping requests.                                                   *)
(*                                                                         *)
(* Every token handed out is as _build_token made it (IssuedWell), and a   *)
(* request in flight holds one of them, presented while it was valid and   *)
(* at an endpoint for its kind (HeldWell).  A request is authorised by a   *)
(* row it read: as long as it has not read it, the row as it stands is one *)
(* of those that allowed it, if it allows it at all (AllowedByRow).        *)
(***************************************************************************)
EXTENDS TokenLifecycle, TLAPS

IssuedWell ==
  \A t \in issued :
    /\ t.exp = t.iat + Ttl(t.type)
    /\ t.iat <= now

HeldWell ==
  \A r \in Requests :
    req[r].pc # "idle" =>
      /\ req[r].token \in issued
      /\ req[r].at \in req[r].token.iat .. req[r].token.exp
      /\ TypeFits(req[r].token, req[r].endpoint)

AllowedByRow ==
  \A r \in Requests :
    LET q == req[r] IN
      /\ q.pc = "load" /\ Allows(row[q.token.sub], q.endpoint) =>
           row[q.token.sub].community \in allowedIn[r]
      /\ q.pc = "run" => q.user.community \in allowedIn[r]

TokenInv == TypeOK /\ IssuedWell /\ HeldWell /\ AllowedByRow

-----------------------------------------------------------------------------
LEMMA IdleType == Idle \in Request /\ Idle.pc = "idle"
BY DEF Idle, Request

LEMMA TtlType == \A type : Ttl(type) \in Nat
BY TtlAssumption DEF Ttl

(* Both tokens of a pair are as _build_token makes them.                   *)
LEMMA PairType ==
  ASSUME now \in Nat, NEW j \in Jtis, NEW u \in Users, NEW user \in Row \cup {Nil},
         NEW t \in Pair(j, u, user)
  PROVE  /\ t \in Token
         /\ t.exp = t.iat + Ttl(t.type)
         /\ t.iat = now
<1>1. ASSUME NEW type \in {"access", "refresh"}, NEW claims \in Row \cup {Nil},
             t = BuildToken(j, u, type, claims)
      PROVE  t \in Token /\ t.exp = t.iat + Ttl(t.type) /\ t.iat = now
  <2>1. Ttl(type) \in Nat /\ now + Ttl(type) \in Nat
    BY TtlType
  <2>2. t = [jti |-> j, sub |-> u, type |-> type, iat |-> now,
             exp |-> now + Ttl(type), claims |-> claims]
    BY <1>1 DEF BuildToken, TypeClaim
  <2> QED
    BY <2>1, <2>2 DEF Token
<1>2. t = BuildToken(j, u, "access", user) \/ t = BuildToken(j, u, "refresh", Nil)
  BY DEF Pair
<1> QED
  BY <1>1, <1>2

(* Handing out a pair leaves every token as it was made.                   *)
LEMMA IssueWell ==
  ASSUME TypeOK, IssuedWell,
         NEW j \in Jtis, NEW u \in Users, NEW user \in Row \cup {Nil},
         issued' = issued \cup Pair(j, u, user), now' = now
  PROVE  issued' \subseteq Token /\ IssuedWell'
<1>1. now \in Nat /\ issued \subseteq Token
  BY DEF TypeOK
<1>2. \A t \in Pair(j, u, user) :
        t \in Token /\ t.exp = t.iat + Ttl(t.type) /\ t.iat = now
  BY <1>1, PairType
<1>3. issued' \subseteq Token
  BY <1>1, <1>2
<1>4. IssuedWell'
  BY <1>1, <1>2 DEF IssuedWell
<1> QED
  BY <1>3, <1>4

(* A request that ends says nothing any more; the others are as they were. *)
LEMMA DoneWell ==
  ASSUME TokenInv, NEW r \in Requests, Done(r),
         allowedIn' = [allowedIn EXCEPT ![r] = {}],
         row' = row, issued \subseteq issued'
  PROVE  /\ req' \in [Requests -> Request]
         /\ allowedIn' \in [Requests -> SUBSET Communities]
         /\ HeldWell' /\ AllowedByRow'
<1>1. /\ req \in [Requests -> Request]
      /\ allowedIn \in [Requests -> SUBSET Communities]
      /\ req' = [req EXCEPT ![r] = Idle]
  BY DEF TokenInv, TypeOK, Done, Goto
<1>2. HeldWell'
  BY <1>1, IdleType DEF TokenInv, HeldWell
<1>3. AllowedByRow'
  BY <1>1, IdleType DEF TokenInv, AllowedByRow
<1> QED
  BY <1>1, <1>2, <1>3, IdleType

-----------------------------------------------------------------------------
LEMMA InitInv == Init => TokenInv
<1> SUFFICES ASSUME Init PROVE TokenInv
  OBVIOUS
<1>1. TypeOK
  BY IdleType DEF Init, TypeOK
<1>2. IssuedWell /\ HeldWell /\ AllowedByRow
  BY IdleType DEF Init, IssuedWell, HeldWell, AllowedByRow, Idle
<1> QED
  BY <1>1, <1>2 DEF TokenInv

(* decode_token and the test of the kind let in what they should, and the  *)
(* row as it stands is the first that may allow the request.               *)
LEMMA PresentInv ==
  ASSUME TokenInv, NEW r \in Requests, NEW t \in issued, NEW endpoint \in Endpoint,
         Present(r, t, endpoint)
  PROVE  TokenInv'
<1> DEFINE q == [pc |-> "load", endpoint |-> endpoint, token |-> t, at |-> now, user |-> Nil]
           a == IF Allows(row[t.sub], endpoint) THEN {row[t.sub].community} ELSE {}
<1>1. /\ TypeOK /\ IssuedWell /\ HeldWell /\ AllowedByRow
      /\ req \in [Requests -> Request] /\ allowedIn \in [Requests -> SUBSET Communities]
      /\ row \in [Users -> Row \cup {Nil}] /\ issued \subseteq Token /\ now \in Nat
      /\ req' = [req EXCEPT ![r] = q] /\ allowedIn' = [allowedIn EXCEPT ![r] = a]
      /\ now' = now /\ row' = row /\ issued' = issued
      /\ ~Expired(t) /\ TypeFits(t, endpoint)
  BY DEF TokenInv, TypeOK, Present, Goto
<1>2. /\ t \in Token /\ t.sub \in Users
      /\ t.exp \in Nat /\ t.iat \in Nat
  BY <1>1 DEF Token
<1>3. q \in Request /\ q.pc = "load" /\ q.token = t /\ q.endpoint = endpoint /\ q.at = now
  BY <1>1, <1>2 DEF Request
<1>4. a \subseteq Communities
  BY <1>1, <1>2, NilAssumption DEF Allows, Row
<1>5. now \in t.iat .. t.exp
  BY <1>1, <1>2 DEF IssuedWell, Expired
<1>6. Allows(row[t.sub], endpoint) => row[t.sub].community \in a
  OBVIOUS
<1> HIDE DEF q, a
<1>7. TypeOK'
  BY <1>1, <1>3, <1>4 DEF TypeOK
<1>8. IssuedWell'
  BY <1>1 DEF IssuedWell
<1>9. HeldWell'
  BY <1>1, <1>3, <1>5 DEF HeldWell
<1>10. AllowedByRow'
  BY <1>1, <1>3, <1>6 DEF AllowedByRow
<1> QED
  BY <1>7, <1>8, <1>9, <1>10 DEF TokenInv

(* The row that is loaded is the one that allows the request.              *)
LEMMA LoadInv ==
  ASSUME TokenInv, NEW r \in Requests, Load(r)
  PROVE  TokenInv'
<1> DEFINE q == req[r]
           t == row[q.token.sub]
           n == [q EXCEPT !.pc = "run", !.user = Loaded(q, t)]
<1>1. /\ TypeOK /\ IssuedWell /\ HeldWell /\ AllowedByRow
      /\ req \in [Requests -> Request] /\ allowedIn \in [Requests -> SUBSET Communities]
      /\ row \in [Users -> Row \cup {Nil}] /\ issued \subseteq Token
      /\ q \in Request /\ q.pc = "load"
      /\ now' = now /\ row' = row /\ issued' = issued
  BY DEF TokenInv, TypeOK, Load
<1>2. CASE t # Nil /\ Allows(t, q.endpoint) /\ Goto(r, n) /\ UNCHANGED allowedIn
  <2>1. q.token \in Token /\ q.token.sub \in Users
    BY <1>1 DEF HeldWell, Token
  <2>2. t \in Row
    BY <1>1, <1>2, <2>1
  <2>3. /\ n \in Request /\ n.pc = "run" /\ n.user = t
        /\ n.token = q.token /\ n.at = q.at /\ n.endpoint = q.endpoint
    BY <1>1, <2>2 DEF Request, Loaded
  <2>4. t.community \in allowedIn[r]
    BY <1>1, <1>2 DEF AllowedByRow
  <2>5. req' = [req EXCEPT ![r] = n] /\ allowedIn' = allowedIn
    BY <1>2 DEF Goto
  <2> HIDE DEF n
  <2>6. TypeOK' /\ IssuedWell'
    BY <1>1, <2>3, <2>5 DEF TypeOK, IssuedWell
  <2>7. HeldWell'
    BY <1>1, <2>3, <2>5 DEF HeldWell
  <2>8. AllowedByRow'
    BY <1>1, <2>3, <2>4, <2>5 DEF AllowedByRow
  <2> QED
    BY <2>6, <2>7, <2>8 DEF TokenInv
<1>3. CASE Done(r) /\ allowedIn' = [allowedIn EXCEPT ![r] = {}]
  <2>1. IssuedWell'
    BY <1>1 DEF IssuedWell
  <2> QED
    BY <1>1, <1>3, <2>1, DoneWell DEF TokenInv, TypeOK
<1>4. \/ /\ t # Nil /\ Allows(Loaded(q, t), q.endpoint)
        /\ Goto(r, n) /\ UNCHANGED allowedIn
      \/ Done(r) /\ allowedIn' = [allowedIn EXCEPT ![r] = {}]
  BY DEF Load
<1>5. Loaded(q, t) = t
  BY DEF Loaded
<1> HIDE DEF n, t, q
<1> QED
  BY <1>2, <1>3, <1>4, <1>5

(* Another commit: if the new row allows a request that waits for it, the  *)
(* row's community joins those that allowed it.                            *)
LEMMA ChangeRowInv ==
  ASSUME TokenInv, NEW u \in Users, NEW t \in Row \cup {Nil}, ChangeRow(u, t)
  PROVE  TokenInv'
<1>1. /\ TypeOK /\ IssuedWell /\ HeldWell /\ AllowedByRow
      /\ req \in [Requests -> Request] /\ allowedIn \in [Requests -> SUBSET Communities]
      /\ row \in [Users -> Row \cup {Nil}] /\ issued \subseteq Token
      /\ row' = [row EXCEPT ![u] = t]
      /\ now' = now /\ req' = req /\ issued' = issued
  BY DEF TokenInv, TypeOK, ChangeRow
<1>2. \A e : Allows(t, e) => t.community \in Communities
  BY NilAssumption DEF Allows, Row
<1>3. \A r \in Requests :
        /\ allowedIn[r] \subseteq allowedIn'[r]
        /\ req[r].pc # "idle" /\ req[r].token.sub = u /\ Allows(t, req[r].endpoint) =>
             t.community \in allowedIn'[r]
  BY DEF ChangeRow
<1>4. allowedIn' \in [Requests -> SUBSET Communities]
  BY <1>1, <1>2 DEF ChangeRow
<1>5. TypeOK'
  BY <1>1, <1>4 DEF TypeOK
<1>6. IssuedWell' /\ HeldWell'
  BY <1>1 DEF IssuedWell, HeldWell
<1>7. AllowedByRow'
  <2> SUFFICES ASSUME NEW r \in Requests
               PROVE  /\ req[r].pc = "load" /\ Allows(row'[req[r].token.sub], req[r].endpoint) =>
                           row'[req[r].token.sub].community \in allowedIn'[r]
                      /\ req[r].pc = "run" => req[r].user.community \in allowedIn'[r]
    BY <1>1 DEF AllowedByRow
  <2>1. req[r].pc = "run" => req[r].user.community \in allowedIn'[r]
    BY <1>1, <1>3 DEF AllowedByRow
  <2>2. ASSUME req[r].pc = "load", Allows(row'[req[r].token.sub], req[r].endpoint)
        PROVE  row'[req[r].token.sub].community \in allowedIn'[r]
    <3>1. req[r].token.sub \in Users
      BY <1>1, <2>2 DEF HeldWell, Token
    <3>2. CASE req[r].token.sub = u
      BY <1>1, <1>3, <2>2, <3>1, <3>2
    <3>3. CASE req[r].token.sub # u
      <4>1. row'[req[r].token.sub] = row[req[r].token.sub]
        BY <1>1, <3>1, <3>3
      <4> QED
        BY <1>1, <1>3, <2>2, <4>1 DEF AllowedByRow
    <3> QED
      BY <3>2, <3>3
  <2> QED
    BY <2>1, <2>2
<1> QED
  BY <1>5, <1>6, <1>7 DEF TokenInv

LEMMA StepInv == TokenInv /\ [Next]_vars => TokenInv'
<1> SUFFICES ASSUME TokenInv, [Next]_vars PROVE TokenInv'
  OBVIOUS
<1>1. /\ TypeOK /\ IssuedWell /\ HeldWell /\ AllowedByRow
      /\ req \in [Requests -> Request] /\ row \in [Users -> Row \cup {Nil}]
      /\ now \in Nat
  BY DEF TokenInv, TypeOK
<1>2. CASE Tick
  <2>1. now' = now + 1 /\ UNCHANGED <<row, issued, req, allowedIn>>
    BY <1>2 DEF Tick
  <2>2. TypeOK' /\ HeldWell' /\ AllowedByRow'
    BY <1>1, <2>1 DEF TypeOK, HeldWell, AllowedByRow
  <2>3. IssuedWell'
    <3>1. \A t \in issued : t.iat \in Nat
      BY <1>1 DEF TypeOK, Token
    <3> QED
      BY <1>1, <2>1, <3>1 DEF IssuedWell
  <2> QED
    BY <2>2, <2>3 DEF TokenInv
<1>3. ASSUME NEW u \in Users, NEW j \in Jtis, NEW t \in Row, Login(u, j, t)
      PROVE  TokenInv'
  <2>1. /\ issued' = issued \cup Pair(j, u, t)
        /\ UNCHANGED <<now, row, req, allowedIn>>
    BY <1>3 DEF Login
  <2>2. issued' \subseteq Token /\ IssuedWell'
    BY <1>1, <2>1, IssueWell
  <2>3. TypeOK' /\ HeldWell' /\ AllowedByRow'
    BY <1>1, <2>1, <2>2 DEF TypeOK, HeldWell, AllowedByRow
  <2> QED
    BY <2>2, <2>3 DEF TokenInv
<1>4. ASSUME NEW r \in Requests, NEW j \in Jtis, Refresh(r, j) PROVE TokenInv'
  <2>1. /\ req[r].pc = "run"
        /\ issued' = issued \cup Pair(j, req[r].token.sub, req[r].user)
        /\ Done(r) /\ allowedIn' = [allowedIn EXCEPT ![r] = {}]
        /\ UNCHANGED <<now, row>>
    BY <1>4 DEF Refresh
  <2>2. req[r].token.sub \in Users /\ req[r].user \in Row \cup {Nil}
    BY <1>1, <2>1 DEF TypeOK, HeldWell, Token, Request
  <2>3. issued' \subseteq Token /\ IssuedWell'
    BY <1>1, <2>1, <2>2, IssueWell
  <2>4. /\ req' \in [Requests -> Request] /\ allowedIn' \in [Requests -> SUBSET Communities]
        /\ HeldWell' /\ AllowedByRow'
    BY <2>1, DoneWell
  <2> QED
    BY <1>1, <2>1, <2>3, <2>4 DEF TokenInv, TypeOK
<1>5. ASSUME NEW r \in Requests, Logout(r) \/ End(r) PROVE TokenInv'
  <2>1. /\ Done(r) /\ allowedIn' = [allowedIn EXCEPT ![r] = {}]
        /\ UNCHANGED <<now, row, issued>>
    BY <1>5 DEF Logout, End
  <2>2. /\ req' \in [Requests -> Request] /\ allowedIn' \in [Requests -> SUBSET Communities]
        /\ HeldWell' /\ AllowedByRow'
    BY <2>1, DoneWell
  <2> QED
    BY <1>1, <2>1, <2>2 DEF TokenInv, TypeOK, IssuedWell
<1>6. CASE UNCHANGED vars
  BY <1>1, <1>6 DEF TokenInv, TypeOK, IssuedWell, HeldWell, AllowedByRow, vars
<1> QED
  BY <1>2, <1>3, <1>4, <1>5, <1>6, PresentInv, LoadInv, ChangeRowInv DEF Next, Refuse

-----------------------------------------------------------------------------
(* Every variable keeps its type (create_access_token and                  *)
(* create_refresh_token make well-formed tokens, get_current_user loads    *)
(* rows).                                                                  *)
THEOREM TokenTypeCorrect == Spec => []TypeOK
<1>1. TokenInv => TypeOK
  BY DEF TokenInv
<1> QED
  BY <1>1, InitInv, StepInv, PTL DEF Spec

(* The row decides, never the claims of a token: get_current_user and      *)
(* require_role let a request run only in a community in which its user's  *)
(* row allowed it at some moment since it was presented.                   *)
THEOREM RowDecides == Spec => []NoStaleAuthority
<1>1. TokenInv => NoStaleAuthority
  BY DEF TokenInv, AllowedByRow, NoStaleAuthority
<1> QED
  BY <1>1, InitInv, StepInv, PTL DEF Spec

(* No request runs on a token past the lifetime of those its endpoint is   *)
(* for, whatever chain of refreshes made it (_build_token, decode_token,   *)
(* and the tests of the kind in refresh and get_current_user).             *)
THEOREM AgeBounded == Spec => []NothingOutlivesTtl
<1>1. ASSUME TokenInv, NEW r \in Requests, req[r].pc # "idle"
      PROVE  /\ req[r].at >= req[r].token.iat
             /\ req[r].at <= req[r].token.iat +
                  (IF req[r].endpoint = "refresh" THEN RefreshTtl ELSE AccessTtl)
  <2>1. /\ req[r].token \in issued /\ req[r].token.type \in {"access", "refresh"}
        /\ req[r].at \in req[r].token.iat .. req[r].token.exp
        /\ req[r].token.exp = req[r].token.iat + Ttl(req[r].token.type)
        /\ (req[r].token.type = "refresh") <=> (req[r].endpoint = "refresh")
    BY <1>1 DEF TokenInv, TypeOK, IssuedWell, HeldWell, TypeFits, Token
  <2> QED
    BY <2>1 DEF Ttl
<1>2. TokenInv => NothingOutlivesTtl
  BY <1>1 DEF NothingOutlivesTtl
<1> QED
  BY <1>2, InitInv, StepInv, PTL DEF Spec
=============================================================================
