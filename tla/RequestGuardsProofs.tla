------------------------- MODULE RequestGuardsProofs -------------------------
(***************************************************************************)
(* The session binding is right for any requests, sessions and devices.    *)
(* The argument: a row is created once, for unique keys make a second      *)
(* create fail, and from then on only its revoked flag changes, and only   *)
(* upwards.  So what a request has seen of a binding stays true, and a     *)
(* request that comes in after a revocation can only find a revoked row.   *)
(*                                                                         *)
(* The second part puts the other guards around the session's: each of     *)
(* their steps is a step of SessionBinding or leaves its variables alone,  *)
(* so all of the first part holds of the composition.                      *)
(***************************************************************************)
EXTENDS RequestGuards, FiniteSetTheorems, TLAPS

(***************************************************************************)
(* The row a first request creates is a row (session.service.ts:62-72).    *)
(***************************************************************************)
LEMMA NewRowIsRow ==
    ASSUME TypeOK, NEW r \in Request
    PROVE  /\ Fingerprint(r) \in User \X Sid \X Agent
           /\ NewRow(r) \in Row
           /\ NewRow(r) # None
           /\ NewRow(r).fingerprint = Fingerprint(r)
           /\ NewRow(r).expiresAt >= started[r]
           /\ NewRow(r).revoked = FALSE
<1>1. Fingerprint(r) \in User \X Sid \X Agent
  BY SessionConstants DEF TypeOK, Fingerprint
<1>2. NewRow(r) \in Row
  BY <1>1, SessionConstants DEF TypeOK, NewRow, Row
<1>3. NewRow(r).expiresAt = started[r] + Ttl /\ started[r] \in Nat /\ Ttl \in Nat
  BY SessionConstants DEF TypeOK, NewRow
<1>4. NewRow(r) # None
  BY <1>2, NoneIsNoRow
<1>5. NewRow(r).expiresAt >= started[r]
  BY <1>3
<1>6. QED
  BY <1>1, <1>2, <1>4, <1>5 DEF NewRow

(***************************************************************************)
(* Revocation, by session or by user, keeps every row, its binding and its *)
(* end, and takes back no revocation (session.service.ts:89-101).          *)
(***************************************************************************)
LEMMA RevocationKeepsBindings ==
    ASSUME TypeOK, NEW S, RevokeRows(S)
    PROVE  /\ sessions' \in [Sid -> Row \union {None}]
           /\ \A s \in Sid :
                  /\ sessions'[s] = None <=> sessions[s] = None
                  /\ sessions[s] # None =>
                         /\ sessions'[s].fingerprint = sessions[s].fingerprint
                         /\ sessions'[s].expiresAt = sessions[s].expiresAt
                         /\ sessions[s].revoked => sessions'[s].revoked
<1>1. ASSUME NEW s \in Sid
      PROVE  /\ sessions'[s] \in Row \union {None}
             /\ sessions'[s] = None <=> sessions[s] = None
             /\ sessions[s] # None =>
                    /\ sessions'[s].fingerprint = sessions[s].fingerprint
                    /\ sessions'[s].expiresAt = sessions[s].expiresAt
                    /\ sessions[s].revoked => sessions'[s].revoked
  <2>1. CASE s \in S /\ sessions[s] # None
    <3>1. sessions[s] \in Row
      BY <2>1 DEF TypeOK
    <3>2. sessions'[s] = [sessions[s] EXCEPT !.revoked = TRUE]
      BY <2>1 DEF RevokeRows
    <3>3. /\ sessions'[s] \in Row
          /\ sessions'[s].fingerprint = sessions[s].fingerprint
          /\ sessions'[s].expiresAt = sessions[s].expiresAt
          /\ sessions'[s].revoked
      BY <3>1, <3>2 DEF Row
    <3>4. QED
      BY <2>1, <3>3, NoneIsNoRow
  <2>2. CASE ~(s \in S /\ sessions[s] # None)
    <3>1. sessions'[s] = sessions[s]
      BY <2>2 DEF RevokeRows
    <3>2. QED
      BY <3>1 DEF TypeOK
  <2>3. QED
    BY <2>1, <2>2
<1>2. sessions' \in [Sid -> Row \union {None}]
  BY <1>1 DEF RevokeRows
<1>3. QED
  BY <1>1, <1>2

(* Every step keeps the types. *)
LEMMA TypePreserved ==
    ASSUME TypeOK, [Next]_vars
    PROVE  TypeOK'
<1>1. ASSUME NEW r \in Request, Verify(r) PROVE TypeOK'
  <2>1. sessions[sid[r]] \in Row \union {None}
    BY DEF TypeOK
  <2>2. IsRevoked(sid[r]) \in BOOLEAN
    BY <2>1 DEF IsRevoked, Row
  <2>3. pc' \in [Request -> Label] /\ started' \in [Request -> Nat]
    BY <1>1 DEF Verify, RefuseToken, AcceptToken, Goto, TypeOK, Label, Ended
  <2>4. late' \in [Request -> BOOLEAN]
    BY <1>1, <2>2 DEF Verify, RefuseToken, AcceptToken, TypeOK
  <2>5. QED
    BY <1>1, <2>3, <2>4 DEF Verify, RefuseToken, AcceptToken, TypeOK, requestVars
<1>2. ASSUME NEW r \in Request, LookUp(r) PROVE TypeOK'
  BY <1>2 DEF LookUp, Goto, TypeOK, Label, Ended, requestVars
<1>3. ASSUME NEW r \in Request, Decide(r) PROVE TypeOK'
  BY <1>3 DEF Decide, Goto, TypeOK, Label, Ended, requestVars
<1>4. ASSUME NEW r \in Request, Provision(r) PROVE TypeOK'
  BY <1>4, SessionConstants DEF Provision, Goto, TypeOK, Label, Ended, requestVars
<1>5. ASSUME NEW r \in Request, CreateRow(r) PROVE TypeOK'
  <2>1. NewRow(r) \in Row
    BY NewRowIsRow
  <2>2. sessions' \in [Sid -> Row \union {None}]
    BY <1>5, <2>1 DEF CreateRow, TypeOK
  <2>3. pc' \in [Request -> Label]
    BY <1>5 DEF CreateRow, Goto, TypeOK, Label, Ended
  <2>4. QED
    BY <1>5, <2>2, <2>3 DEF CreateRow, TypeOK, requestVars
<1>6. ASSUME NEW r \in Request, Admit(r) PROVE TypeOK'
  BY <1>6 DEF Admit, Goto, TypeOK, Label, Ended, requestVars
<1>7. ASSUME NEW r \in Request, Break(r) PROVE TypeOK'
  BY <1>7 DEF Break, Goto, TypeOK, Label, Ended, requestVars
<1>8. ASSUME NEW S, RevokeRows(S) PROVE TypeOK'
  BY <1>8, RevocationKeepsBindings DEF RevokeRows, TypeOK, requestVars
<1>9. CASE NextTick
  BY <1>9 DEF NextTick, TypeOK, requestVars
<1>10. CASE UNCHANGED vars
  BY <1>10 DEF vars, TypeOK, requestVars
<1>11. QED
  BY <1>1, <1>2, <1>3, <1>4, <1>5, <1>6, <1>7, <1>8, <1>9, <1>10
     DEF Next, RequestStep, Revocation, RevokeByKeycloakSid, RevokeAllForUser

-----------------------------------------------------------------------------
(***************************************************************************)
(* A step that keeps every row, its binding and its end, every user and    *)
(* every revocation keeps what holds of a request that does not move.      *)
(***************************************************************************)
LEMMA OthersUndisturbed ==
    ASSUME TypeOK, NEW r \in Request,
           BoundTo(r), StoppedIfLate(r),
           users \subseteq users',
           \A s \in Sid : sessions[s] # None =>
               /\ sessions'[s] # None
               /\ sessions'[s].fingerprint = sessions[s].fingerprint
               /\ sessions'[s].expiresAt = sessions[s].expiresAt
               /\ sessions[s].revoked => sessions'[s].revoked,
           pc'[r] = pc[r], existing'[r] = existing[r], started'[r] = started[r],
           late'[r] = late[r], sid' = sid, agent' = agent
    PROVE  BoundTo(r)' /\ StoppedIfLate(r)'
<1>1. sid[r] \in Sid
  BY DEF TypeOK
<1>2. BoundTo(r)'
  BY <1>1 DEF BoundTo, Fingerprint
<1>3. StoppedIfLate(r)'
  BY <1>1 DEF StoppedIfLate, IsRevoked
<1>4. QED
  BY <1>2, <1>3
(***************************************************************************)
(* Every step keeps the parts of the invariant: what a request has seen of *)
(* a binding stays, and a late one stays stopped.                          *)
(***************************************************************************)
LEMMA PartsPreserved ==
    ASSUME BindingStands, [Next]_vars
    PROVE  RowsBound' /\ RequestsBound' /\ LateStopped'
<1> DEFINE Kept == RowsBound' /\ \A q \in Request : BoundTo(q)' /\ StoppedIfLate(q)'
<1> SUFFICES Kept
  BY DEF RequestsBound, LateStopped
<1>a. TypeOK /\ RowsBound /\ \A q \in Request : BoundTo(q) /\ StoppedIfLate(q)
  BY DEF BindingStands, RequestsBound, LateStopped
<1> HIDE DEF Kept
<1> USE <1>a
<1>1. ASSUME NEW r \in Request, Verify(r) PROVE Kept
  <2>1. RowsBound'
    BY <1>1 DEF Verify, RefuseToken, AcceptToken, RowsBound
  <2>2. BoundTo(r)' /\ StoppedIfLate(r)'
    BY <1>1 DEF Verify, RefuseToken, AcceptToken, Goto, TypeOK, BoundTo, StoppedIfLate, IsRevoked,
                Fingerprint, requestVars
  <2>3. ASSUME NEW q \in Request \ {r} PROVE BoundTo(q)' /\ StoppedIfLate(q)'
    BY <1>1, OthersUndisturbed DEF Verify, RefuseToken, AcceptToken, Goto, TypeOK, requestVars
  <2>4. QED
    BY <2>1, <2>2, <2>3 DEF Kept
<1>2. ASSUME NEW r \in Request, LookUp(r) PROVE Kept
  <2>1. RowsBound'
    BY <1>2 DEF LookUp, RowsBound
  <2>2. BoundTo(r)' /\ StoppedIfLate(r)'
    BY <1>2 DEF LookUp, Goto, TypeOK, BoundTo, StoppedIfLate, IsRevoked, Fingerprint, requestVars
  <2>3. ASSUME NEW q \in Request \ {r} PROVE BoundTo(q)' /\ StoppedIfLate(q)'
    BY <1>2, OthersUndisturbed DEF LookUp, Goto, TypeOK, requestVars
  <2>4. QED
    BY <2>1, <2>2, <2>3 DEF Kept
<1>3. ASSUME NEW r \in Request, Decide(r) PROVE Kept
  <2>1. RowsBound'
    BY <1>3 DEF Decide, RowsBound
  <2>2. BoundTo(r)' /\ StoppedIfLate(r)'
    BY <1>3 DEF Decide, Goto, TypeOK, BoundTo, StoppedIfLate, IsRevoked, Fingerprint, requestVars, Accepts
  <2>3. ASSUME NEW q \in Request \ {r} PROVE BoundTo(q)' /\ StoppedIfLate(q)'
    BY <1>3, OthersUndisturbed DEF Decide, Goto, TypeOK, requestVars
  <2>4. QED
    BY <2>1, <2>2, <2>3 DEF Kept
<1>4. ASSUME NEW r \in Request, Provision(r) PROVE Kept
  <2>1. RowsBound'
    BY <1>4 DEF Provision, RowsBound
  <2>2. BoundTo(r)' /\ StoppedIfLate(r)'
    BY <1>4 DEF Provision, Goto, TypeOK, BoundTo, StoppedIfLate, IsRevoked, Fingerprint, requestVars
  <2>3. ASSUME NEW q \in Request \ {r} PROVE BoundTo(q)' /\ StoppedIfLate(q)'
    BY <1>4, OthersUndisturbed DEF Provision, Goto, TypeOK, requestVars
  <2>4. QED
    BY <2>1, <2>2, <2>3 DEF Kept
<1>5. ASSUME NEW r \in Request, CreateRow(r) PROVE Kept
  <2>1. RowsBound'
    BY <1>5 DEF CreateRow, RowsBound, BoundTo, TypeOK
  <2>2. ~late[r] /\ late' = late /\ sid[r] \in Sid
    BY <1>5 DEF CreateRow, StoppedIfLate, TypeOK
  <2>3. BoundTo(r)' /\ StoppedIfLate(r)'
    <3>1. CASE sessions[sid[r]] = None /\ pc' = [pc EXCEPT ![r] = "created"]
      <4>1. sessions'[sid[r]] = NewRow(r) /\ pc'[r] = "created"
        BY <1>5, <2>2, <3>1 DEF CreateRow, Goto, TypeOK
      <4>2. BoundTo(r)'
        BY <1>5, <4>1, NewRowIsRow DEF CreateRow, BoundTo, Fingerprint, requestVars
      <4>3. QED
        BY <2>2, <4>2 DEF StoppedIfLate
    <3>2. CASE pc' = [pc EXCEPT ![r] = "500"]
      BY <2>2, <3>2 DEF TypeOK, BoundTo, StoppedIfLate
    <3>3. QED
      BY <1>5, <3>1, <3>2 DEF CreateRow, Goto
  <2>4. \A s \in Sid : sessions[s] # None => sessions'[s] = sessions[s]
    BY <1>5 DEF CreateRow, TypeOK
  <2>5. ASSUME NEW q \in Request \ {r} PROVE BoundTo(q)' /\ StoppedIfLate(q)'
    BY <1>5, <2>4, OthersUndisturbed DEF CreateRow, Goto, TypeOK, requestVars
  <2>6. QED
    BY <2>1, <2>3, <2>5 DEF Kept
<1>6. ASSUME NEW r \in Request, Admit(r) PROVE Kept
  <2>1. RowsBound'
    BY <1>6 DEF Admit, RowsBound
  <2>2. BoundTo(r)' /\ StoppedIfLate(r)'
    BY <1>6 DEF Admit, Goto, TypeOK, BoundTo, StoppedIfLate, IsRevoked, Fingerprint, requestVars
  <2>3. ASSUME NEW q \in Request \ {r} PROVE BoundTo(q)' /\ StoppedIfLate(q)'
    BY <1>6, OthersUndisturbed DEF Admit, Goto, TypeOK, requestVars
  <2>4. QED
    BY <2>1, <2>2, <2>3 DEF Kept
<1>7. ASSUME NEW r \in Request, Break(r) PROVE Kept
  <2>1. RowsBound'
    BY <1>7 DEF Break, RowsBound
  <2>2. BoundTo(r)' /\ StoppedIfLate(r)'
    BY <1>7 DEF Break, Goto, TypeOK, BoundTo, StoppedIfLate, IsRevoked, Fingerprint, requestVars, Ended
  <2>3. ASSUME NEW q \in Request \ {r} PROVE BoundTo(q)' /\ StoppedIfLate(q)'
    BY <1>7, OthersUndisturbed DEF Break, Goto, TypeOK, requestVars
  <2>4. QED
    BY <2>1, <2>2, <2>3 DEF Kept
<1>8. ASSUME NEW S, RevokeRows(S) PROVE Kept
  <2>1. RowsBound'
    BY <1>8, RevocationKeepsBindings DEF RevokeRows, RowsBound
  <2>2. ASSUME NEW q \in Request PROVE BoundTo(q)' /\ StoppedIfLate(q)'
    BY <1>8, RevocationKeepsBindings, OthersUndisturbed DEF RevokeRows, requestVars
  <2>3. QED
    BY <2>1, <2>2 DEF Kept
<1>9. ASSUME NextTick \/ UNCHANGED vars PROVE Kept
  <2>1. RowsBound'
    BY <1>9 DEF NextTick, vars, RowsBound
  <2>2. ASSUME NEW q \in Request PROVE BoundTo(q)' /\ StoppedIfLate(q)'
    BY <1>9, OthersUndisturbed DEF NextTick, vars, requestVars
  <2>3. QED
    BY <2>1, <2>2 DEF Kept
<1>10. QED
  BY <1>1, <1>2, <1>3, <1>4, <1>5, <1>6, <1>7, <1>8, <1>9
     DEF Next, RequestStep, Revocation, RevokeByKeycloakSid, RevokeAllForUser

-----------------------------------------------------------------------------
(***************************************************************************)
(* The inductive invariant holds in every state: bindings stand, and late  *)
(* requests are stopped.                                                   *)
(***************************************************************************)
THEOREM BindingHolds == Spec => []BindingStands
<1>1. Init => BindingStands
  BY SessionConstants
     DEF Init, BindingStands, TypeOK, RowsBound, RequestsBound, BoundTo, LateStopped, StoppedIfLate, Label
<1>2. BindingStands /\ [Next]_vars => BindingStands'
  BY TypePreserved, PartsPreserved DEF BindingStands
<1>3. QED
  BY <1>1, <1>2, PTL DEF Spec

(* The type invariant of the guards and of the sessions table. *)
THEOREM TypeCorrect == Spec => []TypeOK
<1>1. BindingStands => TypeOK
  BY DEF BindingStands
<1>2. QED
  BY <1>1, BindingHolds, PTL

(***************************************************************************)
(* Two admitted requests of a session come from one device, also when they *)
(* raced to create its row (session.service.ts:31-35).                     *)
(***************************************************************************)
THEOREM OneDevice == Spec => []OneDevicePerSession
<1>1. BindingStands => OneDevicePerSession
  <2> SUFFICES ASSUME BindingStands, NEW r \in Request, NEW q \in Request,
                      Admitted(r), Admitted(q), sid[r] = sid[q]
               PROVE  agent[r] = agent[q]
    BY DEF OneDevicePerSession
  <2>1. Fingerprint(r) = Fingerprint(q)
    BY DEF BindingStands, RequestsBound, BoundTo, Admitted
  <2>2. QED
    BY <2>1 DEF Fingerprint
<1>2. QED
  BY <1>1, BindingHolds, PTL

(***************************************************************************)
(* An admitted request has a row that is bound to its device, had not      *)
(* expired, and whose user is provisioned (session.service.ts:46-86).      *)
(***************************************************************************)
THEOREM AdmittedBound == Spec => []AdmittedAreBound
<1>1. BindingStands => AdmittedAreBound
  BY DEF BindingStands, TypeOK, RowsBound, RequestsBound, BoundTo, AdmittedAreBound, Admitted
<1>2. QED
  BY <1>1, BindingHolds, PTL

(***************************************************************************)
(* A request that comes in after its session was revoked is not admitted   *)
(* (session.service.ts:75-77, 89-101).                                     *)
(***************************************************************************)
THEOREM RevokedRefused == Spec => []RevokedStayOut
<1>1. BindingStands => RevokedStayOut
  BY DEF BindingStands, LateStopped, StoppedIfLate, RevokedStayOut, Admitted
<1>2. QED
  BY <1>1, BindingHolds, PTL

\* The row of s stays, with its device and its end, and once revoked stays so.
RowLasts(s) ==
    sessions[s] # None =>
        /\ sessions'[s] # None
        /\ sessions'[s].fingerprint = sessions[s].fingerprint
        /\ sessions'[s].expiresAt = sessions[s].expiresAt
        /\ sessions[s].revoked => sessions'[s].revoked

(***************************************************************************)
(* No step of any request, though it writes on what it looked up earlier,  *)
(* binds a session to another device, prolongs it or takes a revocation    *)
(* back (session.service.ts:53-70, 89-101).                                *)
(***************************************************************************)
THEOREM BindingsLast == Spec => [][\A s \in Sid : RowLasts(s)]_vars
<1>1. BindingStands /\ [Next]_vars => [\A s \in Sid : RowLasts(s)]_vars
  <2> SUFFICES ASSUME TypeOK, Next, NEW s \in Sid PROVE RowLasts(s)
    BY DEF BindingStands
  <2>1. ASSUME NEW S, RevokeRows(S) PROVE RowLasts(s)
    BY <2>1, RevocationKeepsBindings DEF RowLasts
  <2>2. ASSUME NEW r \in Request, CreateRow(r) PROVE RowLasts(s)
    BY <2>2 DEF CreateRow, RowLasts, TypeOK
  <2>3. ASSUME UNCHANGED sessions PROVE RowLasts(s)
    BY <2>3 DEF RowLasts
  <2> QED
    BY <2>1, <2>2, <2>3 DEF Next, RequestStep, Revocation, RevokeByKeycloakSid,
       RevokeAllForUser, NextTick, Verify, LookUp, Decide, Provision, Admit, Break
<1> QED
  BY <1>1, BindingHolds, PTL DEF Spec

-----------------------------------------------------------------------------
(***************************************************************************)
(* What the guards do to the sessions is what SessionBinding says: the     *)
(* middleware, the throttle guard and RolesGuard leave them alone.         *)
(***************************************************************************)
THEOREM GuardsImplementSessions == GuardSpec => Spec
<1>1. GuardInit => Init
  BY DEF GuardInit
<1>2. [GuardNext]_guardVars => [Next]_vars
  BY DEF GuardNext, RefuseContentType, Throttle, Authenticate, Authorize, CheckRole, NextPeriod,
         Next, guardVars
<1>3. QED
  BY <1>1, <1>2, PTL DEF GuardSpec, Spec

\* The fields of GuardTypeOK that are not those of the sessions.
GateTypes ==
    /\ route \in [Request -> Route]
    /\ gate \in [Request -> Gate]
    /\ hits \in [Route \X Tracker -> Nat]
    /\ arrived \in [Request -> Nat]

(* A tracker is an address or a user, and a handler has a bucket. *)
LEMMA KeysAreTyped ==
    ASSUME TypeOK, GateTypes, NEW r \in Request
    PROVE  /\ AddressOf[agent[r]] \in Address
           /\ UserOf(r) \in User
           /\ <<"ip", AddressOf[agent[r]]>> \in Tracker
           /\ <<route[r], TrackerOf(r)>> \in Route \X Tracker
           /\ RateLimit[Bucket[route[r]]] \in Nat \ {0}
<1>1. AddressOf[agent[r]] \in Address /\ UserOf(r) \in User
  BY GuardConstants, SessionConstants DEF TypeOK, UserOf
<1>2. <<"ip", AddressOf[agent[r]]>> \in Tracker /\ TrackerOf(r) \in Tracker
  BY <1>1 DEF Tracker, TrackerOf
<1>3. route[r] \in Route /\ route[r] \in {"send", "listMessages", "getOne",
                                             "create", "listBundles", "cancel", "metrics"}
  BY GuardConstants DEF GateTypes, Bucket
<1>4. Bucket[route[r]] \in {"auth", "chat", "subscription"}
  BY <1>3 DEF Bucket
<1>5. QED
  BY <1>1, <1>2, <1>3, <1>4, GuardConstants

(* The steps of the guards keep the types. *)
LEMMA GateTypesPreserved ==
    ASSUME TypeOK, GateTypes, [GuardNext]_guardVars
    PROVE  GateTypes'
<1>1. ASSUME NEW r \in Request, RefuseContentType(r) \/ Authorize(r) PROVE GateTypes'
  BY <1>1 DEF RefuseContentType, Authorize, CheckRole, Open, GateTypes, Gate
<1>2. ASSUME NEW r \in Request, Throttle(r) PROVE GateTypes'
  <2>1. <<route[r], TrackerOf(r)>> \in Route \X Tracker /\ tick \in Nat
    BY KeysAreTyped DEF TypeOK
  <2>2. hits' \in [Route \X Tracker -> Nat]
    BY <1>2, <2>1 DEF Throttle, GateTypes
  <2>3. gate' \in [Request -> Gate]
    BY <1>2 DEF Throttle, Open, GateTypes, Gate
  <2>4. arrived' \in [Request -> Nat]
    BY <1>2, <2>1 DEF Throttle, GateTypes
  <2>5. QED
    BY <1>2, <2>2, <2>3, <2>4 DEF Throttle, GateTypes
<1>3. CASE UNCHANGED gateVars
  BY <1>3 DEF gateVars, GateTypes
<1>4. CASE NextPeriod
  BY <1>4 DEF NextPeriod, NoHits, GateTypes
<1>5. CASE UNCHANGED guardVars
  BY <1>5 DEF guardVars, gateVars, GateTypes
<1>6. QED
  BY <1>1, <1>2, <1>3, <1>4, <1>5 DEF GuardNext, Authenticate


-----------------------------------------------------------------------------
(***************************************************************************)
(* Why limits are own: whoever is at the throttle guard has not been       *)
(* through JwtAuthGuard, so the counter is the one of the address, and it  *)
(* is exactly the number of those it has let through in this period.  So   *)
(* who finds it at the limit has that many from the same address.          *)
(***************************************************************************)
Limit(t) == RateLimit[Bucket[t]]

HitsOf(t, a) == hits[<<t, <<"ip", a>>>>]

BeforeAuthentication ==
    \A r \in Request : gate[r] \in {"new", "415", "429"} => pc[r] = "idle"

ArrivedByNow == \A r \in Request : arrived[r] <= tick

\* The requests from address a for handler t let through at tick n.
PassedFrom(t, a, n) == {q \in Passed(t, n) : FromAddress(q, a)}

HitsExact ==
    \A t \in Route, a \in Address :
        /\ Cardinality(PassedFrom(t, a, tick)) = HitsOf(t, a)
        /\ HitsOf(t, a) <= Limit(t)

AddressLimit ==
    \A t \in Route, a \in Address :
        \A n \in 0..tick : Cardinality(PassedFrom(t, a, n)) <= Limit(t)

\* As many as the limit were let through where r arrived, when it did.
AtLimit(r) ==
    Cardinality(PassedFrom(route[r], AddressOf[agent[r]], arrived[r])) >= Limit(route[r])

RefusedAtLimit == \A r \in Request : gate[r] = "429" => AtLimit(r)

LimitKept ==
    /\ TypeOK
    /\ GateTypes
    /\ BeforeAuthentication
    /\ ArrivedByNow
    /\ HitsExact
    /\ AddressLimit
    /\ RefusedAtLimit

(* The requests let through are finitely many. *)
LEMMA PassedFinite ==
    \A t, a, n : IsFiniteSet(PassedFrom(t, a, n)) /\ Cardinality(PassedFrom(t, a, n)) \in Nat
<1> TAKE t, a, n
<1>1. IsFiniteSet(PassedFrom(t, a, n))
  BY GuardConstants, FS_Subset DEF PassedFrom, Passed, FromAddress
<1>2. QED
  BY <1>1, FS_CardinalityType

(* A step that opens the throttle guard to none changes no set of Passed. *)
LEMMA PassedSame ==
    ASSUME NEW t, NEW a, NEW n,
           \A q \in Request :
               /\ Counted(q)' <=> Counted(q)
               /\ Counted(q) => arrived'[q] = arrived[q],
           route' = route, agent' = agent
    PROVE  PassedFrom(t, a, n)' = PassedFrom(t, a, n)
BY DEF PassedFrom, Passed, FromAddress

(* A step with no effect on Passed, the clock and the counters is harmless. *)
LEMMA LimitUndisturbed ==
    ASSUME LimitKept, TypeOK', GateTypes',
           \A q \in Request :
               /\ Counted(q)' <=> Counted(q)
               /\ Counted(q) => arrived'[q] = arrived[q]
               /\ arrived'[q] \in {arrived[q], tick}
               /\ gate'[q] \in {"new", "415", "429"} => pc'[q] = "idle"
               /\ gate'[q] = "429" =>
                      \/ gate[q] = "429" /\ arrived'[q] = arrived[q]
                      \/ arrived'[q] = tick /\ HitsOf(route[q], AddressOf[agent[q]]) >= Limit(route[q]),
           route' = route, agent' = agent, hits' = hits, tick' = tick
    PROVE  LimitKept'
<1>1. \A t, a, n : PassedFrom(t, a, n)' = PassedFrom(t, a, n)
  BY PassedSame
<1>2. tick \in Nat /\ arrived \in [Request -> Nat]
  BY DEF LimitKept, TypeOK, GateTypes
<1>3. BeforeAuthentication' /\ ArrivedByNow'
  BY <1>2 DEF LimitKept, BeforeAuthentication, ArrivedByNow
<1>4. HitsExact'
  <2> SUFFICES ASSUME NEW t \in Route, NEW a \in Address
               PROVE  Cardinality(PassedFrom(t, a, tick)') = HitsOf(t, a) /\ HitsOf(t, a) <= Limit(t)
    BY DEF HitsExact, HitsOf, Limit, PassedFrom, Passed, FromAddress
  <2>1. QED
    BY <1>1 DEF LimitKept, HitsExact
<1>5. AddressLimit'
  BY <1>1 DEF LimitKept, AddressLimit, Limit
<1>6. RefusedAtLimit'
  <2> SUFFICES ASSUME NEW q \in Request, gate'[q] = "429" PROVE AtLimit(q)'
    BY DEF RefusedAtLimit
  <2>1. route[q] \in Route /\ AddressOf[agent[q]] \in Address
    BY KeysAreTyped DEF LimitKept, GateTypes
  <2>2. AtLimit(q)' <=> Cardinality(PassedFrom(route[q], AddressOf[agent[q]], arrived'[q]))
                            >= Limit(route[q])
    BY <1>1 DEF AtLimit, Limit
  <2>3. CASE gate[q] = "429" /\ arrived'[q] = arrived[q]
    BY <2>2, <2>3 DEF LimitKept, RefusedAtLimit, AtLimit
  <2>4. CASE arrived'[q] = tick /\ HitsOf(route[q], AddressOf[agent[q]]) >= Limit(route[q])
    BY <2>1, <2>2, <2>4 DEF LimitKept, HitsExact
  <2> QED
    BY <2>3, <2>4
<1>7. QED
  BY <1>3, <1>4, <1>5, <1>6 DEF LimitKept

(* The throttle guard lets a request through only below the limit. *)
LEMMA ThrottleKeepsLimit ==
    ASSUME LimitKept, TypeOK', GateTypes', NEW r \in Request, Throttle(r)
    PROVE  LimitKept'
<1> PICK now, rt, a : now = tick /\ rt = route[r] /\ a = AddressOf[agent[r]]
  OBVIOUS
<1> DEFINE k == <<rt, <<"ip", a>>>>
<1>1. /\ TrackerOf(r) = <<"ip", a>>
      /\ k \in Route \X Tracker
      /\ a \in Address
      /\ rt \in Route
  BY KeysAreTyped DEF Throttle, LimitKept, BeforeAuthentication, TrackerOf, GateTypes
<1>2. CASE gate' = [gate EXCEPT ![r] = "429"] /\ UNCHANGED hits
  <2>1. HitsOf(rt, a) >= Limit(rt)
    BY <1>1, <1>2 DEF Throttle, Open, HitsOf, Limit, LimitKept, GateTypes
  <2> QED
    BY <1>2, <2>1, LimitUndisturbed
       DEF Throttle, Counted, LimitKept, BeforeAuthentication, TypeOK, GateTypes, vars, requestVars
<1>3. CASE /\ hits[k] < Limit(rt)
           /\ hits' = [hits EXCEPT ![k] = @ + 1]
           /\ gate' = [gate EXCEPT ![r] = "counted"]
  <2>1. /\ ~Counted(r)
        /\ tick' = tick /\ route' = route /\ agent' = agent /\ pc' = pc
        /\ arrived' = [arrived EXCEPT ![r] = tick]
        /\ tick \in Nat /\ gate \in [Request -> Gate] /\ arrived \in [Request -> Nat]
        /\ hits \in [Route \X Tracker -> Nat]
    BY DEF Throttle, Counted, LimitKept, TypeOK, GateTypes, vars, requestVars
  <2>2. \A t, b, n : t # rt \/ b # a \/ n # now => PassedFrom(t, b, n)' = PassedFrom(t, b, n)
    BY <1>3, <2>1 DEF PassedFrom, Passed, FromAddress, Counted
  <2>3. PassedFrom(rt, a, now)' = PassedFrom(rt, a, now) \union {r} /\ r \notin PassedFrom(rt, a, now)
    BY <1>3, <2>1 DEF PassedFrom, Passed, FromAddress, Counted
  <2>4. Cardinality(PassedFrom(rt, a, now)') = Cardinality(PassedFrom(rt, a, now)) + 1
    <3> DEFINE S == PassedFrom(rt, a, now)
    <3>1. IsFiniteSet(S)
      BY PassedFinite
    <3>2. r \notin S
      BY <2>3
    <3> HIDE DEF S
    <3>3. Cardinality(S \union {r}) = Cardinality(S) + 1
      BY <3>1, <3>2, FS_AddElement
    <3>4. QED
      BY <2>3, <3>3 DEF S
  <2>5. BeforeAuthentication' /\ ArrivedByNow'
    BY <1>3, <2>1 DEF LimitKept, BeforeAuthentication, ArrivedByNow
  <2>6. ASSUME NEW t \in Route, NEW b \in Address
        PROVE  /\ Cardinality(PassedFrom(t, b, now)') = HitsOf(t, b)'
               /\ HitsOf(t, b)' <= Limit(t)
    <3>1. /\ Cardinality(PassedFrom(t, b, now)) = HitsOf(t, b)
          /\ HitsOf(t, b) <= Limit(t)
          /\ Cardinality(PassedFrom(t, b, now)) \in Nat
          /\ <<t, <<"ip", b>>>> \in Route \X Tracker
          /\ HitsOf(t, b) \in Nat
      BY <2>1, PassedFinite DEF LimitKept, HitsExact, Tracker, HitsOf
    <3>2. Limit(t) \in Nat
      BY GuardConstants DEF Limit, Bucket
    <3>3. CASE t = rt /\ b = a
      <4>1. HitsOf(t, b)' = HitsOf(t, b) + 1 /\ HitsOf(t, b) < Limit(t)
        BY <1>1, <1>3, <2>1, <3>3 DEF HitsOf
      <4>2. QED
        BY <2>4, <3>1, <3>2, <3>3, <4>1
    <3>4. CASE ~(t = rt /\ b = a)
      <4>1. <<t, <<"ip", b>>>> # k
        BY <3>4
      <4>2. HitsOf(t, b)' = HitsOf(t, b)
        BY <1>3, <2>1, <3>1, <4>1 DEF HitsOf
      <4>3. QED
        BY <2>2, <3>1, <3>4, <4>2
    <3>5. QED
      BY <3>3, <3>4
  <2>7. HitsExact'
    BY <2>1, <2>6 DEF HitsExact, PassedFrom, Passed, FromAddress, Limit
  <2>8. ASSUME NEW t \in Route, NEW b \in Address, NEW n \in 0..now
        PROVE  Cardinality(PassedFrom(t, b, n)') <= Limit(t)
    <3>1. CASE n = now
      <4>1. /\ Cardinality(PassedFrom(t, b, now)') = HitsOf(t, b)'
            /\ HitsOf(t, b)' <= Limit(t)
        BY <2>6
      <4>2. Cardinality(PassedFrom(t, b, now)') \in Nat
        BY <2>2, <2>3, <2>4, PassedFinite, <1>1
      <4>3. HitsOf(t, b)' \in Nat /\ Limit(t) \in Nat
        BY GuardConstants DEF HitsOf, GateTypes, Tracker, Limit, Bucket
      <4>4. QED
        BY <3>1, <4>1, <4>2, <4>3
    <3>2. CASE n # now
      BY <2>2, <3>2 DEF LimitKept, AddressLimit, Limit
    <3>3. QED
      BY <3>1, <3>2
  <2>9. AddressLimit'
    BY <2>1, <2>8 DEF AddressLimit, Limit
  <2>10. RefusedAtLimit'
    <3> SUFFICES ASSUME NEW q \in Request, gate'[q] = "429" PROVE AtLimit(q)'
      BY DEF RefusedAtLimit
    <3>1. q # r /\ gate[q] = "429" /\ arrived'[q] = arrived[q] /\ AtLimit(q)
      BY <1>3, <2>1 DEF LimitKept, RefusedAtLimit
    <3> PICK t, b, n : t = route[q] /\ b = AddressOf[agent[q]] /\ n = arrived[q]
      OBVIOUS
    <3>2. /\ Cardinality(PassedFrom(t, b, n)') >= Cardinality(PassedFrom(t, b, n))
          /\ Cardinality(PassedFrom(t, b, n)') \in Nat
      <4>1. CASE t = rt /\ b = a /\ n = now
        BY <2>4, <4>1, PassedFinite
      <4>2. CASE ~(t = rt /\ b = a /\ n = now)
        <5>1. PassedFrom(t, b, n)' = PassedFrom(t, b, n)
          BY <2>2, <4>2
        <5> QED
          BY <5>1, PassedFinite
      <4> QED
        BY <4>1, <4>2
    <3>3. Cardinality(PassedFrom(t, b, n)) >= Limit(t) /\ Limit(t) \in Nat
      BY <3>1, GuardConstants DEF AtLimit, LimitKept, GateTypes, Limit, Bucket
    <3>4. Cardinality(PassedFrom(t, b, n)') >= Limit(t)
      BY <3>2, <3>3, PassedFinite
    <3>5. AtLimit(q)' <=> Cardinality(PassedFrom(t, b, n)') >= Limit(t)
      BY <2>1, <3>1 DEF AtLimit, Limit, PassedFrom, Passed
    <3> QED
      BY <3>4, <3>5
  <2>11. QED
    BY <2>5, <2>7, <2>9, <2>10 DEF LimitKept
<1>4. QED
  BY <1>1, <1>2, <1>3 DEF Throttle, Open, Limit


(* Every step of the guards keeps the limit. *)
LEMMA LimitPreserved ==
    ASSUME LimitKept, [GuardNext]_guardVars
    PROVE  LimitKept'
<1>1. [Next]_vars
  BY DEF GuardNext, RefuseContentType, Throttle, Authenticate, Authorize, CheckRole, NextPeriod,
         Next, guardVars
<1>2. TypeOK'
  BY <1>1, TypePreserved DEF LimitKept
<1>3. GateTypes'
  BY GateTypesPreserved DEF LimitKept
<1>4. ASSUME NEW r \in Request, RefuseContentType(r) \/ Authorize(r) PROVE LimitKept'
  BY <1>2, <1>3, <1>4, LimitUndisturbed
     DEF RefuseContentType, Authorize, CheckRole, Open, Counted, LimitKept, BeforeAuthentication,
         GateTypes, vars, requestVars
<1>5. ASSUME NEW r \in Request, Throttle(r) PROVE LimitKept'
  BY <1>2, <1>3, <1>5, ThrottleKeepsLimit
<1>6. ASSUME NEW r \in Request, Authenticate(r) PROVE LimitKept'
  <2>1. gate[r] = "counted" /\ UNCHANGED gateVars /\ tick' = tick /\ agent' = agent
    BY <1>6 DEF Authenticate, RequestStep, Verify, RefuseToken, AcceptToken, LookUp,
                Decide, Provision, CreateRow, Admit,
                Break, requestVars
  <2>2. \A q \in Request \ {r} : pc'[q] = pc[q]
    BY <1>6 DEF Authenticate, RequestStep, Verify, RefuseToken, AcceptToken, LookUp,
                Decide, Provision, CreateRow, Admit,
                Break, Goto, LimitKept, TypeOK
  <2>3. QED
    BY <1>2, <1>3, <2>1, <2>2, LimitUndisturbed
       DEF gateVars, Counted, LimitKept, BeforeAuthentication
<1>7. CASE Revocation /\ UNCHANGED gateVars
  <2>1. tick' = tick /\ agent' = agent /\ pc' = pc
    BY <1>7 DEF Revocation, RevokeByKeycloakSid, RevokeAllForUser, RevokeRows, requestVars
  <2>2. QED
    BY <1>2, <1>3, <1>7, <2>1, LimitUndisturbed
       DEF gateVars, Counted, LimitKept, BeforeAuthentication
<1>8. CASE NextPeriod
  <2>1. /\ tick' = tick + 1 /\ tick \in Nat
        /\ pc' = pc /\ agent' = agent /\ route' = route /\ gate' = gate /\ arrived' = arrived
        /\ arrived \in [Request -> Nat]
    BY <1>8 DEF NextPeriod, NextTick, LimitKept, TypeOK, GateTypes, requestVars
  <2>2. BeforeAuthentication' /\ ArrivedByNow'
    BY <2>1 DEF LimitKept, BeforeAuthentication, ArrivedByNow
  <2>3. \A t, a, n : PassedFrom(t, a, n)' = PassedFrom(t, a, n)
    BY <2>1 DEF PassedFrom, Passed, FromAddress, Counted
  <2>4. \A t, a : PassedFrom(t, a, tick + 1) = {}
    BY <2>1 DEF PassedFrom, Passed, FromAddress, LimitKept, ArrivedByNow
  <2>5. Cardinality({}) = 0
    BY FS_EmptySet
  <2>6. \A t \in Route : Limit(t) \in Nat
    BY GuardConstants DEF Limit, Bucket
  <2>7. \A t \in Route, a \in Address : hits'[<<t, <<"ip", a>>>>] = 0
    BY <1>8 DEF NextPeriod, NoHits, Tracker
  <2>8. HitsExact'
    <3> SUFFICES ASSUME NEW t \in Route, NEW a \in Address
                 PROVE  Cardinality(PassedFrom(t, a, tick)') = HitsOf(t, a)' /\ HitsOf(t, a)' <= Limit(t)
      BY DEF HitsExact, Limit
    <3>1. PassedFrom(t, a, tick)' = {}
      BY <2>1, <2>4 DEF PassedFrom, Passed, FromAddress, Counted
    <3>2. QED
      BY <2>5, <2>6, <2>7, <3>1 DEF HitsOf
  <2>9. AddressLimit'
    <3> SUFFICES ASSUME NEW t \in Route, NEW a \in Address, NEW n \in 0..(tick + 1)
                 PROVE  Cardinality(PassedFrom(t, a, n)') <= Limit(t)
      BY <2>1 DEF AddressLimit, Limit
    <3>1. CASE n = tick + 1
      BY <2>3, <2>4, <2>5, <2>6, <3>1
    <3>2. CASE n # tick + 1
      BY <2>1, <2>3, <3>2 DEF LimitKept, AddressLimit, Limit
    <3>3. QED
      BY <3>1, <3>2
  <2>10. RefusedAtLimit'
    BY <2>1, <2>3 DEF LimitKept, RefusedAtLimit, AtLimit, Limit
  <2>11. QED
    BY <1>2, <1>3, <2>2, <2>8, <2>9, <2>10 DEF LimitKept
<1>9. CASE UNCHANGED guardVars
  BY <1>2, <1>3, <1>9, LimitUndisturbed
     DEF guardVars, vars, requestVars, gateVars, Counted, LimitKept, BeforeAuthentication
<1>10. QED
  BY <1>4, <1>5, <1>6, <1>7, <1>8, <1>9 DEF GuardNext

(* Initially nothing has been counted. *)
LEMMA LimitInitially == GuardInit => LimitKept
<1> SUFFICES ASSUME GuardInit PROVE LimitKept
  OBVIOUS
<1>1. TypeOK
  BY SessionConstants DEF GuardInit, Init, TypeOK, Label
<1>2. GateTypes
  BY DEF GuardInit, GateTypes, Gate, NoHits
<1>3. BeforeAuthentication /\ ArrivedByNow
  BY DEF GuardInit, Init, BeforeAuthentication, ArrivedByNow
<1>4. \A t, a, n : PassedFrom(t, a, n) = {}
  BY DEF GuardInit, PassedFrom, Passed, FromAddress, Counted
<1>5. Cardinality({}) = 0
  BY FS_EmptySet
<1>6. \A t \in Route : RateLimit[Bucket[t]] \in Nat
  BY GuardConstants DEF Bucket
<1>7. \A t \in Route, a \in Address : HitsOf(t, a) = 0
  BY DEF GuardInit, NoHits, HitsOf, Tracker
<1>8. HitsExact
  BY <1>4, <1>5, <1>6, <1>7 DEF HitsExact, Limit
<1>9. AddressLimit /\ RefusedAtLimit
  BY <1>4, <1>5, <1>6 DEF GuardInit, AddressLimit, RefusedAtLimit, Limit
<1>10. QED
  BY <1>1, <1>2, <1>3, <1>8, <1>9 DEF LimitKept

(***************************************************************************)
(* For any number of requests, users, sessions and addresses, a limit is   *)
(* spent only by those it is for: no user gets more through to a handler   *)
(* from one address than the bucket allows, and nobody is refused for the  *)
(* requests of strangers, of other handlers or of earlier periods          *)
(* (throttle-by-user.guard.ts:17-28).                                      *)
(***************************************************************************)
THEOREM LimitsHold == GuardSpec => []LimitsAreOwn
<1>1. LimitKept => LimitsAreOwn
  <2> SUFFICES ASSUME LimitKept PROVE LimitsAreOwn
    OBVIOUS
  <2>1. ASSUME NEW t \in Route, NEW u \in User, NEW a \in Address, NEW n \in 0..tick
        PROVE  Cardinality({q \in Passed(t, n) : UserOf(q) = u /\ FromAddress(q, a)})
                   <= RateLimit[Bucket[t]]
    <3> DEFINE own == {q \in Passed(t, n) : UserOf(q) = u /\ FromAddress(q, a)}
    <3>1. own \subseteq PassedFrom(t, a, n)
      BY DEF PassedFrom
    <3>2. Cardinality(PassedFrom(t, a, n)) <= Limit(t) /\ Limit(t) \in Nat
      BY GuardConstants DEF LimitKept, AddressLimit, Limit, Bucket
    <3> HIDE DEF own
    <3>3. /\ Cardinality(own) <= Cardinality(PassedFrom(t, a, n)) /\ Cardinality(own) \in Nat
          /\ Cardinality(PassedFrom(t, a, n)) \in Nat
      BY <3>1, PassedFinite, FS_Subset, FS_CardinalityType
    <3> QED
      BY <3>2, <3>3 DEF own, Limit
  <2>2. ASSUME NEW r \in Request, gate[r] = "429"
        PROVE  Cardinality({q \in Passed(route[r], arrived[r]) :
                               UserOf(q) = UserOf(r) \/ FromAddress(q, AddressOf[agent[r]])})
                   >= RateLimit[Bucket[route[r]]]
    <3> DEFINE P == PassedFrom(route[r], AddressOf[agent[r]], arrived[r])
               alike == {q \in Passed(route[r], arrived[r]) :
                            UserOf(q) = UserOf(r) \/ FromAddress(q, AddressOf[agent[r]])}
    <3>1. P \subseteq alike
      BY DEF PassedFrom
    <3>2. IsFiniteSet(alike)
      BY GuardConstants, FS_Subset DEF Passed
    <3>3. Cardinality(P) >= Limit(route[r]) /\ Limit(route[r]) \in Nat /\ Cardinality(P) \in Nat
      BY <2>2, GuardConstants, PassedFinite
         DEF LimitKept, RefusedAtLimit, AtLimit, GateTypes, Limit, Bucket
    <3> HIDE DEF P, alike
    <3>4. Cardinality(P) <= Cardinality(alike) /\ Cardinality(alike) \in Nat
      BY <3>1, <3>2, FS_Subset, FS_CardinalityType
    <3> QED
      BY <3>3, <3>4 DEF alike, Limit
  <2> QED
    BY <2>1, <2>2 DEF LimitsAreOwn
<1>2. LimitKept /\ [GuardNext]_guardVars => LimitKept'
  BY LimitPreserved
<1>3. QED
  BY <1>1, <1>2, LimitInitially, PTL DEF GuardSpec

-----------------------------------------------------------------------------
(* Who has called a handler has been admitted, and may call it. *)
HandlersPassed ==
    \A r \in Request : gate[r] = "handler" =>
        Admitted(r) /\ RoleOf(UserOf(r)) \in Roles(route[r])

(* The steps of the guards keep it so: an admitted request stays admitted. *)
LEMMA HandlersPassedPreserved ==
    ASSUME TypeOK, GateTypes, HandlersPassed, [GuardNext]_guardVars
    PROVE  HandlersPassed'
<1>1. ASSUME NEW r \in Request, RefuseContentType(r) \/ Throttle(r) \/ Authorize(r)
      PROVE  HandlersPassed'
  BY <1>1 DEF RefuseContentType, Throttle, Authorize, CheckRole, Open, HandlersPassed, Admitted, GateTypes,
              UserOf, RoleOf, Roles, vars, requestVars
<1>2. ASSUME NEW r \in Request, Authenticate(r) PROVE HandlersPassed'
  <2>1. gate[r] = "counted" /\ gate' = gate /\ route' = route /\ sid' = sid
    BY <1>2 DEF Authenticate, RequestStep, Verify, RefuseToken, AcceptToken, LookUp,
                Decide, Provision, CreateRow, Admit,
                Break, requestVars, gateVars
  <2>2. \A q \in Request \ {r} : pc'[q] = pc[q]
    BY <1>2 DEF Authenticate, RequestStep, Verify, RefuseToken, AcceptToken, LookUp,
                Decide, Provision, CreateRow, Admit,
                Break, Goto, TypeOK
  <2>3. QED
    BY <2>1, <2>2 DEF HandlersPassed, Admitted, UserOf
<1>3. CASE Revocation /\ UNCHANGED gateVars
  BY <1>3 DEF Revocation, RevokeByKeycloakSid, RevokeAllForUser, RevokeRows, requestVars, gateVars,
              HandlersPassed, Admitted, UserOf
<1>4. CASE NextPeriod \/ UNCHANGED guardVars
  BY <1>4 DEF NextPeriod, NextTick, guardVars, vars, requestVars, gateVars, HandlersPassed, Admitted, UserOf
<1>5. QED
  BY <1>1, <1>2, <1>3, <1>4 DEF GuardNext

(* The type invariant of the guards around the sessions. *)
THEOREM GuardTypeCorrect == GuardSpec => []GuardTypeOK
<1>1. LimitKept => GuardTypeOK
  BY DEF LimitKept, GateTypes, GuardTypeOK
<1>2. LimitKept /\ [GuardNext]_guardVars => LimitKept'
  BY LimitPreserved
<1>3. QED
  BY <1>1, <1>2, LimitInitially, PTL DEF GuardSpec

(***************************************************************************)
(* The session theorems hold of the requests as they pass all the guards.  *)
(***************************************************************************)
THEOREM SessionsHoldBehindGuards ==
    GuardSpec => [](BindingStands /\ OneDevicePerSession /\ AdmittedAreBound /\ RevokedStayOut)
BY GuardsImplementSessions, BindingHolds, OneDevice, AdmittedBound, RevokedRefused, PTL

(***************************************************************************)
(* A handler is reached only past all the guards: from the device of the   *)
(* session, by a provisioned user, with the role asked for, and not on a   *)
(* session that was revoked before (session-bound.guard.ts:7-12,           *)
(* roles.guard.ts:8-12).                                                   *)
(***************************************************************************)
THEOREM HandlersGuarded == GuardSpec => []HandlersAreGuarded
<1>1. GuardInit => HandlersPassed
  BY DEF GuardInit, HandlersPassed
<1>2. LimitKept /\ HandlersPassed /\ [GuardNext]_guardVars => HandlersPassed'
  BY HandlersPassedPreserved DEF LimitKept
<1>3. LimitKept /\ [GuardNext]_guardVars => LimitKept'
  BY LimitPreserved
<1>4. HandlersPassed /\ AdmittedAreBound /\ RevokedStayOut => HandlersAreGuarded
  BY DEF HandlersPassed, AdmittedAreBound, RevokedStayOut, HandlersAreGuarded, RoleOf, Roles, UserOf
<1>5. QED
  BY <1>1, <1>2, <1>3, <1>4, LimitInitially, SessionsHoldBehindGuards, PTL DEF GuardSpec

=============================================================================
