---------------------------- MODULE SessionBinding ----------------------------
(***************************************************************************)
(* What a request goes through before its handler: JwtAuthGuard verifies   *)
(* its token, SessionBoundGuard looks its Keycloak session up and, if it   *)
(* is the first of the session, provisions the user and creates the        *)
(* session row with the fingerprint of the device.  The look-up and the    *)
(* creation are statements of their own, and many requests of a session    *)
(* may be between the two at once.                                         *)
(***************************************************************************)
EXTENDS Naturals

CONSTANTS
    Request,    \* the requests that are ever made
    User,       \* the `sub` claims
    Sid,        \* the `sid` claims: Keycloak sessions
    Agent,      \* the User-Agent headers
    Subject,    \* the user of each Keycloak session
    Ttl,        \* SESSION_TTL_SECONDS, in ticks
    LastTick,   \* bound: the clock runs over 0..LastTick
    None        \* no row

ASSUME SessionConstants ==
    /\ Subject \in [Sid -> User]
    /\ Ttl \in Nat
    /\ LastTick \in Nat

VARIABLES
    tick,       \* the server's clock
    users,      \* the ids of the users rows
    sessions,   \* the sessions rows, by keycloak_sid
    pc,         \* the await each request stands at
    sid, agent, \* the claim and the header each request comes with
    started,    \* `now` of resolveSession
    existing,   \* what findUnique returned
    late        \* history: the session was revoked when the request came in

requestVars == <<sid, agent>>
vars == <<tick, users, sessions, pc, requestVars, started, existing, late>>

\* The HMAC is taken to be injective, and the secret to stay one.
Fingerprint(r) == <<Subject[sid[r]], sid[r], agent[r]>>

Row == [fingerprint : User \X Sid \X Agent, revoked : BOOLEAN, expiresAt : Nat]

ASSUME NoneIsNoRow == None \notin Row

Init ==
    /\ tick = 0
    /\ users = {}
    /\ sessions = [s \in Sid |-> None]
    /\ pc = [r \in Request |-> "idle"]
    /\ sid \in [Request -> Sid]
    /\ agent \in [Request -> Agent]
    /\ started = [r \in Request |-> 0]
    /\ existing = [r \in Request |-> None]
    /\ late = [r \in Request |-> FALSE]

-----------------------------------------------------------------------------
Goto(r, label) == pc' = [pc EXCEPT ![r] = label]

IsRevoked(s) == sessions[s] # None /\ sessions[s].revoked

\* No token, one that does not verify, or one without a sub and a sid.
RefuseToken(r) ==
    /\ Goto(r, "401")
    /\ UNCHANGED <<started, late>>

\* The session guard's first steps follow at once, up to its first await.
AcceptToken(r) ==
    /\ Goto(r, "lookUp")
    /\ started' = [started EXCEPT ![r] = tick]
    /\ late' = [late EXCEPT ![r] = IsRevoked(sid[r])]

\* JwtAuthGuard; whether a token is good is open.
Verify(r) ==
    /\ pc[r] = "idle"
    /\ RefuseToken(r) \/ AcceptToken(r)
    /\ UNCHANGED <<tick, users, sessions, requestVars, existing>>

\* session.findUnique.
LookUp(r) ==
    /\ pc[r] = "lookUp"
    /\ existing' = [existing EXCEPT ![r] = sessions[sid[r]]]
    /\ Goto(r, "decide")
    /\ UNCHANGED <<tick, users, sessions, requestVars, started, late>>

\* Plausible bug: the fingerprint is all that is compared.
DecideByFingerprint(r) ==
    /\ pc[r] = "decide"
    /\ \/ existing[r] = None /\ Goto(r, "provision")
       \/ existing[r] # None /\ existing[r].fingerprint # Fingerprint(r) /\ Goto(r, "401")
       \/ existing[r] # None /\ existing[r].fingerprint = Fingerprint(r) /\ Goto(r, "admitted")
    /\ UNCHANGED <<tick, users, sessions, requestVars, started, existing, late>>

Accepts(row, r) ==
    /\ ~row.revoked
    /\ row.expiresAt >= started[r]
    /\ row.fingerprint = Fingerprint(r)

\* The checks on the row that was found; the row may have changed since.
Decide(r) ==
    /\ pc[r] = "decide"
    /\ \/ existing[r] = None /\ Goto(r, "provision")
       \/ existing[r] # None /\ ~Accepts(existing[r], r) /\ Goto(r, "401")
       \/ existing[r] # None /\ Accepts(existing[r], r) /\ Goto(r, "admitted")
    /\ UNCHANGED <<tick, users, sessions, requestVars, started, existing, late>>

\* user.upsert.
Provision(r) ==
    /\ pc[r] = "provision"
    /\ users' = users \union {Subject[sid[r]]}
    /\ Goto(r, "create")
    /\ UNCHANGED <<tick, sessions, requestVars, started, existing, late>>

\* Plausible bug: the flag of a new row is not set.
NewRowUnset(r) == [fingerprint |-> Fingerprint(r),
                   revoked     |-> None,
                   expiresAt   |-> started[r] + Ttl]

NewRow(r) == [fingerprint |-> Fingerprint(r),
              revoked     |-> FALSE,
              expiresAt   |-> started[r] + Ttl]

\* Plausible bug: an upsert in place of the create.
UpsertRow(r) ==
    /\ pc[r] = "create"
    /\ sessions' = [sessions EXCEPT ![sid[r]] = NewRow(r)]
    /\ Goto(r, "created")
    /\ UNCHANGED <<tick, users, requestVars, started, existing, late>>

\* session.create, which rejects when the unique keycloak_sid is taken.
CreateRow(r) ==
    /\ pc[r] = "create"
    /\ \/ /\ sessions[sid[r]] = None
          /\ sessions' = [sessions EXCEPT ![sid[r]] = NewRow(r)]
          /\ Goto(r, "created")
       \/ /\ sessions[sid[r]] # None
          /\ Goto(r, "500")
          /\ UNCHANGED sessions
    /\ UNCHANGED <<tick, users, requestVars, started, existing, late>>

Admit(r) ==
    /\ pc[r] = "created"
    /\ Goto(r, "admitted")
    /\ UNCHANGED <<tick, users, sessions, requestVars, started, existing, late>>

Ended == {"admitted", "401", "500"}

\* A rejected promise, also one whose work in the database was done.
Break(r) ==
    /\ pc[r] \notin Ended \union {"idle"}
    /\ Goto(r, "500")
    /\ UNCHANGED <<tick, users, sessions, requestVars, started, existing, late>>

\* The rows of the sessions in S that have one are revoked.
RevokeRows(S) ==
    /\ sessions' = [s \in Sid |-> IF s \in S /\ sessions[s] # None
                                  THEN [sessions[s] EXCEPT !.revoked = TRUE]
                                  ELSE sessions[s]]
    /\ UNCHANGED <<tick, users, pc, requestVars, started, existing, late>>

RevokeByKeycloakSid(s) == RevokeRows({s})

RevokeAllForUser(u) == RevokeRows({s \in Sid : Subject[s] = u})

NextTick ==
    /\ tick < LastTick
    /\ tick' = tick + 1
    /\ UNCHANGED <<users, sessions, pc, requestVars, started, existing, late>>

RequestStep(r) ==
    \/ Verify(r) \/ LookUp(r) \/ Decide(r) \/ Provision(r) \/ CreateRow(r) \/ Admit(r)
    \/ Break(r)

Revocation ==
    \/ \E s \in Sid : RevokeByKeycloakSid(s)
    \/ \E u \in User : RevokeAllForUser(u)

Next ==
    \/ \E r \in Request : RequestStep(r)
    \/ Revocation
    \/ NextTick

Spec == Init /\ [][Next]_vars

-----------------------------------------------------------------------------
Label == {"idle", "lookUp", "decide", "provision", "create", "created"} \union Ended

TypeOK ==
    /\ tick \in Nat
    /\ users \in SUBSET User
    /\ sessions \in [Sid -> Row \union {None}]
    /\ pc \in [Request -> Label]
    /\ sid \in [Request -> Sid]
    /\ agent \in [Request -> Agent]
    /\ started \in [Request -> Nat]
    /\ existing \in [Request -> Row \union {None}]
    /\ late \in [Request -> BOOLEAN]

Admitted(r) == pc[r] = "admitted"

(***************************************************************************)
(* A session has one device: of two requests of a session that are both    *)
(* admitted, both come from the same, also when they were the first ones   *)
(* and raced to create the row (session.service.ts:31-35).                 *)
(***************************************************************************)
OneDevicePerSession ==
    \A r, q \in Request :
        Admitted(r) /\ Admitted(q) /\ sid[r] = sid[q] => agent[r] = agent[q]

(***************************************************************************)
(* The sid of an admitted request has a row, bound to the request's device *)
(* and not expired when the request came in, and its user is provisioned   *)
(* for the foreign keys of what the handler will write.                    *)
(***************************************************************************)
AdmittedAreBound ==
    \A r \in Request : Admitted(r) =>
        LET row == sessions[sid[r]]
        IN  /\ row # None
            /\ row.fingerprint = Fingerprint(r)
            /\ row.expiresAt >= started[r]
            /\ Subject[sid[r]] \in users

(***************************************************************************)
(* A request that comes in after its session was revoked is not admitted,  *)
(* whatever is between look-up and creation.  (One that came in before may *)
(* still be: its look-up may be older than the revocation.)                *)
(***************************************************************************)
RevokedStayOut == \A r \in Request : late[r] => ~Admitted(r)

(* The parts of the inductive invariant below. *)

\* The user of a row is there.
RowsBound ==
    \A s \in Sid : sessions[s] # None => Subject[s] \in users

\* What a request has found or created is still there, and still bound so.
BoundTo(r) ==
    /\ pc[r] = "create" => Subject[sid[r]] \in users
    /\ pc[r] = "decide" /\ existing[r] # None =>
           /\ sessions[sid[r]] # None
           /\ sessions[sid[r]].fingerprint = existing[r].fingerprint
           /\ sessions[sid[r]].expiresAt = existing[r].expiresAt
    /\ pc[r] \in {"created", "admitted"} =>
           /\ sessions[sid[r]] # None
           /\ sessions[sid[r]].fingerprint = Fingerprint(r)
           /\ sessions[sid[r]].expiresAt >= started[r]

RequestsBound == \A r \in Request : BoundTo(r)

\* A late request meets the revoked row, which nothing restores.
StoppedIfLate(r) ==
    late[r] =>
        /\ IsRevoked(sid[r])
        /\ pc[r] \in {"lookUp", "decide", "401", "500"}
        /\ pc[r] = "decide" => existing[r] # None /\ existing[r].revoked

LateStopped == \A r \in Request : StoppedIfLate(r)

(***************************************************************************)
(* The inductive invariant: once a row is created, its binding stands for  *)
(* all requests that have seen it, and a revocation for all that have not. *)
(***************************************************************************)
BindingStands ==
    /\ TypeOK
    /\ RowsBound
    /\ RequestsBound
    /\ LateStopped
=============================================================================
