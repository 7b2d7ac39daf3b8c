----------------------------- MODULE RequestGuards -----------------------------
(***************************************************************************)
(* Everything a request passes before its handler, in the order of the     *)
(* framework: the content type middleware, the global throttle guard, and  *)
(* then the guards of the controller: JwtAuthGuard and SessionBoundGuard,  *)
(* which are those of SessionBinding, and RolesGuard.                      *)
(*                                                                         *)
(* The throttle guard wants to count by user, but req.user is set by       *)
(* JwtAuthGuard, which runs after it.                                      *)
(***************************************************************************)
EXTENDS SessionBinding, FiniteSets

CONSTANTS
    Route,      \* the handlers with all guards on them
    Address,    \* what x-forwarded-for says, or else the socket
    AddressOf,  \* the address each device has
    Admin,      \* the users whose tokens have the admin role
    RateLimit   \* the limit of each bucket

\* @SkipThrottle leaves the handlers of each controller one of the buckets.
Bucket ==
    [send   |-> "chat",         listMessages |-> "chat",         getOne |-> "chat",
     create |-> "subscription", listBundles  |-> "subscription", cancel |-> "subscription",
     metrics |-> "auth"]

ASSUME GuardConstants ==
    /\ IsFiniteSet(Request)
    /\ Route \subseteq DOMAIN Bucket
    /\ AddressOf \in [Agent -> Address]
    /\ Admin \subseteq User
    /\ RateLimit \in [{"auth", "chat", "subscription"} -> Nat \ {0}]

VARIABLES
    route,      \* the handler each request is for
    gate,       \* what the middleware and the guards around the session say
    hits,       \* the throttler's counters in this period, by handler and tracker
    arrived     \* history: the tick at which each request arrived

gateVars == <<route, gate, hits, arrived>>
guardVars == <<vars, gateVars>>

UserOf(r) == Subject[sid[r]]

Tracker == ({"ip"} \X Address) \union ({"user"} \X User)

NoHits == [k \in Route \X Tracker |-> 0]

GuardInit ==
    /\ Init
    /\ route \in [Request -> Route]
    /\ gate = [r \in Request |-> "new"]
    /\ hits = NoHits
    /\ arrived = [r \in Request |-> 0]

\* Plausible bug: the key is the last hop of x-forwarded-for, the proxy.
TrackProxy(r) == <<"ip", CHOOSE a \in Address : TRUE>>

\* getTracker.  JwtAuthGuard has set req.user once it has let r through.
TrackerOf(r) ==
    IF pc[r] \in {"idle", "401"} THEN <<"ip", AddressOf[agent[r]]>> ELSE <<"user", UserOf(r)>>

Open(r, status) == gate' = [gate EXCEPT ![r] = status]

\* A body without the content type is refused before anything is counted.
RefuseContentType(r) ==
    /\ gate[r] = "new"
    /\ Open(r, "415")
    /\ UNCHANGED <<vars, route, hits, arrived>>

\* The throttler, a library, counts hits by handler and tracker: a limit is
\* that of each handler of a controller, and not of the controller.
Throttle(r) ==
    /\ gate[r] = "new"
    /\ arrived' = [arrived EXCEPT ![r] = tick]
    /\ LET k == <<route[r], TrackerOf(r)>>
           limit == RateLimit[Bucket[route[r]]]
       IN  \/ hits[k] < limit /\ hits' = [hits EXCEPT ![k] = @ + 1] /\ Open(r, "counted")
           \/ hits[k] >= limit /\ Open(r, "429") /\ UNCHANGED hits
    /\ UNCHANGED <<vars, route>>

\* One step in JwtAuthGuard or SessionBoundGuard.
Authenticate(r) ==
    /\ gate[r] = "counted"
    /\ RequestStep(r)
    /\ UNCHANGED gateVars

RoleOf(u) == IF u \in Admin THEN "admin" ELSE "user"

\* @Roles of the handlers.
Roles(t) == IF t = "metrics" THEN {"admin"} ELSE {"user", "admin"}

CheckRole(r) ==
    /\ Open(r, IF RoleOf(UserOf(r)) \in Roles(route[r]) THEN "handler" ELSE "403")
    /\ UNCHANGED <<vars, route, hits, arrived>>

\* Plausible bug: a controller without SessionBoundGuard among its guards.
AuthorizeUnbound(r) == gate[r] = "counted" /\ pc[r] = "lookUp" /\ CheckRole(r)

\* RolesGuard, once the session guard has let r through.
Authorize(r) == gate[r] = "counted" /\ pc[r] = "admitted" /\ CheckRole(r)

\* A tick is a period of the throttler, its ttl.
NextPeriod ==
    /\ NextTick
    /\ hits' = NoHits
    /\ UNCHANGED <<route, gate, arrived>>

GuardNext ==
    \/ \E r \in Request :
           RefuseContentType(r) \/ Throttle(r) \/ Authenticate(r) \/ Authorize(r)
    \/ Revocation /\ UNCHANGED gateVars
    \/ NextPeriod

GuardSpec == GuardInit /\ [][GuardNext]_guardVars

-----------------------------------------------------------------------------
Gate == {"new", "415", "429", "counted", "403", "handler"}

Counted(r) == gate[r] \in {"counted", "403", "handler"}

GuardTypeOK ==
    /\ TypeOK
    /\ route \in [Request -> Route]
    /\ gate \in [Request -> Gate]
    /\ hits \in [Route \X Tracker -> Nat]
    /\ arrived \in [Request -> Nat]

\* The requests for handler t that were let through at tick n.
Passed(t, n) == {q \in Request : Counted(q) /\ route[q] = t /\ arrived[q] = n}

FromAddress(q, a) == AddressOf[agent[q]] = a

(***************************************************************************)
(* A limit is spent by those it is for, whichever of user and address the  *)
(* guard's key says (throttle-by-user.guard.ts:17-28): in a period no user *)
(* gets more requests of one handler through from one address than its     *)
(* bucket allows, and who is refused shares user or address with as many   *)
(* as that, let through to the same handler in the same period.  Requests  *)
(* of strangers, to other handlers and of earlier periods, wherever they   *)
(* are in the guards, cost nobody a request.                               *)
(***************************************************************************)
LimitsAreOwn ==
    /\ \A t \in Route, u \in User, a \in Address : \A n \in 0..tick :
           Cardinality({q \in Passed(t, n) : UserOf(q) = u /\ FromAddress(q, a)})
               <= RateLimit[Bucket[t]]
    /\ \A r \in Request : gate[r] = "429" =>
           Cardinality({q \in Passed(route[r], arrived[r]) :
                            UserOf(q) = UserOf(r) \/ FromAddress(q, AddressOf[agent[r]])})
               >= RateLimit[Bucket[route[r]]]

(***************************************************************************)
(* A request reaches its handler only in the order of the guards: from the *)
(* device its session is bound to, of a provisioned user, who is an admin  *)
(* where that is asked for, and not if the session was revoked when the    *)
(* token was verified (session-bound.guard.ts:7-12, roles.guard.ts:8-12).  *)
(***************************************************************************)
HandlersAreGuarded ==
    \A r \in Request : gate[r] = "handler" =>
        /\ ~late[r]
        /\ sessions[sid[r]] # None
        /\ sessions[sid[r]].fingerprint = Fingerprint(r)
        /\ UserOf(r) \in users
        /\ route[r] = "metrics" => UserOf(r) \in Admin

(***************************************************************************)
(* The end-to-end test asserts "separate per-user counters (different      *)
(* users are not affected by each other)" (security.e2e.spec.ts:45): who   *)
(* is refused has used up the limit by requests of their own.              *)
(***************************************************************************)
UsersAreCountedApart ==
    \A r \in Request : gate[r] = "429" =>
        Cardinality({q \in Passed(route[r], arrived[r]) : UserOf(q) = UserOf(r)})
            >= RateLimit[Bucket[route[r]]]
=============================================================================
