----------------------------- MODULE ChatHistory -----------------------------
(***************************************************************************)
(* GET /chat/messages and GET /chat/messages/:id while messages are being  *)
(* stored.  A client walks through the history of a user page by page, as  *)
(* limit, offset and total invite it to.  The rows of a page and the total *)
(* come from two queries, nothing holds the table still between them or    *)
(* between two pages, and rows come in by createdAt, which is the time at  *)
(* which a message was made and not the time at which it is stored.        *)
(***************************************************************************)
EXTENDS Naturals, FiniteSets

CONSTANTS
    User,
    Message,    \* the messages that are ever made
    Author,     \* the user each message belongs to
    Reader,     \* the user who walks
    Admin,      \* the users whose tokens have the admin role
    Limit,      \* the limit of the client's queries
    LastTick,   \* bound: the clock runs over 0..LastTick
    None        \* no date, no rows, no total

ASSUME HistoryConstants ==
    /\ IsFiniteSet(Message)
    /\ Author \in [Message -> User]
    /\ Reader \in User
    /\ Admin \subseteq User
    /\ Limit \in 1..100
    /\ LastTick \in Nat
    /\ None \notin Nat
    /\ \A S \in SUBSET Message : S # None

VARIABLES
    clock,      \* the server's clock; two messages may share a tick
    createdAt,  \* of each message, once it is made
    stored,     \* the chat_messages rows
    walk,       \* what the client is doing
    offset,     \* the offset of the page it asked for
    items,      \* what findMany returned for it
    total,      \* what count returned for it
    seen,       \* the messages on the pages of this walk
    before,     \* history: the reader's rows when the walk began
    size,       \* history: how many the reader's rows were when items were read
    lookup      \* history: the last answer of getOne

tableVars == <<clock, createdAt, stored>>
walkVars == <<walk, offset, items, total, seen, before, size>>
vars == <<tableVars, walkVars, lookup>>

\* where: { userId }.
RowsOf(u) == {m \in stored : Author[m] = u}

Own == RowsOf(Reader)

Init ==
    /\ clock = 0
    /\ createdAt = [m \in Message |-> None]
    /\ stored = {}
    /\ walk = "idle"
    /\ offset = 0
    /\ items = None
    /\ total = None
    /\ seen = {}
    /\ before = {}
    /\ size = 0
    /\ lookup = None

-----------------------------------------------------------------------------
\* ChatMessage.create.
Create(m) ==
    /\ createdAt[m] = None
    /\ createdAt' = [createdAt EXCEPT ![m] = clock]
    /\ UNCHANGED <<clock, stored, walkVars, lookup>>

Save(m) ==
    /\ createdAt[m] # None
    /\ stored' = stored \union {m}
    /\ UNCHANGED <<clock, createdAt, walkVars, lookup>>

Tick ==
    /\ clock < LastTick
    /\ clock' = clock + 1
    /\ UNCHANGED <<createdAt, stored, walkVars, lookup>>

\* orderBy createdAt desc: S are rows of R that may come before all the others.
Leads(S, R) == \A m \in S, n \in R \ S : createdAt[m] >= createdAt[n]

Least(i, j) == IF i <= j THEN i ELSE j

\* Plausible bug: no orderBy.
FirstOfAny(n, R) == {S \in SUBSET R : Cardinality(S) = Least(n, Cardinality(R))}

\* What the first n of the rows R may be; which of equal dates is first is open.
First(n, R) ==
    {S \in SUBSET R : Cardinality(S) = Least(n, Cardinality(R)) /\ Leads(S, R)}

\* Plausible bug: the rows are not filtered by user.
PagesOfAll(R) ==
    UNION {{T \ S : S \in First(offset, stored) \cap SUBSET T} :
               T \in First(offset + Limit, stored)}

\* skip: offset, take: limit.
Pages(R) ==
    UNION {{T \ S : S \in First(offset, R) \cap SUBSET T} : T \in First(offset + Limit, R)}

\* The client asks for the first page.
Begin ==
    /\ walk # "asked"
    /\ walk' = "asked"
    /\ offset' = 0
    /\ items' = None
    /\ total' = None
    /\ seen' = {}
    /\ before' = Own
    /\ UNCHANGED <<tableVars, size, lookup>>

\* The two queries of list run at once, in either order.
FindMany ==
    /\ walk = "asked" /\ items = None
    /\ items' \in Pages(Own)
    /\ size' = Cardinality(Own)
    /\ UNCHANGED <<tableVars, walk, offset, total, seen, before, lookup>>

Count ==
    /\ walk = "asked" /\ total = None
    /\ total' = Cardinality(Own)
    /\ UNCHANGED <<tableVars, walk, offset, items, seen, before, size, lookup>>

\* Plausible bug: the next page is asked for as if this one had one row more.
ReplySkipping ==
    /\ walk = "asked" /\ items # None /\ total # None
    /\ seen' = seen \union items
    /\ \/ offset + Limit >= total /\ walk' = "ended" /\ UNCHANGED <<offset, items, total>>
       \/ /\ offset + Limit < total
          /\ offset' = offset + Limit + 1 /\ items' = None /\ total' = None
          /\ UNCHANGED walk
    /\ UNCHANGED <<tableVars, before, size, lookup>>

\* The page is answered; the client asks for the next unless it was the last.
Reply ==
    /\ walk = "asked" /\ items # None /\ total # None
    /\ seen' = seen \union items
    /\ \/ offset + Limit >= total /\ walk' = "ended" /\ UNCHANGED <<offset, items, total>>
       \/ /\ offset + Limit < total
          /\ offset' = offset + Limit /\ items' = None /\ total' = None
          /\ UNCHANGED walk
    /\ UNCHANGED <<tableVars, before, size, lookup>>

\* Either query fails: Promise.all rejects, and the client asks again.
Break ==
    /\ walk = "asked"
    /\ items' = None /\ total' = None
    /\ UNCHANGED <<tableVars, walk, offset, seen, before, size, lookup>>

\* What getOne answers of message m if page is what list has returned.
StatusOf(u, m, page) ==
    IF m \notin page THEN "404"
    ELSE IF Author[m] # u /\ u \notin Admin THEN "403"
    ELSE "200"

\* User u asks for m, and page is the list that getOne searches.
LookedUp(u, m, page) ==
    /\ lookup' = [caller |-> u, message |-> m, held |-> m \in stored,
                  status |-> StatusOf(u, m, page)]
    /\ UNCHANGED <<tableVars, walkVars>>

\* Plausible bug: getOne looks at the latest row of all users.
GetOneOfAll(u, m) == \E page \in First(1, stored) : LookedUp(u, m, page)

\* getOne lists the caller's rows with limit 1 and offset 0 and searches that
\* page.  Its check of owner and role comes after, and so never refuses.
GetOne(u, m) == \E page \in First(1, RowsOf(u)) : LookedUp(u, m, page)

Next ==
    \/ \E m \in Message : Create(m) \/ Save(m)
    \/ \E u \in User, m \in Message : GetOne(u, m)
    \/ Tick
    \/ Begin \/ FindMany \/ Count \/ Reply \/ Break

Spec == Init /\ [][Next]_vars

-----------------------------------------------------------------------------
TypeOK ==
    /\ clock \in Nat
    /\ createdAt \in [Message -> Nat \union {None}]
    /\ stored \in SUBSET {m \in Message : createdAt[m] # None}
    /\ walk \in {"idle", "asked", "ended"}
    /\ offset \in Nat
    /\ items = None \/ items \in SUBSET Own
    /\ total \in Nat \union {None}
    /\ seen \in SUBSET Own
    /\ before \in SUBSET Own
    /\ size \in Nat
    /\ lookup \in [caller : User, message : Message, held : BOOLEAN,
                   status : {"200", "403", "404"}] \union {None}

Newer(m) == {n \in Own : createdAt[n] > createdAt[m]}

Tied(m) == \E n \in Own \ {m} : createdAt[n] = createdAt[m]

\* An unseen message is on the page asked for or on one after it.
Ahead(m) ==
    /\ Cardinality(Newer(m)) >= offset
    /\ items # None =>
           \/ m \in items
           \/ Cardinality(Newer(m)) >= offset + Limit /\ size > offset + Limit

(***************************************************************************)
(* The walk never steps over a message that was there when it began: what  *)
(* is stored meanwhile may push messages back onto a later page, where     *)
(* they are seen twice, but never forward, whatever the order in which     *)
(* messages are made and stored (prisma-chat-message.repository.ts:41-49). *)
(* This needs dates that differ: nothing fixes the order of equal ones.    *)
(***************************************************************************)
UnseenIsAhead ==
    walk = "asked" => \A m \in before : m \in seen \/ Tied(m) \/ Ahead(m)

(***************************************************************************)
(* A walk that has ended has shown every message of a date of its own that *)
(* was there when it began, unless the total of its last page was older    *)
(* than the rows of it: then the client stops too early.                   *)
(***************************************************************************)
WalkIsComplete ==
    walk = "ended" => \A m \in before : m \in seen \/ Tied(m) \/ total < size

(***************************************************************************)
(* Whoever calls GET /chat/messages/:id, a message is shown to its user    *)
(* and to admins only, and a user is told that a message of their own is   *)
(* not there only if it is not, or another of their own is as new: what    *)
(* others store meanwhile never hides it (chat.controller.ts:70-89).       *)
(* (That an admin gets a message of others is not promised: the list is    *)
(* the caller's, so such a message is a 404 for an admin too.)             *)
(***************************************************************************)
OnlyOwnHide ==
    lookup # None =>
        LET m == lookup.message
            u == lookup.caller
        IN  /\ lookup.status = "200" => m \in stored /\ (Author[m] = u \/ u \in Admin)
            /\ lookup.status # "200" /\ lookup.held /\ Author[m] = u =>
                   \E n \in RowsOf(u) \ {m} : createdAt[n] >= createdAt[m]
=============================================================================
