------------------------------- MODULE ChatSend -------------------------------
(***************************************************************************)
(* POST /chat/messages from the moment the guards let it through: the body *)
(* is validated, SendChatMessageUseCase deducts quota, asks the AI client, *)
(* builds the message and saves it, and the controller answers.  These are *)
(* separate awaits with nothing around them: any of them may fail, the     *)
(* timeout middleware, whose timer runs from the start, may have answered  *)
(* 408 meanwhile, the client may be gone, the process may stop, and quota  *)
(* once deducted is never given back.                                      *)
(*                                                                         *)
(* The quota tables are those of AtomicQuota, which QuotaTransaction       *)
(* implements; an action here makes at most one step of it.                *)
(***************************************************************************)
EXTENDS QuotaRules, FiniteSets

CONSTANTS
    Request,    \* the requests that are ever sent
    LastMonth   \* bound: the months are 0..LastMonth

ASSUME ChatConstants ==
    /\ IsFiniteSet(Request)
    /\ LastMonth \in Nat

VARIABLES
    used, bundles, outcome,  \* of AtomicQuota
    pc,         \* the await each request stands at
    who,        \* the user each request is authenticated as
    question,   \* the question, as far as the checks on it go
    reply,      \* the status sent to the client
    messages,   \* the chat_messages rows
    month,      \* the month on the clock
    date        \* the last date each request has read off it, as a month

Quota == INSTANCE AtomicQuota

quotaVars == <<used, bundles, outcome>>
clock == <<month, date>>
vars == <<quotaVars, pc, who, question, reply, messages, clock>>

\* A question is absent, or of white space only, or a text.
Question == {"empty", "blank", "text"}

Status == {"201", "400", "408", "429", "500"}

Granted(o) == o.kind \in {"FREE", "BUNDLE"}

\* What a row keeps of the outcome: source and bundleId, and not the month.
SourceOf(o) == IF o.kind = "FREE" THEN [kind |-> "FREE"] ELSE o

\* Plausible bug: the record keeps the kind of source and not which bundle.
MessageOfKind(r) ==
    [request |-> r, user |-> who[r], paidBy |-> [kind |-> outcome[r].kind], createdAt |-> date[r]]

\* An audit record: the request it answers, the source that paid, the date.
MessageOf(r) ==
    [request |-> r, user |-> who[r], paidBy |-> SourceOf(outcome[r]), createdAt |-> date[r]]

Init ==
    /\ Quota!Init
    /\ pc = [r \in Request |-> "idle"]
    /\ who \in [Request -> User]
    /\ question \in [Request -> Question]
    /\ reply = [r \in Request |-> "none"]
    /\ messages = {}
    /\ month = 0
    /\ date = [r \in Request |-> 0]

-----------------------------------------------------------------------------
Goto(r, label) == pc' = [pc EXCEPT ![r] = label]

\* Whoever comes first writes the response; headers are sent only once.
Respond(r, status) ==
    reply' = [reply EXCEPT ![r] = IF @ = "none" THEN status ELSE @]

Finish(r, status) == Goto(r, "done") /\ Respond(r, status)

ReadClock(r) == date' = [date EXCEPT ![r] = month]

\* The ValidationPipe: @IsNotEmpty refuses the empty string, and it only.
\* The use case then reads the clock, and deducts for that moment's month.
Receive(r) ==
    /\ pc[r] = "idle"
    /\ \/ question[r] = "empty" /\ Finish(r, "400") /\ UNCHANGED date
       \/ question[r] # "empty" /\ Goto(r, "deduct") /\ ReadClock(r) /\ UNCHANGED reply
    /\ UNCHANGED <<quotaVars, who, question, messages, month>>

\* What a deduction for user u can come to.
ForUser(u, o) ==
    /\ o.kind \in {"FREE", "EXHAUSTED"} => o.user = u
    /\ o.kind = "BUNDLE" => Owner[o.bundle] = u

\* What the rules ask of it: the window is that of the month the request
\* read, and a bundle pays, or nothing, when that window is used up.
InMonthRead(r, o) ==
    /\ o.kind \in {"FREE", "EXHAUSTED"} => o.month = date[r]
    /\ o.kind = "BUNDLE" => used[who[r]][date[r]] = FreeAllowance

\* Plausible bug: the user of the query is not that of the request.
DeductForAnyone(r) ==
    /\ pc[r] = "deduct"
    /\ Quota!GrantFree(r) \/ Quota!GrantBundle(r) \/ Quota!Refuse(r) \/ Quota!Fail(r)
    /\ InMonthRead(r, outcome'[r])
    /\ Goto(r, "decided")
    /\ UNCHANGED <<who, question, reply, messages, clock>>

Deduct(r) ==
    /\ pc[r] = "deduct"
    /\ Quota!GrantFree(r) \/ Quota!GrantBundle(r) \/ Quota!Refuse(r) \/ Quota!Fail(r)
    /\ ForUser(who[r], outcome'[r])
    /\ InMonthRead(r, outcome'[r])
    /\ Goto(r, "decided")
    /\ UNCHANGED <<who, question, reply, messages, clock>>

\* The promise of the deduction is settled.
Proceed(r) ==
    /\ pc[r] = "decided"
    /\ \/ Granted(outcome[r]) /\ Goto(r, "chat") /\ UNCHANGED reply
       \/ outcome[r].kind = "EXHAUSTED" /\ Finish(r, "429")
       \/ outcome[r].kind = "FAILED" /\ Finish(r, "500")
    /\ UNCHANGED <<quotaVars, who, question, messages, clock>>

\* aiClient.chat(question).
Chat(r) ==
    /\ pc[r] = "chat"
    /\ Goto(r, "create")
    /\ UNCHANGED <<quotaVars, who, question, reply, messages, clock>>

\* ChatMessage.create trims the question and throws if nothing is left; the
\* message is dated now, not when its quota was deducted.
Create(r) ==
    /\ pc[r] = "create"
    /\ \/ question[r] = "blank" /\ Finish(r, "500") /\ UNCHANGED date
       \/ question[r] # "blank" /\ Goto(r, "save") /\ ReadClock(r) /\ UNCHANGED reply
    /\ UNCHANGED <<quotaVars, who, question, messages, month>>

\* Plausible bug: the answer does not wait for the row.
SaveLater(r) ==
    /\ pc[r] = "save"
    /\ Goto(r, "saved")
    /\ UNCHANGED <<quotaVars, who, question, reply, messages, clock>>

\* Plausible bug: the record forgets which source paid.
SaveAsFree(r) ==
    /\ pc[r] = "save"
    /\ messages' = messages \union
           {[MessageOf(r) EXCEPT !.paidBy = [kind |-> "FREE"]]}
    /\ Goto(r, "saved")
    /\ UNCHANGED <<quotaVars, who, question, reply, clock>>

\* The upsert never meets its own id: every execution makes a new one.
Save(r) ==
    /\ pc[r] = "save"
    /\ messages' = messages \union {MessageOf(r)}
    /\ Goto(r, "saved")
    /\ UNCHANGED <<quotaVars, who, question, reply, clock>>

Answer(r) ==
    /\ pc[r] = "saved"
    /\ Finish(r, "201")
    /\ UNCHANGED <<quotaVars, who, question, messages, clock>>

\* A rejected promise, also one whose work in the database was done; the
\* exception filter answers 500, and nothing is undone.
Break(r) ==
    /\ pc[r] \in {"decided", "chat", "save", "saved"}
    /\ Finish(r, "500")
    /\ UNCHANGED <<quotaVars, who, question, messages, clock>>

Waiting(r) == pc[r] # "idle" /\ reply[r] = "none"

\* Plausible bug: the timer covers the call of the AI client only.
TimeoutInChat(r) ==
    /\ Waiting(r) /\ pc[r] = "chat"
    /\ Respond(r, "408")
    /\ UNCHANGED <<quotaVars, pc, who, question, messages, clock>>

\* RequestTimeoutMiddleware answers; the handler goes on regardless.
Timeout(r) ==
    /\ Waiting(r)
    /\ Respond(r, "408")
    /\ UNCHANGED <<quotaVars, pc, who, question, messages, clock>>

\* The client closes the connection, which clears the timer.
Disconnect(r) ==
    /\ Waiting(r)
    /\ Respond(r, "closed")
    /\ UNCHANGED <<quotaVars, pc, who, question, messages, clock>>

InFlight(r) == pc[r] \notin {"idle", "done"}

\* The process stops: what was in flight stays as far as it has come.
Crash ==
    /\ \E r \in Request : InFlight(r)
    /\ pc' = [r \in Request |-> IF InFlight(r) THEN "done" ELSE pc[r]]
    /\ reply' = [r \in Request |-> IF InFlight(r) /\ reply[r] = "none" THEN "closed" ELSE reply[r]]
    /\ UNCHANGED <<quotaVars, who, question, messages, clock>>

\* The subscriptions module, of which only the creation of a bundle is of use
\* here: its other operations change when a bundle can pay, and nothing else.
CreateBundle(b) ==
    /\ ~bundles[b].present
    /\ bundles' = [bundles EXCEPT ![b] = [present |-> TRUE, active |-> TRUE,
                                          remaining |-> InitialRemaining(b), activatedAt |-> 0]]
    /\ UNCHANGED <<used, outcome, pc, who, question, reply, messages, clock>>

\* The clock passes the end of a month.
NextMonth ==
    /\ month < LastMonth
    /\ month' = month + 1
    /\ UNCHANGED <<quotaVars, pc, who, question, reply, messages, date>>

Handler(r) ==
    \/ Receive(r) \/ Deduct(r) \/ Proceed(r) \/ Chat(r) \/ Create(r) \/ Save(r) \/ Answer(r)

Next ==
    \/ \E r \in Request : Handler(r) \/ Break(r) \/ Timeout(r) \/ Disconnect(r)
    \/ \E b \in Bundle : CreateBundle(b)
    \/ Crash
    \/ NextMonth

Spec == Init /\ [][Next]_vars

\* The event loop runs its timers; no fairness of the handler is assumed.
FairSpec == Spec /\ \A r \in Request : WF_vars(Timeout(r))

-----------------------------------------------------------------------------
Label == {"idle", "deduct", "decided", "chat", "create", "save", "saved", "done"}

Source == {[kind |-> "FREE"]} \union {Quota!Charged(b) : b \in Bundle}

Message == [request : Request, user : User, paidBy : Source, createdAt : Quota!Month]

TypeOK ==
    /\ Quota!TypeOK
    /\ pc \in [Request -> Label]
    /\ who \in [Request -> User]
    /\ question \in [Request -> Question]
    /\ reply \in [Request -> Status \union {"none", "closed"}]
    /\ messages \in SUBSET Message
    /\ month \in Quota!Month
    /\ date \in [Request -> Quota!Month]

Saved(r) == \E m \in messages : m.request = r

\* The progress of a request: what each label says of quota and message.
Progress ==
    \A r \in Request :
        /\ outcome[r] # Quota!Open => ForUser(who[r], outcome[r])
        /\ date[r] <= month
        /\ outcome[r].kind = "FREE" => outcome[r].month <= date[r]
        /\ reply[r] \in {"201", "400", "429"} => pc[r] = "done"
        /\ pc[r] \in {"idle", "deduct"} => outcome[r] = Quota!Open /\ ~Saved(r)
        /\ pc[r] \in {"chat", "create", "save"} => Granted(outcome[r]) /\ ~Saved(r)
        /\ pc[r] \notin {"idle", "done"} => question[r] # "empty"
        /\ pc[r] = "save" => question[r] = "text"
        /\ pc[r] = "decided" => ~Saved(r)
        /\ pc[r] = "saved" => MessageOf(r) \in messages
        /\ pc[r] = "idle" => reply[r] = "none"

(***************************************************************************)
(* The status a client is given is true of the tables, whatever raced with *)
(* it: 201 means that the message is stored with the source that paid for  *)
(* it; 400 and 429 mean that nothing was stored and nothing paid.  (408    *)
(* and 500 mean neither: the message may be paid, and may be stored.)      *)
(***************************************************************************)
RepliesTellTheTruth ==
    \A r \in Request :
        /\ reply[r] = "201" => MessageOf(r) \in messages
        /\ reply[r] \in {"400", "429"} => ~Saved(r) /\ ~Granted(outcome[r])

(***************************************************************************)
(* The stored messages are the audit record of the quota                   *)
(* (chat-message.ts:21-25): each was paid by the source it names, a source *)
(* of its own user, for a question that has a text, though validation lets *)
(* white space pass, and no request is stored twice.  A free message was   *)
(* counted in the window of a month no later than the one it is dated.     *)
(***************************************************************************)
AuditIsPaid ==
    \A m \in messages :
        LET o == outcome[m.request]
        IN  /\ Granted(o) /\ m.paidBy = SourceOf(o)
            /\ m.user = who[m.request] /\ ForUser(m.user, o)
            /\ o.kind = "FREE" => o.month <= m.createdAt
            /\ question[m.request] = "text"
            /\ \A n \in messages : n.request = m.request => n = m

\* The free messages that user u has been given in the months 0..t, each as
\* its month and its number in that month's window.
FreeGiven(u, t) == {g \in (0..t) \X (1..FreeAllowance) : g[2] <= used[u][g[1]]}

(***************************************************************************)
(* The free messages stored for a user, by the dates their rows have, are  *)
(* never ahead of the windows: those dated up to the end of any month are  *)
(* no more than the windows up to that month have counted, and no window   *)
(* counts more than the allowance.  (A row does not say which window paid, *)
(* and is dated after the deduction: a month may hold more free messages   *)
(* than its own window counted, by those deducted at the end of the month  *)
(* before, and this is as much as the rows promise.)                       *)
(***************************************************************************)
FreeMessagesCounted ==
    \A u \in User, t \in Quota!Month :
        LET stored == {m \in messages : /\ m.user = u /\ m.paidBy = [kind |-> "FREE"]
                                        /\ m.createdAt <= t}
        IN  Cardinality(stored) <= Cardinality(FreeGiven(u, t)) /\ used[u][t] <= FreeAllowance

(***************************************************************************)
(* Nor has a finite bundle more stored messages than it was charged for:   *)
(* with the messages it has left they are at most those its cycle began    *)
(* with, whatever failed between a charge and a save.  (What a renewal or  *)
(* a cancellation writes to remaining is Subscriptions' AllowanceKept.)    *)
(***************************************************************************)
BundleMessagesCounted ==
    \A b \in Bundle :
        LET stored == {m \in messages : m.paidBy = Quota!Charged(b)}
        IN  bundles[b].present /\ ~IsUnlimitedTier(TierOf[b]) =>
                Cardinality(stored) + bundles[b].remaining <= InitialRemaining(b)

(***************************************************************************)
(* Every request that is received is answered, or its client is gone, even *)
(* if the database or the AI client never comes back.                      *)
(***************************************************************************)
EveryRequestAnswered == \A r \in Request : pc[r] # "idle" ~> reply[r] # "none"
=============================================================================
