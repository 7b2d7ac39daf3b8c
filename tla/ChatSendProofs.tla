--------------------------- MODULE ChatSendProofs ---------------------------
(***************************************************************************)
(* What a client is told is true, and what is stored was paid, for any     *)
(* number of requests, users, bundles and months.                          *)
(***************************************************************************)
EXTENDS ChatSend, FiniteSetTheorems, TLAPS

(* The inductive invariant. *)
HandlersSound ==
    /\ TypeOK
    /\ Progress
    /\ RepliesTellTheTruth
    /\ AuditIsPaid

\* What a step of the quota tables does to the outcome of its request.
SettledAs(r, o) ==
    /\ o \in Quota!Outcome
    /\ outcome[r] = Quota!Open
    /\ outcome' = [outcome EXCEPT ![r] = o]

\* A step of the quota tables settles one open request and keeps the types.
LEMMA QuotaStep ==
    ASSUME Quota!TypeOK, NEW r \in Request,
           Quota!GrantFree(r) \/ Quota!GrantBundle(r) \/ Quota!Refuse(r) \/ Quota!Fail(r)
    PROVE  Quota!TypeOK' /\ \E o : SettledAs(r, o)
<1>1. ASSUME NEW o \in Quota!Outcome, Quota!Settle(r, o),
             used' \in [User -> [Quota!Month -> Nat]], bundles' \in [Bundle -> Quota!Row]
      PROVE  Quota!TypeOK' /\ \E x : SettledAs(r, x)
  <2>1. SettledAs(r, o)
    BY <1>1 DEF Quota!Settle, SettledAs
  <2>2. outcome' \in [Request -> Quota!Outcome]
    BY <1>1 DEF Quota!Settle, Quota!TypeOK
  <2> QED
    BY <1>1, <2>1, <2>2 DEF Quota!TypeOK
<1>2. CASE Quota!GrantFree(r)
  <2>1. PICK u \in User, m \in Quota!Month :
            /\ used' = [used EXCEPT ![u][m] = @ + 1]
            /\ Quota!Settle(r, Quota!Free(u, m))
            /\ UNCHANGED bundles
    BY <1>2 DEF Quota!GrantFree
  <2>2. used' \in [User -> [Quota!Month -> Nat]] /\ bundles' \in [Bundle -> Quota!Row]
    BY <2>1 DEF Quota!TypeOK
  <2>3. Quota!Free(u, m) \in Quota!Outcome
    BY DEF Quota!Outcome
  <2> QED
    BY <1>1, <2>1, <2>2, <2>3
<1>3. CASE Quota!GrantBundle(r)
  <2>1. PICK b \in Bundle :
            /\ Quota!CanPay(b)
            /\ bundles' = [bundles EXCEPT ![b].remaining =
                              IF Quota!IsUnlimitedTier(TierOf[b]) THEN @ ELSE @ - 1]
            /\ Quota!Settle(r, Quota!Charged(b))
            /\ UNCHANGED used
    BY <1>3 DEF Quota!GrantBundle
  <2>2. used' \in [User -> [Quota!Month -> Nat]] /\ bundles' \in [Bundle -> Quota!Row]
    BY <2>1 DEF Quota!TypeOK, Quota!Row, Quota!CanPay
  <2>3. Quota!Charged(b) \in Quota!Outcome
    BY DEF Quota!Outcome
  <2> QED
    BY <1>1, <2>1, <2>2, <2>3
<1>4. CASE Quota!Refuse(r)
  <2>1. PICK u \in User, m \in Quota!Month :
            Quota!Settle(r, Quota!Exhausted(u, m)) /\ UNCHANGED <<used, bundles>>
    BY <1>4 DEF Quota!Refuse
  <2>2. Quota!Exhausted(u, m) \in Quota!Outcome
    BY DEF Quota!Outcome
  <2> QED
    BY <1>1, <2>1, <2>2 DEF Quota!TypeOK
<1>5. CASE Quota!Fail(r)
  <2>1. Quota!Failed \in Quota!Outcome
    BY DEF Quota!Outcome
  <2> QED
    BY <1>1, <1>5, <2>1 DEF Quota!Fail, Quota!TypeOK
<1> QED
  BY <1>2, <1>3, <1>4, <1>5

\* A free outcome is of a user and a month.
LEMMA FreeHasMonth ==
    ASSUME NEW o \in Quota!Outcome, o.kind = "FREE"
    PROVE  \E u \in User, s \in Quota!Month : o = Quota!Free(u, s)
  BY DEF Quota!Outcome, Quota!Open, Quota!Failed, Quota!Free, Quota!Exhausted, Quota!Charged

\* Nothing is in progress at first.
LEMMA InitIsSound == Init => HandlersSound
<1> SUFFICES ASSUME Init PROVE HandlersSound
  OBVIOUS
<1> USE DEF Init
<1>1. Quota!TypeOK
  BY DEF Quota!Init, Quota!TypeOK, Quota!Row, Quota!NoRow, Quota!Outcome
<1>2. TypeOK
  BY <1>1, ChatConstants DEF TypeOK, Label, Status, Quota!Month
<1>3. Progress /\ RepliesTellTheTruth /\ AuditIsPaid
  BY DEF Quota!Init, Quota!Open, Progress, RepliesTellTheTruth, AuditIsPaid, Saved
<1> QED
  BY <1>2, <1>3 DEF HandlersSound

-----------------------------------------------------------------------------
(* Steps that leave quota and messages alone. *)

\* Such a step is sound if the labels and replies it changes are.
LEMMA HandlerStep ==
    ASSUME HandlersSound, UNCHANGED <<quotaVars, who, question, messages>>,
           pc' \in [Request -> Label], reply' \in [Request -> Status \union {"none", "closed"}],
           month' \in Quota!Month, date' \in [Request -> Quota!Month],
           Progress', RepliesTellTheTruth'
    PROVE  HandlersSound'
<1>1. TypeOK'
  BY DEF HandlersSound, TypeOK, quotaVars, Quota!TypeOK
<1>2. AuditIsPaid'
  BY DEF HandlersSound, AuditIsPaid, quotaVars, ForUser, Granted, SourceOf
<1> QED
  BY <1>1, <1>2 DEF HandlersSound

\* What must hold of a request at label l.
Fits(r, l) ==
    /\ l \in Label \ {"idle"}
    /\ l = "deduct" => outcome[r] = Quota!Open /\ ~Saved(r)
    /\ l \in {"chat", "create", "save"} => Granted(outcome[r]) /\ ~Saved(r)
    /\ l = "decided" => ~Saved(r)
    /\ l = "saved" => MessageOf(r) \in messages
    /\ l \notin {"idle", "done"} => question[r] # "empty"
    /\ l = "save" => question[r] = "text"

\* What must hold of a request at label l for status s to be true.
True(r, l, s) ==
    /\ s \in Status \union {"closed"}
    /\ s \in {"201", "400", "429"} => l = "done"
    /\ s = "201" => MessageOf(r) \in messages
    /\ s \in {"400", "429"} => ~Saved(r) /\ ~Granted(outcome[r])

\* One request moves to a label that fits and is answered what is true, or
\* was answered before.
LEMMA RespondIsSound ==
    ASSUME HandlersSound, UNCHANGED <<quotaVars, who, question, messages, clock>>,
           NEW r \in Request, NEW l, NEW s, Fits(r, l), True(r, l, s),
           pc' = [pc EXCEPT ![r] = l], Respond(r, s), pc[r] # "done" \/ l = "done"
    PROVE  HandlersSound'
<1> USE DEF quotaVars, clock
<1>1. pc' \in [Request -> Label] /\ reply' \in [Request -> Status \union {"none", "closed"}]
  BY DEF HandlersSound, TypeOK, Respond, Fits, True
<1>2. \A q \in Request : MessageOf(q)' = MessageOf(q) /\ Saved(q)' = Saved(q)
  BY DEF MessageOf, SourceOf, Saved
<1>3. \A q \in Request : pc'[q] = IF q = r THEN l ELSE pc[q]
  BY DEF HandlersSound, TypeOK
<1>4. \A q \in Request : reply'[q] = reply[q] \/ (q = r /\ reply[q] = "none" /\ reply'[q] = s)
  BY DEF HandlersSound, TypeOK, Respond
<1>5. Progress' /\ month' \in Quota!Month /\ date' \in [Request -> Quota!Month]
  BY <1>2, <1>3, <1>4 DEF HandlersSound, TypeOK, Progress, ForUser, Status, Fits, True
<1>6. RepliesTellTheTruth'
  BY <1>2, <1>4 DEF HandlersSound, RepliesTellTheTruth, True
<1> QED
  BY <1>1, <1>5, <1>6, HandlerStep

\* One request moves to a label that fits, may read the clock, and is not
\* answered yet.
LEMMA MoveIsSound ==
    ASSUME HandlersSound, UNCHANGED <<quotaVars, who, question, reply, messages, month>>,
           NEW r \in Request, NEW l, Fits(r, l), pc' = [pc EXCEPT ![r] = l],
           pc[r] # "done", l # "saved", UNCHANGED date \/ ReadClock(r)
    PROVE  HandlersSound'
<1> USE DEF quotaVars
<1>1. /\ pc' \in [Request -> Label] /\ reply' \in [Request -> Status \union {"none", "closed"}]
      /\ month' \in Quota!Month /\ date' \in [Request -> Quota!Month]
  BY DEF HandlersSound, TypeOK, Fits, ReadClock
<1>2. \A q \in Request : /\ Saved(q)' = Saved(q)
                         /\ q # r => MessageOf(q)' = MessageOf(q)
  BY DEF MessageOf, SourceOf, Saved, HandlersSound, TypeOK, ReadClock
<1>3. \A q \in Request : pc'[q] = IF q = r THEN l ELSE pc[q]
  BY DEF HandlersSound, TypeOK
<1>4. \A q \in Request : date'[q] = date[q] \/ (q = r /\ date'[q] = month)
  BY DEF HandlersSound, TypeOK, ReadClock
<1>5. \A q \in Request : /\ date[q] \in Nat /\ month \in Nat
                         /\ outcome[q].kind = "FREE" => outcome[q].month \in Nat
  <2>1. Quota!Month \subseteq Nat
    BY ChatConstants DEF Quota!Month
  <2>2. ASSUME NEW q \in Request, outcome[q].kind = "FREE" PROVE outcome[q].month \in Nat
    <3>1. PICK u \in User, s \in Quota!Month : outcome[q] = Quota!Free(u, s)
      BY <2>2, FreeHasMonth DEF HandlersSound, TypeOK, Quota!TypeOK
    <3> QED
      BY <3>1, <2>1 DEF Quota!Free
  <2> QED
    BY <2>1, <2>2 DEF HandlersSound, TypeOK
<1>6. Progress'
  BY <1>2, <1>3, <1>4, <1>5 DEF HandlersSound, Progress, ForUser, Fits
<1>7. RepliesTellTheTruth'
  <2>1. reply[r] # "201"
    BY DEF HandlersSound, Progress
  <2> QED
    BY <1>2, <2>1 DEF HandlersSound, RepliesTellTheTruth
<1> QED
  BY <1>1, <1>6, <1>7, HandlerStep

\* Validation, settled promises, the AI client, create and answer.
LEMMA HandlerMoves ==
    ASSUME HandlersSound, NEW r \in Request,
           Receive(r) \/ Proceed(r) \/ Chat(r) \/ Create(r) \/ Answer(r) \/ Break(r)
    PROVE  HandlersSound'
<1> USE DEF Goto, Finish, Label, Status, clock
<1>1. /\ pc[r] \in {"idle", "deduct"} => outcome[r] = Quota!Open /\ ~Saved(r)
      /\ pc[r] \in {"chat", "create", "save"} => Granted(outcome[r]) /\ ~Saved(r)
      /\ pc[r] = "decided" => ~Saved(r)
      /\ pc[r] = "saved" => MessageOf(r) \in messages
      /\ pc[r] \notin {"idle", "done"} => question[r] # "empty"
      /\ question[r] \in Question
  BY DEF HandlersSound, Progress, TypeOK
<1>2. ~Granted(Quota!Open)
  BY DEF Quota!Open, Granted
<1>3. CASE Receive(r)
  <2>1. CASE question[r] = "empty"
    <3>1. Fits(r, "done") /\ True(r, "done", "400")
      BY <1>1, <1>2, <1>3 DEF Fits, True, Receive
    <3> QED
      BY <1>3, <2>1, <3>1, RespondIsSound DEF Receive
  <2>2. CASE question[r] # "empty"
    <3>1. Fits(r, "deduct")
      BY <1>1, <1>3, <2>2 DEF Fits, Receive
    <3> QED
      BY <1>3, <2>2, <3>1, MoveIsSound DEF Receive
  <2> QED
    BY <2>1, <2>2
<1>4. CASE Proceed(r)
  <2>1. CASE Granted(outcome[r]) /\ Goto(r, "chat") /\ UNCHANGED reply
    <3>1. Fits(r, "chat")
      BY <1>1, <1>4, <2>1 DEF Fits, Proceed
    <3> QED
      BY <1>4, <2>1, <3>1, MoveIsSound DEF Proceed
  <2>2. CASE outcome[r].kind = "EXHAUSTED" /\ Finish(r, "429")
    <3>1. Fits(r, "done") /\ True(r, "done", "429")
      BY <1>1, <1>4, <2>2 DEF Fits, True, Proceed, Granted
    <3> QED
      BY <1>4, <2>2, <3>1, RespondIsSound DEF Proceed
  <2>3. CASE outcome[r].kind = "FAILED" /\ Finish(r, "500")
    <3>1. Fits(r, "done") /\ True(r, "done", "500")
      BY DEF Fits, True
    <3> QED
      BY <1>4, <2>3, <3>1, RespondIsSound DEF Proceed
  <2> QED
    BY <1>4, <2>1, <2>2, <2>3 DEF Proceed
<1>5. CASE Chat(r)
  <2>1. Fits(r, "create")
    BY <1>1, <1>5 DEF Fits, Chat
  <2> QED
    BY <1>5, <2>1, MoveIsSound DEF Chat
<1>6. CASE Create(r)
  <2>1. CASE Finish(r, "500") /\ UNCHANGED date
    <3>1. Fits(r, "done") /\ True(r, "done", "500")
      BY DEF Fits, True
    <3> QED
      BY <1>6, <2>1, <3>1, RespondIsSound DEF Create
  <2>2. CASE question[r] # "blank" /\ Goto(r, "save") /\ ReadClock(r) /\ UNCHANGED reply
    <3>1. Fits(r, "save")
      BY <1>1, <1>6, <2>2 DEF Fits, Create, Question
    <3> QED
      BY <1>6, <2>2, <3>1, MoveIsSound DEF Create
  <2> QED
    BY <1>6, <2>1, <2>2 DEF Create
<1>7. CASE Answer(r)
  <2>1. Fits(r, "done") /\ True(r, "done", "201")
    BY <1>1, <1>7 DEF Fits, True, Answer
  <2> QED
    BY <1>7, <2>1, RespondIsSound DEF Answer
<1>8. CASE Break(r)
  <2>1. Fits(r, "done") /\ True(r, "done", "500")
    BY DEF Fits, True
  <2> QED
    BY <1>8, <2>1, RespondIsSound DEF Break
<1> QED
  BY <1>3, <1>4, <1>5, <1>6, <1>7, <1>8

\* The timer and the client, whatever the handler is doing.
LEMMA OutsideMoves ==
    ASSUME HandlersSound, NEW r \in Request, Timeout(r) \/ Disconnect(r)
    PROVE  HandlersSound'
<1>1. /\ pc' = [pc EXCEPT ![r] = pc[r]] /\ pc[r] # "idle"
      /\ UNCHANGED <<quotaVars, who, question, messages, clock>>
      /\ Respond(r, "408") \/ Respond(r, "closed")
  BY DEF HandlersSound, TypeOK, Timeout, Disconnect, Waiting
<1>2. Fits(r, pc[r])
  BY <1>1 DEF HandlersSound, TypeOK, Progress, Fits
<1>3. True(r, pc[r], "408") /\ True(r, pc[r], "closed")
  BY DEF True, Status
<1> QED
  BY <1>1, <1>2, <1>3, RespondIsSound

\* A crash ends every request, and answers none.
LEMMA CrashIsSound ==
    ASSUME HandlersSound, Crash
    PROVE  HandlersSound'
<1> USE DEF Crash, quotaVars, clock
<1>1. pc' \in [Request -> Label] /\ reply' \in [Request -> Status \union {"none", "closed"}]
  BY DEF HandlersSound, TypeOK, Label
<1>2. \A q \in Request : MessageOf(q)' = MessageOf(q) /\ Saved(q)' = Saved(q)
  BY DEF MessageOf, SourceOf, Saved
<1>3. \A q \in Request : pc'[q] = pc[q] \/ pc'[q] = "done"
  BY DEF InFlight
<1>4. \A q \in Request : reply'[q] = reply[q] \/ (reply'[q] = "closed" /\ pc[q] # "idle")
  BY DEF InFlight
<1>5. Progress' /\ month' \in Quota!Month /\ date' \in [Request -> Quota!Month]
  BY <1>2, <1>3, <1>4 DEF HandlersSound, TypeOK, Progress, ForUser, InFlight
<1>6. RepliesTellTheTruth'
  BY <1>2, <1>4 DEF HandlersSound, RepliesTellTheTruth
<1> QED
  BY <1>1, <1>5, <1>6, HandlerStep

\* The turn of a month changes no date that was read.
LEMMA NextMonthIsSound ==
    ASSUME HandlersSound, NextMonth
    PROVE  HandlersSound'
<1> USE DEF NextMonth, quotaVars
<1>1. month' \in Quota!Month /\ month \in Nat /\ month' = month + 1 /\ UNCHANGED date
  BY ChatConstants DEF HandlersSound, TypeOK, Quota!Month
<1>2. \A q \in Request : date[q] \in Nat
  BY ChatConstants DEF HandlersSound, TypeOK, Quota!Month
<1>3. \A q \in Request : MessageOf(q)' = MessageOf(q) /\ Saved(q)' = Saved(q)
  BY DEF MessageOf, SourceOf, Saved
<1>4. Progress'
  BY <1>1, <1>2, <1>3 DEF HandlersSound, Progress, ForUser
<1>5. RepliesTellTheTruth'
  BY <1>3 DEF HandlersSound, RepliesTellTheTruth
<1> QED
  BY <1>1, <1>4, <1>5, HandlerStep DEF HandlersSound, TypeOK

-----------------------------------------------------------------------------
(* Steps that change quota or messages. *)

\* A deduction changes only the outcome of a request that had none.
LEMMA DeductIsSound ==
    ASSUME HandlersSound, NEW r \in Request, Deduct(r)
    PROVE  HandlersSound'
<1>1. Quota!TypeOK' /\ \E o : SettledAs(r, o)
  BY QuotaStep DEF Deduct, HandlersSound, TypeOK
<1>2. PICK o : SettledAs(r, o)
  BY <1>1
<1>3. /\ pc[r] = "deduct" /\ pc' = [pc EXCEPT ![r] = "decided"]
      /\ ForUser(who[r], outcome'[r])
      /\ outcome'[r].kind = "FREE" => outcome'[r].month = date[r] /\ date[r] \in Nat
      /\ UNCHANGED <<who, question, reply, messages, month, date>>
  BY ChatConstants DEF Deduct, Goto, InMonthRead, clock, HandlersSound, TypeOK, Quota!Month
<1>4. \A q \in Request : q # r => outcome'[q] = outcome[q] /\ pc'[q] = pc[q]
  BY <1>2, <1>3 DEF HandlersSound, TypeOK, Quota!TypeOK, SettledAs
<1>5. pc'[r] = "decided" /\ ~Saved(r) /\ outcome[r] = Quota!Open
  BY <1>2, <1>3 DEF HandlersSound, TypeOK, Progress, SettledAs
<1>6. TypeOK'
  BY <1>1, <1>3 DEF HandlersSound, TypeOK, Label
<1>7. \A q \in Request : Saved(q)' = Saved(q) /\ (q # r => MessageOf(q)' = MessageOf(q))
  BY <1>3, <1>4 DEF MessageOf, SourceOf, Saved
<1>8. Progress'
  BY <1>3, <1>4, <1>5, <1>7 DEF HandlersSound, Progress, ForUser
<1>9. RepliesTellTheTruth'
  BY <1>3, <1>4, <1>5, <1>7 DEF HandlersSound, RepliesTellTheTruth, Progress
<1>10. AuditIsPaid'
  <2>1. \A m \in messages : m.request # r /\ m.request \in Request
    BY <1>5 DEF Saved, HandlersSound, TypeOK, Message
  <2> QED
    BY <2>1, <1>3, <1>4 DEF HandlersSound, AuditIsPaid, ForUser, Granted, SourceOf
<1> QED
  BY <1>6, <1>8, <1>9, <1>10 DEF HandlersSound

\* A save stores the one record of its request.
LEMMA SaveIsSound ==
    ASSUME HandlersSound, NEW r \in Request, Save(r)
    PROVE  HandlersSound'
<1> USE DEF quotaVars, clock
<1>1. /\ pc[r] = "save" /\ pc' = [pc EXCEPT ![r] = "saved"]
      /\ messages' = messages \union {MessageOf(r)}
      /\ UNCHANGED <<quotaVars, who, question, reply, clock>>
  BY DEF Save, Goto
<1>2. Granted(outcome[r]) /\ ~Saved(r) /\ ForUser(who[r], outcome[r]) /\ question[r] = "text"
  BY <1>1 DEF HandlersSound, Progress, Granted, Quota!Open
<1>3. /\ MessageOf(r) \in Message
      /\ MessageOf(r).request = r /\ MessageOf(r).user = who[r]
      /\ MessageOf(r).paidBy = SourceOf(outcome[r]) /\ MessageOf(r).createdAt = date[r]
  <2>1. SourceOf(outcome[r]) \in Source
    BY <1>2 DEF HandlersSound, TypeOK, Quota!TypeOK, Quota!Outcome, Quota!Open, Quota!Failed,
       Quota!Free, Quota!Exhausted, Quota!Charged, SourceOf, Source, Granted
  <2> QED
    BY <2>1 DEF HandlersSound, TypeOK, MessageOf, Message
<1>4. TypeOK'
  BY <1>1, <1>3 DEF HandlersSound, TypeOK, Quota!TypeOK, Label
<1>5. \A q \in Request : /\ MessageOf(q)' = MessageOf(q)
                         /\ q # r => Saved(q)' = Saved(q) /\ pc'[q] = pc[q]
  BY <1>1, <1>3 DEF HandlersSound, TypeOK, MessageOf, SourceOf, Saved
<1>6. pc'[r] = "saved" /\ MessageOf(r) \in messages' /\ messages \subseteq messages'
  BY <1>1 DEF HandlersSound, TypeOK
<1>7. Progress'
  BY <1>1, <1>5, <1>6 DEF HandlersSound, Progress, ForUser
<1>8. RepliesTellTheTruth'
  BY <1>1, <1>5, <1>6 DEF HandlersSound, RepliesTellTheTruth, Progress
<1>9. AuditIsPaid'
  <2>1. outcome[r].kind = "FREE" => outcome[r].month <= date[r]
    BY DEF HandlersSound, Progress
  <2> QED
    BY <1>1, <1>2, <1>3, <2>1 DEF HandlersSound, AuditIsPaid, Saved, Granted, ForUser, SourceOf
<1> QED
  BY <1>4, <1>7, <1>8, <1>9 DEF HandlersSound

\* A new bundle is none of the handlers' business.
LEMMA CreateBundleIsSound ==
    ASSUME HandlersSound, NEW b \in Bundle, CreateBundle(b)
    PROVE  HandlersSound'
<1>1. InitialRemaining(b) \in Nat
  BY QuotaConstants DEF InitialRemaining, IsUnlimitedTier, FiniteTier, Tier
<1>2. TypeOK'
  BY <1>1 DEF HandlersSound, TypeOK, Quota!TypeOK, Quota!Row, CreateBundle, clock
<1> QED
  BY <1>2 DEF CreateBundle, HandlersSound, Progress, RepliesTellTheTruth, AuditIsPaid, Saved,
              MessageOf, SourceOf, Granted, ForUser, clock

-----------------------------------------------------------------------------
LEMMA StepIsSound == HandlersSound /\ [Next]_vars => HandlersSound'
<1> SUFFICES ASSUME HandlersSound, [Next]_vars PROVE HandlersSound'
  OBVIOUS
<1>1. ASSUME NEW r \in Request, Handler(r) \/ Break(r) PROVE HandlersSound'
  BY <1>1, HandlerMoves, DeductIsSound, SaveIsSound DEF Handler
<1>2. ASSUME NEW r \in Request, Timeout(r) \/ Disconnect(r) PROVE HandlersSound'
  BY <1>2, OutsideMoves
<1>3. ASSUME NEW b \in Bundle, CreateBundle(b) PROVE HandlersSound'
  BY <1>3, CreateBundleIsSound
<1>4. CASE Crash
  BY <1>4, CrashIsSound
<1>5. CASE UNCHANGED vars
  BY <1>5 DEF vars, quotaVars, clock, HandlersSound, TypeOK, Quota!TypeOK, Progress,
              RepliesTellTheTruth, AuditIsPaid, Saved, MessageOf, SourceOf, Granted, ForUser
<1>6. CASE NextMonth
  BY <1>6, NextMonthIsSound
<1> QED
  BY <1>1, <1>2, <1>3, <1>4, <1>5, <1>6 DEF Next

(***************************************************************************)
(* The variables keep their types.                                         *)
(***************************************************************************)
THEOREM TypeCorrect == Spec => []TypeOK
<1>1. HandlersSound => TypeOK
  BY DEF HandlersSound
<1> QED
  BY <1>1, InitIsSound, StepIsSound, PTL DEF Spec

(***************************************************************************)
(* What a handler has paid and stored is what the await it stands at says, *)
(* whoever has answered its client meanwhile.                              *)
(***************************************************************************)
THEOREM ProgressHolds == Spec => []Progress
<1>1. HandlersSound => Progress
  BY DEF HandlersSound
<1> QED
  BY <1>1, InitIsSound, StepIsSound, PTL DEF Spec

(***************************************************************************)
(* A 201 is only sent when the paid message is stored, a 400 or a 429 only *)
(* when nothing was paid or stored.                                        *)
(***************************************************************************)
THEOREM RepliesAreTrue == Spec => []RepliesTellTheTruth
<1>1. HandlersSound => RepliesTellTheTruth
  BY DEF HandlersSound
<1> QED
  BY <1>1, InitIsSound, StepIsSound, PTL DEF Spec

(***************************************************************************)
(* Every stored message was paid by the source of its own user it names.   *)
(***************************************************************************)
THEOREM AuditHolds == Spec => []AuditIsPaid
<1>1. HandlersSound => AuditIsPaid
  BY DEF HandlersSound
<1> QED
  BY <1>1, InitIsSound, StepIsSound, PTL DEF Spec
-----------------------------------------------------------------------------
(***************************************************************************)
(* To the quota tables a handler is one deduction of AtomicQuota, whatever *)
(* fails, times out or stops around it.                                    *)
(***************************************************************************)
THEOREM HandlersDeduct == Spec => Quota!Spec
<1>1. Init => Quota!Init
  BY DEF Init
<1>2. HandlersSound /\ [Next]_vars => [Quota!Next]_(Quota!vars)
  <2> SUFFICES ASSUME HandlersSound, [Next]_vars, ~UNCHANGED quotaVars PROVE Quota!Next
    BY DEF quotaVars, Quota!vars
  <2>1. ASSUME NEW r \in Request, Handler(r) PROVE Quota!Next
    BY <2>1 DEF Handler, Receive, Deduct, Proceed, Chat, Create, Save, Answer, quotaVars, Quota!Next
  <2>2. ASSUME NEW b \in Bundle, CreateBundle(b) PROVE Quota!Next
    <3>1. InitialRemaining(b) \in Nat
      BY QuotaConstants DEF InitialRemaining, IsUnlimitedTier, FiniteTier, Tier
    <3>2. Quota!WriteRow(b)
      BY <2>2, <3>1 DEF CreateBundle, Quota!WriteRow, Quota!Row, HandlersSound, TypeOK, Quota!TypeOK
    <3> QED
      BY <3>2 DEF Quota!Next
  <2> QED
    BY <2>1, <2>2 DEF Next, Break, Timeout, Disconnect, Crash, NextMonth, vars, quotaVars
<1> QED
  BY <1>1, <1>2, InitIsSound, StepIsSound, PTL DEF Spec, Quota!Spec

QP == INSTANCE AtomicQuotaProofs

LEMMA QuotaCount == Spec => []QP!FreeGrantsCounted
<1>a. /\ QP!IsFiniteSet(Request)
      /\ Owner \in [Bundle -> User]
      /\ TierOf \in [Bundle -> QP!Tier]
      /\ MaxMessages \in [QP!FiniteTier -> Nat \ {0}]
      /\ FreeAllowance \in Nat \ {0}
      /\ LastMonth \in Nat
  BY ChatConstants, QuotaConstants
     DEF IsFiniteSet, QP!IsFiniteSet, Tier, QP!Tier, FiniteTier, QP!FiniteTier
<1>n. [Quota!Next]_(Quota!vars) => [QP!Next]_(QP!vars)
  BY DEF Quota!Next, QP!Next, Quota!vars, QP!vars, Quota!GrantFree, QP!GrantFree,
     Quota!GrantBundle, QP!GrantBundle, Quota!Refuse, QP!Refuse, Quota!Fail, QP!Fail,
     Quota!WriteRow, QP!WriteRow, Quota!Settle, QP!Settle, Quota!CanPay, QP!CanPay,
     Quota!Row, QP!Row, Quota!Open, QP!Open, Quota!Failed, QP!Failed, Quota!Free, QP!Free,
     Quota!Exhausted, QP!Exhausted, Quota!Charged, QP!Charged, Quota!Month, QP!Month,
     Quota!IsUnlimitedTier, QP!IsUnlimitedTier, Quota!FiniteTier, QP!FiniteTier
<1>i. Quota!Init => QP!Init
  BY DEF Quota!Init, QP!Init, Quota!NoRow, QP!NoRow, Quota!Open, QP!Open, Quota!Month, QP!Month
<1>t. HandlersSound => QP!TypeOK
  BY DEF HandlersSound, TypeOK, Quota!TypeOK, QP!TypeOK, QP!Row, Quota!Row, QP!Outcome,
         Quota!Outcome, Quota!Month, QP!Month, Quota!Open, QP!Open, Quota!Failed, QP!Failed,
         Quota!Free, QP!Free, Quota!Exhausted, QP!Exhausted, Quota!Charged, QP!Charged
<1>1. Quota!Init => QP!FreeGrantsCounted
  BY <1>i, <1>a, QP!CountInit
<1>2. HandlersSound /\ QP!FreeGrantsCounted /\ [Quota!Next]_(Quota!vars) => QP!FreeGrantsCounted'
  BY <1>n, <1>t, <1>a, QP!CountStep
<1> QED
  BY <1>1, <1>2, HandlersDeduct, InitIsSound, StepIsSound, PTL DEF Spec, Quota!Spec

\* Messages are of granted requests, and no two of the same one.
LEMMA StoredAreGranted ==
    ASSUME HandlersSound, NEW M \in SUBSET messages, NEW R \in SUBSET Request,
           \A m \in M : m.request \in R
    PROVE  IsFiniteSet(M) /\ Cardinality(M) <= Cardinality(R) /\ Cardinality(M) \in Nat
<1> DEFINE f == [m \in M |-> m.request]
<1>1. f \in [M -> R]
  OBVIOUS
<1>2. \A m, n \in M : f[m] = f[n] => m = n
  BY DEF HandlersSound, AuditIsPaid
<1>3. f \in Injection(M, R)
  BY <1>1, <1>2 DEF Injection, IsInjective
<1>4. IsFiniteSet(R)
  BY ChatConstants, FS_Subset
<1> HIDE DEF f
<1>5. IsFiniteSet(M) /\ Cardinality(M) <= Cardinality(R)
  BY <1>3, <1>4, FS_Injection
<1> QED
  BY <1>5, FS_CardinalityType

\* The grants of free messages to user u in month s, and in the months 0..t.
GrantsIn(u, s) == {r \in Request : outcome[r] = Quota!Free(u, s)}
GrantsUpTo(u, t) == {r \in Request : \E s \in 0..t : outcome[r] = Quota!Free(u, s)}

\* The grants of a month can be numbered as its window has counted them.
LEMMA GrantsNumbered ==
    ASSUME NEW u \in User, NEW s \in Quota!Month,
           used[u][s] = Cardinality(GrantsIn(u, s))
    PROVE  \E h : h \in Bijection(GrantsIn(u, s), 1..used[u][s])
<1> DEFINE G == GrantsIn(u, s)
           n == used[u][s]
<1>1. IsFiniteSet(G) /\ Cardinality(G) \in Nat
  BY ChatConstants, FS_Subset, FS_CardinalityType DEF GrantsIn
<1>2. n = Cardinality(G)
  OBVIOUS
<1> HIDE DEF G, n
<1>3. IsFiniteSet(1..n) /\ Cardinality(1..n) = n
  BY <1>1, <1>2, FS_Interval
<1>4. ExistsBijection(G, 1..n)
  BY <1>1, <1>2, <1>3, FS_SameCardinalityBij
<1> QED
  BY <1>4 DEF ExistsBijection, G, n

\* No two grants have the same month and the same number in it.
LEMMA GrantsAreGiven ==
    ASSUME NEW u \in User, NEW t \in Quota!Month,
           \A s \in Quota!Month : /\ used[u][s] = Cardinality(GrantsIn(u, s))
                                  /\ used[u][s] <= FreeAllowance
    PROVE  /\ Cardinality(GrantsUpTo(u, t)) \in Nat
           /\ Cardinality(FreeGiven(u, t)) \in Nat
           /\ Cardinality(GrantsUpTo(u, t)) <= Cardinality(FreeGiven(u, t))
<1> DEFINE G == GrantsUpTo(u, t)
           W == FreeGiven(u, t)
           num == [s \in Quota!Month |->
                      CHOOSE h : h \in Bijection(GrantsIn(u, s), 1..used[u][s])]
           f == [r \in G |-> <<outcome[r].month, num[outcome[r].month][r]>>]
<1>1. 0..t \subseteq Quota!Month /\ t \in Nat /\ FreeAllowance \in Nat
  BY ChatConstants, QuotaConstants DEF Quota!Month
<1>2. \A s \in Quota!Month : num[s] \in Bijection(GrantsIn(u, s), 1..used[u][s])
  BY GrantsNumbered
<1>3. \A s \in Quota!Month : used[u][s] \in Nat
  <2>1. \A s : IsFiniteSet(GrantsIn(u, s))
    BY ChatConstants, FS_Subset DEF GrantsIn
  <2> QED
    BY <2>1, FS_CardinalityType
<1> HIDE DEF num
<1>4. ASSUME NEW r \in G
      PROVE  /\ outcome[r].month \in 0..t /\ r \in GrantsIn(u, outcome[r].month)
             /\ num[outcome[r].month][r] \in 1..used[u][outcome[r].month]
  <2>1. outcome[r].month \in 0..t /\ r \in GrantsIn(u, outcome[r].month)
    <3>1. PICK s \in 0..t : outcome[r] = Quota!Free(u, s)
      BY <1>4 DEF GrantsUpTo
    <3>2. outcome[r].month = s
      BY <3>1 DEF Quota!Free
    <3> QED
      BY <1>4, <3>1, <3>2 DEF GrantsUpTo, GrantsIn
  <2> QED
    BY <2>1, <1>1, <1>2 DEF Bijection, Injection
<1>5. \A r \in G : f[r] \in W
  <2> SUFFICES ASSUME NEW r \in G PROVE f[r] \in W
    OBVIOUS
  <2>1. /\ f[r] = <<outcome[r].month, num[outcome[r].month][r]>>
        /\ num[outcome[r].month][r] \in 1..FreeAllowance
        /\ num[outcome[r].month][r] <= used[u][outcome[r].month]
    BY <1>1, <1>3, <1>4
  <2> QED
    BY <1>4, <2>1 DEF FreeGiven
<1>6. \A p, q \in G : f[p] = f[q] => p = q
  <2> SUFFICES ASSUME NEW p \in G, NEW q \in G, f[p] = f[q] PROVE p = q
    OBVIOUS
  <2>1. /\ outcome[p].month = outcome[q].month
        /\ num[outcome[p].month][p] = num[outcome[q].month][q]
    OBVIOUS
  <2> QED
    BY <2>1, <1>1, <1>2, <1>4 DEF Bijection, Injection, IsInjective
<1>7. f \in Injection(G, W)
  BY <1>5, <1>6 DEF Injection, IsInjective
<1>8. IsFiniteSet(W)
  <2>1. IsFiniteSet(0..t) /\ IsFiniteSet(1..FreeAllowance)
    BY <1>1, FS_Interval
  <2>2. IsFiniteSet((0..t) \X (1..FreeAllowance))
    BY <2>1, FS_Product
  <2> QED
    BY <2>2, FS_Subset DEF FreeGiven
<1>9. IsFiniteSet(G)
  BY ChatConstants, FS_Subset DEF GrantsUpTo
<1> HIDE DEF f, G, W
<1>10. Cardinality(G) <= Cardinality(W)
  BY <1>7, <1>8, FS_Injection
<1> QED
  BY <1>8, <1>9, <1>10, FS_CardinalityType DEF G, W

(***************************************************************************)
(* By the dates of their rows, free messages are never ahead of what the   *)
(* windows have counted up to then: two messages never share a grant, a    *)
(* row is never dated before its grant, and grants are counted.            *)
(***************************************************************************)
THEOREM FreeMessagesExact == Spec => []FreeMessagesCounted
<1>1. \A S : Cardinality(S) = QP!Cardinality(S)
  BY DEF Cardinality, QP!Cardinality
<1>2. HandlersSound /\ QP!FreeGrantsCounted => FreeMessagesCounted
  <2> SUFFICES ASSUME HandlersSound, QP!FreeGrantsCounted, NEW u \in User, NEW t \in Quota!Month
               PROVE  /\ Cardinality({m \in messages : /\ m.user = u /\ m.paidBy = [kind |-> "FREE"]
                                                       /\ m.createdAt <= t})
                             <= Cardinality(FreeGiven(u, t))
                      /\ used[u][t] <= FreeAllowance
    BY DEF FreeMessagesCounted
  <2> DEFINE stored == {m \in messages : /\ m.user = u /\ m.paidBy = [kind |-> "FREE"]
                                         /\ m.createdAt <= t}
  <2>1. \A s \in Quota!Month : /\ used[u][s] = Cardinality(GrantsIn(u, s))
                               /\ used[u][s] <= FreeAllowance
    BY <1>1 DEF QP!FreeGrantsCounted, QP!FreeGrants, QP!Free, Quota!Free, QP!Month, Quota!Month,
                GrantsIn
  <2>2. \A m \in stored : m.request \in GrantsUpTo(u, t)
    <3> SUFFICES ASSUME NEW m \in stored PROVE m.request \in GrantsUpTo(u, t)
      OBVIOUS
    <3> DEFINE o == outcome[m.request]
    <3>1. m.request \in Request /\ m.createdAt \in Quota!Month /\ o \in Quota!Outcome
      BY DEF HandlersSound, TypeOK, Message, Quota!TypeOK
    <3>2. /\ Granted(o) /\ m.paidBy = SourceOf(o) /\ ForUser(u, o)
          /\ o.kind = "FREE" => o.month <= m.createdAt
      BY DEF HandlersSound, AuditIsPaid
    <3>3. o.kind = "FREE"
      BY <3>2 DEF SourceOf
    <3>4. PICK s \in Quota!Month : o = Quota!Free(u, s)
      <4>1. PICK v \in User, s \in Quota!Month : o = Quota!Free(v, s)
        BY <3>1, <3>3, FreeHasMonth
      <4>2. v = u
        BY <4>1, <3>2, <3>3 DEF ForUser, Quota!Free
      <4> QED
        BY <4>1, <4>2
    <3>5. s \in 0..t
      BY <3>1, <3>2, <3>3, <3>4, ChatConstants DEF Quota!Month, Quota!Free
    <3> QED
      BY <3>1, <3>4, <3>5 DEF GrantsUpTo
  <2>3. Cardinality(stored) <= Cardinality(GrantsUpTo(u, t)) /\ Cardinality(stored) \in Nat
    <3>1. stored \in SUBSET messages /\ GrantsUpTo(u, t) \in SUBSET Request
      BY DEF GrantsUpTo
    <3> HIDE DEF stored
    <3> QED
      BY <3>1, <2>2, StoredAreGranted
  <2> HIDE DEF stored
  <2>4. Cardinality(stored) <= Cardinality(FreeGiven(u, t))
    BY <2>1, <2>3, GrantsAreGiven
  <2> QED
    BY <2>1, <2>4 DEF stored
<1> QED
  BY <1>2, QuotaCount, InitIsSound, StepIsSound, PTL DEF Spec

-----------------------------------------------------------------------------
(* What a finite bundle has left and what was taken from it. *)

BundleGrants(b) == {r \in Request : outcome[r] = Quota!Charged(b)}

\* No message is lost between the row and its grants, nor made up.
BundlesBalance ==
    \A b \in Bundle :
        /\ ~bundles[b].present => BundleGrants(b) = {}
        /\ bundles[b].present /\ ~IsUnlimitedTier(TierOf[b]) =>
               bundles[b].remaining + Cardinality(BundleGrants(b)) = InitialRemaining(b)

LEMMA InitBalance == Init => BundlesBalance
<1>1. ASSUME NEW b PROVE Quota!Open # Quota!Charged(b)
  BY DEF Quota!Open, Quota!Charged
<1> QED
  BY <1>1 DEF Init, Quota!Init, Quota!NoRow, BundlesBalance, BundleGrants

\* A balance holds of rows and grants, and of nothing else.
LEMMA BalanceUntouched ==
    ASSUME BundlesBalance, UNCHANGED <<bundles, outcome>>
    PROVE  BundlesBalance'
  BY DEF BundlesBalance, BundleGrants

\* Settling a request otherwise than with a bundle grants nothing of one.
LEMMA OtherGrantKeepsBalance ==
    ASSUME HandlersSound, BundlesBalance, UNCHANGED bundles,
           NEW r \in Request, NEW o, Quota!Settle(r, o),
           \A b \in Bundle : o # Quota!Charged(b)
    PROVE  BundlesBalance'
<1>1. \A b \in Bundle : BundleGrants(b)' = BundleGrants(b)
  <2>1. \A b : Quota!Open # Quota!Charged(b)
    BY DEF Quota!Open, Quota!Charged
  <2> QED
    BY <2>1 DEF BundleGrants, Quota!Settle, HandlersSound, TypeOK, Quota!TypeOK
<1> QED
  BY <1>1 DEF BundlesBalance

\* A grant of a bundle takes one message of it, which was there to take.
LEMMA BundleGrantKeepsBalance ==
    ASSUME HandlersSound, BundlesBalance, NEW r \in Request, Quota!GrantBundle(r)
    PROVE  BundlesBalance'
<1>1. PICK c \in Bundle :
          /\ Quota!CanPay(c)
          /\ bundles' = [bundles EXCEPT ![c].remaining =
                            IF Quota!IsUnlimitedTier(TierOf[c]) THEN @ ELSE @ - 1]
          /\ Quota!Settle(r, Quota!Charged(c))
  BY DEF Quota!GrantBundle
<1>2. outcome[r] = Quota!Open /\ outcome' = [outcome EXCEPT ![r] = Quota!Charged(c)]
  BY <1>1 DEF Quota!Settle
<1>3. /\ bundles \in [Bundle -> Quota!Row] /\ outcome \in [Request -> Quota!Outcome]
      /\ \A b \in Bundle : bundles[b].remaining \in Nat
  BY DEF HandlersSound, TypeOK, Quota!TypeOK, Quota!Row
<1>4. \A b : Quota!Open # Quota!Charged(b)
  BY DEF Quota!Open, Quota!Charged
<1>5. \A b : Quota!Charged(b) = Quota!Charged(c) => b = c
  BY DEF Quota!Charged
<1>6. ASSUME NEW b \in Bundle, b # c
      PROVE  bundles'[b] = bundles[b] /\ BundleGrants(b)' = BundleGrants(b)
  BY <1>1, <1>2, <1>3, <1>4, <1>5, <1>6 DEF BundleGrants
<1>7. bundles'[c].present = bundles[c].present /\ bundles[c].present
  BY <1>1, <1>3 DEF Quota!CanPay, Quota!Row
<1>8. ASSUME ~IsUnlimitedTier(TierOf[c])
      PROVE  bundles'[c].remaining + Cardinality(BundleGrants(c)') = InitialRemaining(c)
  <2>1. ~Quota!IsUnlimitedTier(TierOf[c])
    BY <1>8 DEF IsUnlimitedTier, Quota!IsUnlimitedTier, FiniteTier, Quota!FiniteTier
  <2>2. bundles'[c].remaining = bundles[c].remaining - 1
    BY <1>1, <1>3, <2>1 DEF Quota!Row
  <2>3. BundleGrants(c)' = BundleGrants(c) \union {r} /\ r \notin BundleGrants(c)
    BY <1>2, <1>3, <1>4 DEF BundleGrants
  <2>4. IsFiniteSet(BundleGrants(c))
    BY ChatConstants, FS_Subset DEF BundleGrants
  <2>5. Cardinality(BundleGrants(c)') = Cardinality(BundleGrants(c)) + 1
    BY <2>3, <2>4, FS_AddElement
  <2>6. Cardinality(BundleGrants(c)) \in Nat
    BY <2>4, FS_CardinalityType
  <2>7. bundles[c].remaining + Cardinality(BundleGrants(c)) = InitialRemaining(c)
    BY <1>7, <1>8 DEF BundlesBalance
  <2> QED
    BY <1>3, <2>2, <2>5, <2>6, <2>7
<1> QED
  BY <1>6, <1>7, <1>8 DEF BundlesBalance

LEMMA BalanceStep == HandlersSound /\ BundlesBalance /\ [Next]_vars => BundlesBalance'
<1> SUFFICES ASSUME HandlersSound, BundlesBalance, [Next]_vars PROVE BundlesBalance'
  OBVIOUS
<1>1. ASSUME NEW r \in Request, Deduct(r) PROVE BundlesBalance'
  <2>1. CASE Quota!GrantFree(r)
    <3>1. PICK u \in User, t \in Quota!Month : Quota!Settle(r, Quota!Free(u, t)) /\ UNCHANGED bundles
      BY <2>1 DEF Quota!GrantFree
    <3>2. \A b : Quota!Free(u, t) # Quota!Charged(b)
      BY DEF Quota!Free, Quota!Charged
    <3> QED
      BY <3>1, <3>2, OtherGrantKeepsBalance
  <2>2. CASE Quota!Refuse(r)
    <3>1. PICK u \in User, t \in Quota!Month :
              Quota!Settle(r, Quota!Exhausted(u, t)) /\ UNCHANGED bundles
      BY <2>2 DEF Quota!Refuse
    <3>2. \A b : Quota!Exhausted(u, t) # Quota!Charged(b)
      BY DEF Quota!Exhausted, Quota!Charged
    <3> QED
      BY <3>1, <3>2, OtherGrantKeepsBalance
  <2>3. CASE Quota!Fail(r)
    <3>1. \A b : Quota!Failed # Quota!Charged(b)
      BY DEF Quota!Failed, Quota!Charged
    <3> QED
      BY <2>3, <3>1, OtherGrantKeepsBalance DEF Quota!Fail
  <2> QED
    BY <1>1, <2>1, <2>2, <2>3, BundleGrantKeepsBalance DEF Deduct
<1>2. ASSUME NEW c \in Bundle, CreateBundle(c) PROVE BundlesBalance'
  <2>1. \A b \in Bundle : BundleGrants(b)' = BundleGrants(b)
    BY <1>2 DEF CreateBundle, BundleGrants
  <2>2. BundleGrants(c) = {}
    BY <1>2 DEF CreateBundle, BundlesBalance
  <2>3. bundles'[c].remaining = InitialRemaining(c) /\ bundles'[c].present
    BY <1>2 DEF CreateBundle, HandlersSound, TypeOK, Quota!TypeOK
  <2>4. \A b \in Bundle : b # c => bundles'[b] = bundles[b]
    BY <1>2 DEF CreateBundle, HandlersSound, TypeOK, Quota!TypeOK
  <2>5. InitialRemaining(c) \in Nat
    BY QuotaConstants DEF InitialRemaining, IsUnlimitedTier, FiniteTier, Tier
  <2>6. InitialRemaining(c) + Cardinality(BundleGrants(c)') = InitialRemaining(c)
    BY <2>1, <2>2, <2>5, FS_EmptySet
  <2> QED
    BY <2>1, <2>3, <2>4, <2>6 DEF BundlesBalance
<1>3. CASE UNCHANGED <<bundles, outcome>>
  BY <1>3, BalanceUntouched
<1> QED
  BY <1>1, <1>2, <1>3 DEF Next, Handler, Receive, Proceed, Chat, Create, Save, Answer, Break,
     Timeout, Disconnect, Crash, NextMonth, vars, quotaVars

(***************************************************************************)
(* No failure between a charge and a save lets a finite bundle have more   *)
(* stored messages than its row has paid for.                              *)
(***************************************************************************)
THEOREM BundleMessagesExact == Spec => []BundleMessagesCounted
<1>1. HandlersSound /\ BundlesBalance => BundleMessagesCounted
  <2> SUFFICES ASSUME HandlersSound, BundlesBalance, NEW b \in Bundle,
                      bundles[b].present, ~IsUnlimitedTier(TierOf[b])
               PROVE  Cardinality({m \in messages : m.paidBy = Quota!Charged(b)})
                          + bundles[b].remaining <= InitialRemaining(b)
    BY DEF BundleMessagesCounted
  <2> DEFINE stored == {m \in messages : m.paidBy = Quota!Charged(b)}
  <2>1. bundles[b].remaining + Cardinality(BundleGrants(b)) = InitialRemaining(b)
    BY DEF BundlesBalance
  <2>2. Cardinality(stored) <= Cardinality(BundleGrants(b)) /\ Cardinality(stored) \in Nat
    <3>1. \A m \in stored : m.request \in BundleGrants(b)
      BY DEF HandlersSound, AuditIsPaid, TypeOK, Message, BundleGrants, SourceOf, Quota!Charged
    <3>2. stored \in SUBSET messages /\ BundleGrants(b) \in SUBSET Request
      BY DEF BundleGrants
    <3> QED
      BY <3>1, <3>2, StoredAreGranted
  <2>3. IsFiniteSet(BundleGrants(b)) /\ Cardinality(BundleGrants(b)) \in Nat
    BY ChatConstants, FS_Subset, FS_CardinalityType DEF BundleGrants
  <2>5. bundles[b].remaining \in Nat
    BY DEF HandlersSound, TypeOK, Quota!TypeOK, Quota!Row
  <2> QED
    BY <2>1, <2>2, <2>3, <2>5
<1> QED
  BY <1>1, InitBalance, BalanceStep, InitIsSound, StepIsSound, PTL DEF Spec

=============================================================================
