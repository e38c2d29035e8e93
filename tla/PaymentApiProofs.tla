--------------------------- MODULE PaymentApiProofs ---------------------------
(***************************************************************************)
(* What TLAPS proves of the payment API, for any number of calls, keys,    *)
(* amounts and errors.                                                     *)
(***************************************************************************)
EXTENDS PaymentApi, TLAPS

(***************************************************************************)
(* Where a call stands tells what it was asked and what it has found: it   *)
(* has written nothing and answered nothing before it is done, what it is  *)
(* about to insert is valid, and what it is about to update is there and   *)
(* was pending when it was read.                                           *)
(***************************************************************************)
Unanswered ==
    \A i \in Calls : pc[i] # "done" =>
        payments[i] = None /\ outbox[i] = None /\ response[i] = None

Creating ==
    \A i \in Calls : pc[i] \in {"insert", "inserted"} =>
        request[i] \in CreateRequests /\ Details(i) \in Money

Updating ==
    \A i \in Calls :
        /\ pc[i] \in {"read", "update", "updated"} =>
             request[i] \in UpdateRequests /\ request[i].status \in PaymentStatuses
        /\ pc[i] \in {"update", "updated"} =>
             /\ seen[i] = "pending" /\ request[i].status \in TerminalStatuses
             /\ payments[request[i].id] # None

CallInv == TypeOK /\ Unanswered /\ Creating /\ Updating

-----------------------------------------------------------------------------
\* No call has begun.
LEMMA InitCallInv == Init => CallInv
BY ApiAssumption DEF Init, CallInv, TypeOK, Places, Unanswered, Creating, Updating, Calls

\* Normalise gives valid money or refuses.
LEMMA NormaliseType ==
    ASSUME NEW body \in [amount: RawAmounts, currency: RawCurrencies], Normalise(body) # None
    PROVE  Normalise(body) \in Money
<1>1. body.amount \in RawAmounts /\ Upper[body.currency] \in Currencies \cup {None}
  BY ApiAssumption
<1>2. body.amount > 0 /\ Upper[body.currency] # None
  BY DEF Normalise
<1>3. body.amount \in Amounts
  <2>1. RawAmounts \subseteq Nat /\ RawAmounts \ {0} \subseteq Amounts
    BY ApiAssumption
  <2>2. body.amount \in Nat
    BY <1>1, <2>1
  <2>3. body.amount # 0
    BY <1>2, <2>2
  <2> QED
    BY <1>1, <2>1, <2>3
<1> QED
  BY <1>1, <1>2, <1>3 DEF Normalise, Money

\* What a step of call i leaves alone: the other calls.
Others(i) ==
    \A j \in Calls \ {i} :
        /\ pc'[j] = pc[j] /\ request'[j] = request[j] /\ seen'[j] = seen[j]
        /\ response'[j] = response[j]

\* Answers that name no payment.
LEMMA ResponseTypes ==
    /\ [code |-> 400, payment |-> None] \in Responses
    /\ [code |-> 404, payment |-> None] \in Responses
    /\ [code |-> 409, payment |-> None] \in Responses
    /\ [code |-> 500, payment |-> None] \in Responses
BY DEF Responses

\* Answer ends call i.
LEMMA AnswerFacts ==
    ASSUME TypeOK, NEW i \in Calls, NEW code, NEW payment, Answer(i, code, payment),
           [code |-> code, payment |-> payment] \in Responses
    PROVE  /\ pc' \in [Calls -> Places] /\ response' \in [Calls -> Responses \cup {None}]
           /\ pc'[i] = "done" /\ response'[i] = [code |-> code, payment |-> payment]
           /\ \A j \in Calls \ {i} : pc'[j] = pc[j] /\ response'[j] = response[j]
BY DEF Answer, TypeOK, Places, Responses

\* Goto moves call i.
LEMMA GotoFacts ==
    ASSUME TypeOK, NEW i \in Calls, NEW place \in Places, Goto(i, place)
    PROVE  /\ pc' \in [Calls -> Places] /\ response' = response
           /\ pc'[i] = place
           /\ \A j \in Calls \ {i} : pc'[j] = pc[j]
BY DEF Goto, TypeOK

(***************************************************************************)
(* The steps by what they do: they begin a call, move it on, answer it     *)
(* without a write, or commit its write.                                   *)
(***************************************************************************)
Begins(i, r) ==
    /\ pc[i] = "unborn" /\ r \in Requests /\ request' = [request EXCEPT ![i] = r]
    /\ UNCHANGED <<payments, outbox, seen, errors>>
    /\ \/ pc'[i] = "insert" /\ response' = response
          /\ r \in CreateRequests /\ Normalise(r.body) \in Money
       \/ pc'[i] = "read" /\ response' = response
          /\ r \in UpdateRequests /\ r.status \in PaymentStatuses
       \/ /\ pc'[i] = "done"
          /\ \/ response'[i].code \in {400, 404}
             \/ response'[i].code = 200 /\ r \in GetRequests

MovesOn(i) ==
    /\ UNCHANGED <<payments, outbox, request, response, errors>>
    /\ \/ InsertPayment(i) /\ pc'[i] = "inserted" /\ seen' = seen
       \/ UpdateRow(i) /\ pc'[i] = "updated" /\ seen' = seen
       \/ /\ pc[i] = "read" /\ pc'[i] = "update"
          /\ payments[request[i].id] # None /\ payments[request[i].id].status = "pending"
          /\ request[i].status \in TerminalStatuses
          /\ seen' = [seen EXCEPT ![i] = "pending"]

AnswersOnly(i) ==
    /\ UNCHANGED <<payments, outbox, request, seen>> /\ pc'[i] = "done"
    /\ \/ response'[i].code \in {404, 500}
       \/ /\ pc[i] = "insert" /\ request[i].key # None
          /\ \E p \in KeyHolders(request[i].key) :
               \/ /\ payments[p].money = Details(i)
                  /\ response'[i] = [code |-> 200, payment |-> p]
               \/ payments[p].money # Details(i) /\ response'[i].code = 409
       \/ /\ pc[i] = "read"
          /\ \/ response'[i].code = 409
             \/ /\ payments[request[i].id] # None
                /\ payments[request[i].id].status = request[i].status

CommitsCreate(i) ==
    /\ pc[i] = "inserted" /\ StoreCreated(i) /\ UNCHANGED <<request, seen>> /\ pc'[i] = "done"
    /\ \/ response'[i] = [code |-> 201, payment |-> i]
       \/ response'[i].code = 500

CommitsUpdate(i) ==
    /\ pc[i] = "updated" /\ StoreUpdated(i) /\ UNCHANGED <<request, seen>> /\ pc'[i] = "done"
    /\ response'[i].code \in {200, 500}

Typed == pc' \in [Calls -> Places] /\ response' \in [Calls -> Responses \cup {None}]
             /\ errors' \in 0..MaxErrors

\* Each action is one of these steps.
LEMMA BeginStep ==
    ASSUME CallInv, NEW i \in Calls, Begin(i)
    PROVE  Typed /\ Others(i) /\ \E r \in Requests : Begins(i, r)
<1> USE DEF CallInv
<1>1. CASE CreatePayment(i)
  <2>1. PICK r \in CreateRequests :
          /\ request' = [request EXCEPT ![i] = r]
          /\ IF Normalise(r.body) = None THEN Answer(i, 400, None) ELSE Goto(i, "insert")
    BY <1>1 DEF CreatePayment
  <2>2. pc[i] = "unborn" /\ UNCHANGED <<payments, outbox, seen, errors>>
    BY <1>1 DEF CreatePayment, tables
  <2>3. r \in Requests /\ r.body \in [amount: RawAmounts, currency: RawCurrencies]
    BY DEF Requests, CreateRequests
  <2>4. \A j \in Calls \ {i} : request'[j] = request[j] /\ seen'[j] = seen[j]
    BY <2>1, <2>2 DEF TypeOK
  <2>5. CASE Normalise(r.body) = None
    <3>1. Answer(i, 400, None)
      BY <2>1, <2>5
    <3>2. Typed /\ Others(i) /\ pc'[i] = "done" /\ response'[i].code = 400
      BY <2>2, <2>4, <3>1, AnswerFacts, ResponseTypes DEF Typed, Others, TypeOK
    <3> QED
      BY <2>1, <2>2, <2>3, <3>2 DEF Begins
  <2>6. CASE Normalise(r.body) # None
    <3>1. Normalise(r.body) \in Money
      BY <2>3, <2>6, NormaliseType
    <3> QED
      BY <2>1, <2>2, <2>3, <2>4, <2>6, <3>1, GotoFacts DEF Typed, Others, Begins, TypeOK, Places
  <2> QED
    BY <2>5, <2>6
<1>2. CASE GetPayment(i)
  <2>1. PICK r \in GetRequests :
          /\ request' = [request EXCEPT ![i] = r]
          /\ IF payments[r.id] = None THEN Answer(i, 404, None) ELSE Answer(i, 200, r.id)
    BY <1>2 DEF GetPayment
  <2>2. pc[i] = "unborn" /\ UNCHANGED <<payments, outbox, seen, errors>>
    BY <1>2 DEF GetPayment, tables
  <2>3. r \in Requests /\ r.id \in EventIds
    BY DEF Requests, GetRequests
  <2>4. \A j \in Calls \ {i} : request'[j] = request[j] /\ seen'[j] = seen[j]
    BY <2>1, <2>2 DEF TypeOK
  <2>5. CASE payments[r.id] = None
    <3>1. Answer(i, 404, None)
      BY <2>1, <2>5
    <3>2. Typed /\ Others(i) /\ pc'[i] = "done" /\ response'[i].code = 404
      BY <2>2, <2>4, <3>1, AnswerFacts, ResponseTypes DEF Typed, Others, TypeOK
    <3> QED
      BY <2>1, <2>2, <2>3, <3>2 DEF Begins
  <2>6. CASE payments[r.id] # None
    <3>1. Answer(i, 200, r.id) /\ [code |-> 200, payment |-> r.id] \in Responses
      BY <2>1, <2>3, <2>6 DEF Responses
    <3>2. Typed /\ Others(i) /\ pc'[i] = "done" /\ response'[i].code = 200
      BY <2>2, <2>4, <3>1, AnswerFacts DEF Typed, Others, TypeOK
    <3> QED
      BY <2>1, <2>2, <2>3, <3>2 DEF Begins
  <2> QED
    BY <2>5, <2>6
<1>3. CASE UpdatePaymentStatus(i)
  <2>1. PICK r \in UpdateRequests :
          /\ request' = [request EXCEPT ![i] = r]
          /\ IF r.status \in PaymentStatuses THEN Goto(i, "read") ELSE Answer(i, 400, None)
    BY <1>3 DEF UpdatePaymentStatus
  <2>2. pc[i] = "unborn" /\ UNCHANGED <<payments, outbox, seen, errors>>
    BY <1>3 DEF UpdatePaymentStatus, tables
  <2>3. r \in Requests
    BY DEF Requests
  <2>4. \A j \in Calls \ {i} : request'[j] = request[j] /\ seen'[j] = seen[j]
    BY <2>1, <2>2 DEF TypeOK
  <2>5. CASE r.status \in PaymentStatuses
    BY <2>1, <2>2, <2>3, <2>4, <2>5, GotoFacts DEF Typed, Others, Begins, TypeOK, Places
  <2>6. CASE r.status \notin PaymentStatuses
    <3>1. Answer(i, 400, None)
      BY <2>1, <2>6
    <3>2. Typed /\ Others(i) /\ pc'[i] = "done" /\ response'[i].code = 400
      BY <2>2, <2>4, <3>1, AnswerFacts, ResponseTypes DEF Typed, Others, TypeOK
    <3> QED
      BY <2>1, <2>2, <2>3, <3>2 DEF Begins
  <2> QED
    BY <2>5, <2>6
<1> QED
  BY <1>1, <1>2, <1>3 DEF Begin

\* The statements of a call that has begun.
LEMMA ProceedStep ==
    ASSUME CallInv, NEW i \in Calls, Proceed(i) \/ CallFails(i) \/ CommitLost(i)
    PROVE  /\ Typed /\ Others(i)
           /\ MovesOn(i) \/ AnswersOnly(i) \/ CommitsCreate(i) \/ CommitsUpdate(i)
<1> USE DEF CallInv
<1>1. CASE InsertPayment(i)
  <2>1. UNCHANGED <<payments, outbox, request, seen, errors>> /\ Goto(i, "inserted")
    BY <1>1 DEF InsertPayment, tables
  <2> QED
    BY <1>1, <2>1, GotoFacts DEF Typed, Others, MovesOn, TypeOK, Places
<1>2. CASE UpdateRow(i)
  <2>1. UNCHANGED <<payments, outbox, request, seen, errors>> /\ Goto(i, "updated")
    BY <1>2 DEF UpdateRow, tables
  <2> QED
    BY <1>2, <2>1, GotoFacts DEF Typed, Others, MovesOn, TypeOK, Places
<1>3. CASE ReplayPayment(i)
  <2>1. /\ UNCHANGED <<payments, outbox, request, seen, errors>>
        /\ pc[i] = "insert" /\ request[i].key # None
    BY <1>3 DEF ReplayPayment, tables
  <2>2. PICK p \in KeyHolders(request[i].key) :
          IF payments[p].money = Details(i) THEN Answer(i, 200, p) ELSE Answer(i, 409, None)
    BY <1>3 DEF ReplayPayment
  <2>3. p \in EventIds
    BY DEF KeyHolders
  <2>4. CASE payments[p].money = Details(i)
    <3>1. Answer(i, 200, p) /\ [code |-> 200, payment |-> p] \in Responses
      BY <2>2, <2>3, <2>4 DEF Responses
    <3>2. Typed /\ Others(i) /\ pc'[i] = "done" /\ response'[i] = [code |-> 200, payment |-> p]
      BY <2>1, <3>1, AnswerFacts DEF Typed, Others, TypeOK
    <3> QED
      BY <2>1, <2>4, <3>2 DEF AnswersOnly
  <2>5. CASE payments[p].money # Details(i)
    <3>1. Answer(i, 409, None)
      BY <2>2, <2>5
    <3>2. Typed /\ Others(i) /\ pc'[i] = "done" /\ response'[i].code = 409
      BY <2>1, <3>1, AnswerFacts, ResponseTypes DEF Typed, Others, TypeOK
    <3> QED
      BY <2>1, <2>5, <3>2 DEF AnswersOnly
  <2> QED
    BY <2>4, <2>5
<1>4. CASE ReadStatus(i)
  <2> DEFINE p == request[i].id
  <2>1. /\ UNCHANGED <<payments, outbox, request, errors>> /\ pc[i] = "read" /\ p \in EventIds
    BY <1>4 DEF ReadStatus, tables, Updating, UpdateRequests
  <2>2. \/ Answer(i, 404, None) /\ UNCHANGED seen
        \/ /\ payments[p] # None /\ payments[p].status = request[i].status
           /\ Answer(i, 200, p) /\ UNCHANGED seen
        \/ Answer(i, 409, None) /\ UNCHANGED seen
        \/ /\ payments[p] # None /\ canTransition(payments[p].status, request[i].status)
           /\ seen' = [seen EXCEPT ![i] = payments[p].status] /\ Goto(i, "update")
    BY <1>4 DEF ReadStatus
  <2>3. CASE Answer(i, 404, None) /\ UNCHANGED seen
    <3>1. Typed /\ Others(i) /\ pc'[i] = "done" /\ response'[i].code = 404
      BY <2>1, <2>3, AnswerFacts, ResponseTypes DEF Typed, Others, TypeOK
    <3> QED
      BY <2>1, <2>3, <3>1 DEF AnswersOnly
  <2>4. CASE /\ payments[p] # None /\ payments[p].status = request[i].status
             /\ Answer(i, 200, p) /\ UNCHANGED seen
    <3>1. [code |-> 200, payment |-> p] \in Responses
      BY <2>1 DEF Responses
    <3>2. Typed /\ Others(i) /\ pc'[i] = "done"
      BY <2>1, <2>4, <3>1, AnswerFacts DEF Typed, Others, TypeOK
    <3> QED
      BY <2>1, <2>4, <3>2 DEF AnswersOnly
  <2>5. CASE Answer(i, 409, None) /\ UNCHANGED seen
    <3>1. Typed /\ Others(i) /\ pc'[i] = "done" /\ response'[i].code = 409
      BY <2>1, <2>5, AnswerFacts, ResponseTypes DEF Typed, Others, TypeOK
    <3> QED
      BY <2>1, <2>5, <3>1 DEF AnswersOnly
  <2>6. CASE /\ payments[p] # None /\ canTransition(payments[p].status, request[i].status)
             /\ seen' = [seen EXCEPT ![i] = payments[p].status] /\ Goto(i, "update")
    <3>1. payments[p].status = "pending" /\ request[i].status \in TerminalStatuses
      BY <2>6 DEF canTransition
    <3>2. Typed /\ Others(i) /\ pc'[i] = "update" /\ response' = response
      BY <2>1, <2>6, GotoFacts DEF Typed, Others, TypeOK, Places
    <3> QED
      BY <2>1, <2>6, <3>1, <3>2 DEF MovesOn
  <2> QED
    BY <2>2, <2>3, <2>4, <2>5, <2>6
<1>5. CASE UpdateNoRow(i)
  <2>1. UNCHANGED <<payments, outbox, request, seen, errors>> /\ Answer(i, 404, None)
    BY <1>5 DEF UpdateNoRow, tables
  <2>2. Typed /\ Others(i) /\ pc'[i] = "done" /\ response'[i].code = 404
    BY <2>1, AnswerFacts, ResponseTypes DEF Typed, Others, TypeOK
  <2> QED
    BY <2>1, <2>2 DEF AnswersOnly
<1>6. CASE CreateCommit(i)
  <2>1. /\ UNCHANGED <<request, seen, errors>> /\ Answer(i, 201, i)
        /\ pc[i] = "inserted" /\ StoreCreated(i)
        /\ [code |-> 201, payment |-> i] \in Responses
    BY <1>6 DEF CreateCommit, Responses, Calls
  <2>2. Typed /\ Others(i) /\ pc'[i] = "done" /\ response'[i] = [code |-> 201, payment |-> i]
    BY <2>1, AnswerFacts DEF Typed, Others, TypeOK
  <2> QED
    BY <2>1, <2>2 DEF CommitsCreate
<1>7. CASE UpdateCommit(i)
  <2>1. /\ UNCHANGED <<request, seen, errors>> /\ Answer(i, 200, request[i].id)
        /\ pc[i] = "updated" /\ StoreUpdated(i)
    BY <1>7 DEF UpdateCommit
  <2>2. [code |-> 200, payment |-> request[i].id] \in Responses
    BY <2>1 DEF Updating, UpdateRequests, Responses
  <2>3. Typed /\ Others(i) /\ pc'[i] = "done" /\ response'[i].code = 200
    BY <2>1, <2>2, AnswerFacts DEF Typed, Others, TypeOK
  <2> QED
    BY <2>1, <2>3 DEF CommitsUpdate
<1>8. CASE CallFails(i) \/ CommitLost(i)
  <2>1. /\ UNCHANGED <<request, seen>> /\ Answer(i, 500, None)
        /\ errors < MaxErrors /\ errors' = errors + 1
    BY <1>8 DEF CallFails, CommitLost
  <2>2. errors' \in 0..MaxErrors
    BY <2>1, ApiAssumption DEF TypeOK
  <2>3. Typed /\ Others(i) /\ pc'[i] = "done" /\ response'[i].code = 500
    BY <2>1, <2>2, AnswerFacts, ResponseTypes DEF Typed, Others, TypeOK
  <2>4. \/ UNCHANGED <<payments, outbox>>
        \/ pc[i] = "inserted" /\ StoreCreated(i)
        \/ pc[i] = "updated" /\ StoreUpdated(i)
    BY <1>8 DEF CallFails, CommitLost, tables
  <2> QED
    BY <2>1, <2>3, <2>4 DEF AnswersOnly, CommitsCreate, CommitsUpdate
<1> QED
  BY <1>1, <1>2, <1>3, <1>4, <1>5, <1>6, <1>7, <1>8 DEF Proceed

\* What the commit of a create stores.
LEMMA CreateFacts ==
    ASSUME CallInv, NEW i \in Calls, CommitsCreate(i)
    PROVE  /\ i \in EventIds /\ payments[i] = None /\ outbox[i] = None
           /\ payments' \in [EventIds -> Payments \cup {None}]
           /\ outbox' \in [EventIds -> OutboxRows \cup {None}]
           /\ \A p \in EventIds \ {i} : payments'[p] = payments[p] /\ outbox'[p] = outbox[p]
           /\ payments'[i] # None /\ outbox'[i] # None
           /\ payments'[i].money = Details(i) /\ payments'[i].status = "pending"
           /\ payments'[i].key = request[i].key
           /\ outbox'[i].type = PaymentCreatedEvent /\ outbox'[i].payment = i
           /\ outbox'[i].payload = Details(i)
           /\ request[i] \in CreateRequests /\ Details(i) \in Money
<1> DEFINE row == [money |-> Details(i), status |-> "pending", key |-> request[i].key]
           event == NewPaymentCreated(i, Details(i))
<1>1. /\ i \in EventIds /\ payments[i] = None /\ outbox[i] = None
      /\ request[i] \in CreateRequests /\ Details(i) \in Money
  BY DEF CommitsCreate, CallInv, Unanswered, Creating, Calls
<1>2. payments' = [payments EXCEPT ![i] = row] /\ outbox' = [outbox EXCEPT ![i] = event]
  BY DEF CommitsCreate, StoreCreated
<1>3. row \in Payments /\ row # None
  BY <1>1, ApiAssumption DEF Payments, PaymentStatuses, CreateRequests
<1>4. event \in OutboxRows /\ event # None
  BY <1>1, NoneAssumption
     DEF NewPaymentCreated, newPaymentEvent, OutboxRows, Payloads, EventTypes, OutboxStatuses
<1>5. /\ row.money = Details(i) /\ row.status = "pending" /\ row.key = request[i].key
      /\ event.type = PaymentCreatedEvent /\ event.payment = i /\ event.payload = Details(i)
  BY DEF NewPaymentCreated, newPaymentEvent
<1> HIDE DEF row, event
<1> QED
  BY <1>1, <1>2, <1>3, <1>4, <1>5 DEF CallInv, TypeOK

\* What the commit of an update stores.
LEMMA UpdateFacts ==
    ASSUME CallInv, NEW i \in Calls, CommitsUpdate(i), NEW p, p = request[i].id
    PROVE  /\ i \in EventIds /\ p \in EventIds /\ outbox[i] = None /\ payments[p] # None
           /\ request[i] \in UpdateRequests /\ request[i].status \in TerminalStatuses
           /\ payments' \in [EventIds -> Payments \cup {None}]
           /\ outbox' \in [EventIds -> OutboxRows \cup {None}]
           /\ \A q \in EventIds \ {p} : payments'[q] = payments[q]
           /\ \A e \in EventIds \ {i} : outbox'[e] = outbox[e]
           /\ payments'[p] # None /\ outbox'[i] # None
           /\ payments'[p].money = payments[p].money /\ payments'[p].key = payments[p].key
           /\ payments'[p].status = request[i].status
           /\ payments'[p] = [payments[p] EXCEPT !.status = request[i].status]
           /\ outbox'[i].type = PaymentStatusChangedEvent /\ outbox'[i].payment = p
           /\ outbox'[i].payload.new_status = request[i].status
<1> DEFINE row == [payments[p] EXCEPT !.status = request[i].status]
           event == NewPaymentStatusChanged(p, request[i].status)
<1>1. /\ i \in EventIds /\ outbox[i] = None
      /\ request[i] \in UpdateRequests /\ request[i].status \in TerminalStatuses
      /\ p \in EventIds /\ payments[p] # None
  BY DEF CommitsUpdate, CallInv, Unanswered, Updating, Calls, UpdateRequests
<1>2. payments[p] \in Payments
  BY <1>1 DEF CallInv, TypeOK
<1>3. payments' = [payments EXCEPT ![p] = row] /\ outbox' = [outbox EXCEPT ![i] = event]
  BY DEF CommitsUpdate, StoreUpdated
<1>4. row \in Payments /\ row # None
  BY <1>1, <1>2, ApiAssumption DEF Payments, PaymentStatuses, TerminalStatuses
<1>5. /\ row.money = payments[p].money /\ row.key = payments[p].key
      /\ row.status = request[i].status
  BY <1>2 DEF Payments
<1>6. event \in OutboxRows /\ event # None
  BY <1>1, NoneAssumption
     DEF NewPaymentStatusChanged, newPaymentEvent, OutboxRows, Payloads, EventTypes,
         OutboxStatuses
<1>7. /\ event.type = PaymentStatusChangedEvent /\ event.payment = p
      /\ event.payload.new_status = request[i].status
  BY DEF NewPaymentStatusChanged, newPaymentEvent
<1>8. row = [payments[p] EXCEPT !.status = request[i].status]
  OBVIOUS
<1> HIDE DEF row, event
<1> QED
  BY <1>1, <1>3, <1>4, <1>5, <1>6, <1>7, <1>8 DEF CallInv, TypeOK

\* Every step keeps the types and what the place of a call tells about it.
LEMMA BeginsCallInv ==
    ASSUME CallInv, NEW i \in Calls, NEW r \in Requests, Typed, Others(i), Begins(i, r)
    PROVE  CallInv'
<1>1. /\ UNCHANGED <<payments, outbox, seen>> /\ request'[i] = r
      /\ request' \in [Calls -> Requests \cup {None}]
  BY DEF Begins, CallInv, TypeOK
<1>2. TypeOK'
  BY <1>1 DEF Typed, CallInv, TypeOK
<1>3. Unanswered'
  BY <1>1 DEF Others, Begins, CallInv, Unanswered
<1>4. Creating'
  <2>1. Details(i)' = Normalise(r.body)
    BY <1>1 DEF Details, Normalise
  <2>2. \A j \in Calls \ {i} : Details(j)' = Details(j)
    BY DEF Others, Details, Normalise
  <2> QED
    BY <1>1, <2>1, <2>2 DEF Others, Begins, CallInv, Creating
<1>5. Updating'
  BY <1>1 DEF Others, Begins, CallInv, Updating
<1> QED
  BY <1>2, <1>3, <1>4, <1>5 DEF CallInv

\* A step of call i after its arrival keeps the invariant of a single call: it
\* writes no row but its own, and its own only as it moves on or answers.
LEMMA WritesCallInv ==
    ASSUME CallInv, NEW i \in Calls, Typed, Others(i), request' = request,
           seen' \in [Calls -> PaymentStatuses \cup {None}],
           payments' \in [EventIds -> Payments \cup {None}],
           outbox' \in [EventIds -> OutboxRows \cup {None}],
           \A p \in EventIds : payments[p] # None => payments'[p] # None,
           \A j \in Calls \ {i} : payments[j] = None /\ pc[j] # "done" =>
                payments'[j] = None /\ outbox'[j] = outbox[j],
           \/ pc'[i] = "done"
           \/ pc'[i] = "inserted" /\ pc[i] = "insert" /\ UNCHANGED <<payments, outbox, response>>
           \/ /\ pc'[i] = "updated" /\ pc[i] = "update"
              /\ UNCHANGED <<payments, outbox, response, seen>>
           \/ /\ pc'[i] = "update" /\ pc[i] = "read" /\ UNCHANGED <<payments, outbox, response>>
              /\ payments[request[i].id] # None /\ request[i].status \in TerminalStatuses
              /\ seen'[i] = "pending"
    PROVE  CallInv'
<1>1. TypeOK'
  BY DEF Typed, CallInv, TypeOK
<1>2. Unanswered'
  BY DEF Others, CallInv, Unanswered, Calls
<1>3. Creating'
  <2>1. \A j : Details(j)' = Details(j)
    BY DEF Details, Normalise
  <2> QED
    BY <2>1 DEF Others, CallInv, Creating
<1>4. Updating'
  <2>1. \A j \in Calls : pc[j] \in {"read", "update", "updated"} => request[j].id \in EventIds
    BY DEF CallInv, Updating, UpdateRequests
  <2> QED
    BY <2>1 DEF Others, CallInv, Updating
<1> QED
  BY <1>1, <1>2, <1>3, <1>4 DEF CallInv

\* Every step is a step of one call of one of these forms, or leaves all as it is.
LEMMA NextForms ==
    ASSUME CallInv, [Next]_vars
    PROVE  \/ UNCHANGED vars
           \/ \E i \in Calls :
                /\ Typed /\ Others(i)
                /\ \/ \E r \in Requests : Begins(i, r)
                   \/ MovesOn(i) \/ AnswersOnly(i) \/ CommitsCreate(i) \/ CommitsUpdate(i)
BY BeginStep, ProceedStep DEF Next, Idle

\* Every step keeps the invariant of a single call.
LEMMA NextCallInv == CallInv /\ [Next]_vars => CallInv'
<1> SUFFICES ASSUME CallInv, [Next]_vars PROVE CallInv'
  OBVIOUS
<1>1. CASE UNCHANGED vars
  BY <1>1 DEF vars, tables, CallInv, TypeOK, Unanswered, Creating, Updating, Details, Normalise
<1>2. ASSUME NEW i \in Calls, Typed, Others(i), MovesOn(i) PROVE CallInv'
  <2>1. /\ UNCHANGED <<payments, outbox, request, response>>
        /\ \/ pc'[i] = "inserted" /\ pc[i] = "insert" /\ seen' = seen
           \/ pc'[i] = "updated" /\ pc[i] = "update" /\ seen' = seen
           \/ /\ pc'[i] = "update" /\ pc[i] = "read"
              /\ payments[request[i].id] # None /\ request[i].status \in TerminalStatuses
              /\ seen' = [seen EXCEPT ![i] = "pending"]
    BY <1>2 DEF MovesOn, InsertPayment, UpdateRow
  <2>2. /\ seen' \in [Calls -> PaymentStatuses \cup {None}]
        /\ pc'[i] = "update" => seen'[i] = "pending"
    BY <2>1 DEF CallInv, TypeOK, PaymentStatuses
  <2> QED
    BY <1>2, <2>1, <2>2, WritesCallInv DEF CallInv, TypeOK
<1>3. ASSUME NEW i \in Calls, Typed, Others(i), AnswersOnly(i) PROVE CallInv'
  BY <1>3, WritesCallInv DEF AnswersOnly, CallInv, TypeOK
<1>4. ASSUME NEW i \in Calls, Typed, Others(i), CommitsCreate(i) PROVE CallInv'
  <2>1. UNCHANGED <<request, seen>> /\ pc'[i] = "done"
    BY <1>4 DEF CommitsCreate
  <2> QED
    BY <1>4, <2>1, CreateFacts, WritesCallInv DEF CallInv, TypeOK, Calls
<1>5. ASSUME NEW i \in Calls, Typed, Others(i), CommitsUpdate(i) PROVE CallInv'
  <2>1. UNCHANGED <<request, seen>> /\ pc'[i] = "done"
    BY <1>5 DEF CommitsUpdate
  <2>2. /\ payments' \in [EventIds -> Payments \cup {None}]
        /\ outbox' \in [EventIds -> OutboxRows \cup {None}]
    BY <1>5, UpdateFacts
  <2>3. /\ \A q \in EventIds : payments[q] # None => payments'[q] # None
        /\ \A j \in Calls \ {i} : payments[j] = None =>
             payments'[j] = None /\ outbox'[j] = outbox[j]
    BY <1>5, UpdateFacts DEF Calls
  <2> QED
    BY <1>5, <2>1, <2>2, <2>3, WritesCallInv DEF CallInv, TypeOK
<1> QED
  BY <1>1, <1>2, <1>3, <1>4, <1>5, NextForms, BeginsCallInv

\* The invariant of a single call holds in every behaviour.
LEMMA AlwaysCallInv == Spec => []CallInv
BY InitCallInv, NextCallInv, PTL DEF Spec

\* The tables, the calls and their answers keep their types: what is stored has
\* been validated, and an update finds the row it read.
THEOREM TypeCorrect == Spec => []TypeOK
BY AlwaysCallInv, PTL DEF CallInv

-----------------------------------------------------------------------------
(***************************************************************************)
(* Keys.  A key that a call has inserted is held by no payment and by no   *)
(* other open insert (KeyExclusive: the unique index makes the second      *)
(* insert wait), so no two payments have one key (UniqueKeys), and what a  *)
(* successful create was told is the payment with its key and its details. *)
(***************************************************************************)
KeyExclusive ==
    \A i \in Calls : (pc[i] = "inserted" /\ request[i].key # None) =>
        /\ KeyHolders(request[i].key) = {}
        /\ \A j \in Calls : (pc[j] = "inserted" /\ request[j].key = request[i].key) => j = i

UniqueKeys ==
    \A p, q \in EventIds :
        ( /\ payments[p] # None /\ payments[q] # None
          /\ payments[p].key # None /\ payments[p].key = payments[q].key ) => p = q

CreateAnswer(i) ==
    (Answered(i, {200, 201}) /\ request[i].op = "create") =>
        /\ response[i].payment \in EventIds
        /\ payments[response[i].payment] # None
        /\ payments[response[i].payment].money = Details(i)
        /\ payments[response[i].payment].key = request[i].key
        /\ response[i].code = 201 => response[i].payment = i

ConflictAnswer(i) ==
    (Answered(i, {409}) /\ request[i].op = "create") =>
        \E p \in KeyHolders(request[i].key) : payments[p].money # Details(i)

CreateAnswers == \A i \in Calls : CreateAnswer(i) /\ ConflictAnswer(i)

KeyInv == KeyExclusive /\ UniqueKeys /\ CreateAnswers

\* At the start there is no payment and no answer.
LEMMA InitKeyInv == Init => KeyInv
BY DEF Init, KeyInv, KeyExclusive, UniqueKeys, CreateAnswers, CreateAnswer, ConflictAnswer,
       Answered, Calls

\* Payments keep their money and their key.
Kept == \A p \in EventIds : payments[p] # None =>
            /\ payments'[p] # None
            /\ payments'[p].money = payments[p].money /\ payments'[p].key = payments[p].key

\* What earlier calls were told stays true.
LEMMA AnswersKept ==
    ASSUME CallInv, KeyInv, Kept, NEW j \in Calls,
           response'[j] = response[j], request'[j] = request[j]
    PROVE  CreateAnswer(j)' /\ ConflictAnswer(j)'
<1>1. CreateAnswer(j) /\ ConflictAnswer(j) /\ Details(j)' = Details(j)
  BY DEF KeyInv, CreateAnswers, Details, Normalise
<1>2. CreateAnswer(j)'
  BY <1>1 DEF CreateAnswer, Answered, Kept
<1>3. ConflictAnswer(j)'
  <2>1. SUFFICES ASSUME Answered(j, {409}), request[j].op = "create"
                 PROVE  \E p \in KeyHolders(request[j].key)' : payments'[p].money # Details(j)
    BY <1>1 DEF ConflictAnswer, Answered, KeyHolders
  <2>2. PICK p \in KeyHolders(request[j].key) : payments[p].money # Details(j)
    BY <1>1, <2>1 DEF ConflictAnswer
  <2>3. p \in KeyHolders(request[j].key)' /\ payments'[p].money # Details(j)
    BY <2>2 DEF KeyHolders, Kept
  <2> QED
    BY <2>3
<1> QED
  BY <1>2, <1>3

\* A step that adds no payment.
LEMMA KeysKept ==
    ASSUME CallInv, KeyInv, NEW i \in Calls, Others(i), Kept,
           \A p \in EventIds : payments[p] = None => payments'[p] = None,
           pc'[i] = "inserted" => InsertPayment(i) /\ request' = request,
           CreateAnswer(i)' /\ ConflictAnswer(i)'
    PROVE  KeyInv'
<1>1. \A key : KeyHolders(key)' = KeyHolders(key)
  BY DEF KeyHolders, Kept
<1>2. KeyExclusive'
  <2>1. CASE pc'[i] = "inserted"
    <3>1. request' = request /\ (request[i].key # None =>
            /\ KeyHolders(request[i].key) = {}
            /\ \A j \in Calls \ {i} : ~(pc[j] = "inserted" /\ request[j].key = request[i].key))
      BY <2>1 DEF InsertPayment, KeyLocked
    <3> QED
      BY <1>1, <2>1, <3>1 DEF KeyInv, KeyExclusive, Others
  <2>2. CASE pc'[i] # "inserted"
    BY <1>1, <2>2 DEF KeyInv, KeyExclusive, Others
  <2> QED
    BY <2>1, <2>2
<1>3. UniqueKeys'
  BY DEF KeyInv, UniqueKeys, Kept
<1>4. CreateAnswers'
  BY AnswersKept DEF CreateAnswers, Others
<1> QED
  BY <1>2, <1>3, <1>4 DEF KeyInv

\* The payment that is added has a key no other payment and no other open insert has.
LEMMA CreateKeys ==
    ASSUME CallInv, KeyInv, NEW i \in Calls, Others(i), CommitsCreate(i)
    PROVE  KeyInv'
<1>1. /\ i \in EventIds /\ payments[i] = None /\ pc[i] = "inserted" /\ pc'[i] = "done"
      /\ request' = request
      /\ \A p \in EventIds \ {i} : payments'[p] = payments[p]
      /\ payments'[i] # None /\ payments'[i].money = Details(i)
      /\ payments'[i].key = request[i].key
      /\ response'[i] = [code |-> 201, payment |-> i] \/ response'[i].code = 500
  BY CreateFacts DEF CommitsCreate
<1>2. Kept
  BY <1>1 DEF Kept
<1>3. \A key : KeyHolders(key)' \subseteq KeyHolders(key) \cup {i}
  BY <1>1 DEF KeyHolders
<1>4. KeyExclusive'
  <2>1. SUFFICES ASSUME NEW j \in Calls, pc'[j] = "inserted", request[j].key # None
                 PROVE  KeyHolders(request[j].key)' = {}
    BY <1>1 DEF KeyInv, KeyExclusive, Others, KeyHolders
  <2>2. j # i /\ pc[j] = "inserted"
    BY <1>1, <2>1 DEF Others
  <2>3. KeyHolders(request[j].key) = {} /\ request[i].key # request[j].key
    BY <1>1, <2>1, <2>2 DEF KeyInv, KeyExclusive
  <2> QED
    BY <1>1, <1>3, <2>3 DEF KeyHolders
<1>5. UniqueKeys'
  <2>1. request[i].key # None => KeyHolders(request[i].key) = {}
    BY <1>1 DEF KeyInv, KeyExclusive
  <2> QED
    BY <1>1, <2>1 DEF KeyInv, UniqueKeys, KeyHolders
<1>6. CreateAnswer(i)' /\ ConflictAnswer(i)'
  <2>1. Details(i)' = Details(i)
    BY <1>1 DEF Details, Normalise
  <2>2. CASE response'[i] = [code |-> 201, payment |-> i]
    BY <1>1, <2>1, <2>2 DEF CreateAnswer, ConflictAnswer, Answered
  <2>3. CASE response'[i].code = 500
    BY <2>3 DEF CreateAnswer, ConflictAnswer, Answered
  <2> QED
    BY <1>1, <2>2, <2>3
<1>7. CreateAnswers'
  BY <1>2, <1>6, AnswersKept DEF CreateAnswers, Others
<1> QED
  BY <1>4, <1>5, <1>7 DEF KeyInv

\* Every step keeps the invariant.
LEMMA NextKeyInv == CallInv /\ KeyInv /\ [Next]_vars => KeyInv'
<1> SUFFICES ASSUME CallInv, KeyInv, [Next]_vars PROVE KeyInv'
  OBVIOUS
<1>1. CASE UNCHANGED vars
  BY <1>1 DEF vars, tables, KeyInv, KeyExclusive, UniqueKeys, CreateAnswers, CreateAnswer,
              ConflictAnswer, Answered, KeyHolders, Details, Normalise
<1>2. ASSUME NEW i \in Calls, response'[i] = None PROVE CreateAnswer(i)' /\ ConflictAnswer(i)'
  BY <1>2 DEF CreateAnswer, ConflictAnswer, Answered
<1>3. ASSUME NEW i \in Calls, request'[i].op # "create"
      PROVE  CreateAnswer(i)' /\ ConflictAnswer(i)'
  BY <1>3 DEF CreateAnswer, ConflictAnswer, Answered
<1>4. ASSUME NEW i \in Calls, response'[i].code \in {400, 404, 500}
      PROVE  CreateAnswer(i)' /\ ConflictAnswer(i)'
  BY <1>4 DEF CreateAnswer, ConflictAnswer, Answered
<1>5. ASSUME NEW i \in Calls, Others(i), NEW r \in Requests, Begins(i, r) PROVE KeyInv'
  <2>1. Kept /\ UNCHANGED payments /\ pc'[i] # "inserted" /\ request'[i] = r
    BY <1>5 DEF Begins, Kept, CallInv, TypeOK
  <2>2. \/ response'[i] = None
        \/ response'[i].code \in {400, 404}
        \/ r \in GetRequests
    BY <1>5 DEF Begins, CallInv, Unanswered
  <2>3. CreateAnswer(i)' /\ ConflictAnswer(i)'
    BY <1>2, <1>3, <1>4, <2>1, <2>2 DEF GetRequests
  <2> QED
    BY <1>5, <2>1, <2>3, KeysKept
<1>6. ASSUME NEW i \in Calls, Others(i), MovesOn(i) PROVE KeyInv'
  <2>1. Kept /\ UNCHANGED <<payments, request, response>> /\ pc[i] # "done"
    BY <1>6 DEF MovesOn, Kept, InsertPayment, UpdateRow
  <2>2. pc'[i] = "inserted" => InsertPayment(i)
    BY <1>6 DEF MovesOn
  <2>3. CreateAnswer(i)' /\ ConflictAnswer(i)'
    BY <1>2, <2>1 DEF CallInv, Unanswered
  <2> QED
    BY <1>6, <2>1, <2>2, <2>3, KeysKept
<1>7. ASSUME NEW i \in Calls, Others(i), AnswersOnly(i) PROVE KeyInv'
  <2>1. Kept /\ UNCHANGED <<payments, request>> /\ pc'[i] = "done"
    BY <1>7 DEF AnswersOnly, Kept
  <2>2. CASE response'[i].code \in {404, 500}
    BY <1>4, <1>7, <2>1, <2>2, KeysKept
  <2>3. CASE pc[i] = "read"
    BY <1>3, <1>7, <2>1, <2>3, KeysKept DEF CallInv, Updating, UpdateRequests
  <2>4. ASSUME NEW p \in KeyHolders(request[i].key),
               \/ /\ payments[p].money = Details(i)
                  /\ response'[i] = [code |-> 200, payment |-> p]
               \/ payments[p].money # Details(i) /\ response'[i].code = 409
        PROVE  KeyInv'
    <3>1. /\ p \in EventIds /\ payments[p] # None /\ payments[p].key = request[i].key
          /\ p \in KeyHolders(request[i].key)' /\ Details(i)' = Details(i)
      BY <2>1, <2>4 DEF KeyHolders, Details, Normalise
    <3>2. CASE payments[p].money = Details(i) /\ response'[i] = [code |-> 200, payment |-> p]
      <4>1. response'[i].code = 200 /\ response'[i].payment = p
        BY <3>2
      <4>2. CreateAnswer(i)' /\ ConflictAnswer(i)'
        BY <2>1, <3>1, <3>2, <4>1 DEF CreateAnswer, ConflictAnswer, Answered
      <4> QED
        BY <1>7, <2>1, <4>2, KeysKept
    <3>3. CASE payments[p].money # Details(i) /\ response'[i].code = 409
      <4>1. CreateAnswer(i)' /\ ConflictAnswer(i)'
        BY <2>1, <3>1, <3>3 DEF CreateAnswer, ConflictAnswer, Answered
      <4> QED
        BY <1>7, <2>1, <4>1, KeysKept
    <3> QED
      BY <2>4, <3>2, <3>3
  <2> QED
    BY <1>7, <2>2, <2>3, <2>4 DEF AnswersOnly
<1>8. ASSUME NEW i \in Calls, Others(i), CommitsUpdate(i) PROVE KeyInv'
  <2>1. request' = request /\ pc'[i] = "done" /\ request[i].op # "create"
    BY <1>8 DEF CommitsUpdate, CallInv, Updating, UpdateRequests
  <2>2. Kept /\ \A p \in EventIds : payments[p] = None => payments'[p] = None
    BY <1>8, UpdateFacts DEF Kept
  <2> QED
    BY <1>3, <1>8, <2>1, <2>2, KeysKept
<1> QED
  BY <1>1, <1>5, <1>6, <1>7, <1>8, NextForms, CreateKeys

\* The invariant of the idempotency keys holds in every behaviour.
LEMMA AlwaysKeyInv == Spec => []KeyInv
BY InitKeyInv, NextKeyInv, AlwaysCallInv, PTL DEF Spec

\* Client retry safety (README.md:271-275, payment_service.go:36-70): of all the
\* calls with one idempotency key at most one creates a payment, and every
\* successful answer names that payment, with the details its caller sent.
THEOREM RetriesSafe == Spec => []RetrySafe
<1>1. KeyInv => RetrySafe
  BY DEF KeyInv, CreateAnswers, CreateAnswer, UniqueKeys, RetrySafe, Answered
<1> QED
  BY <1>1, AlwaysKeyInv, PTL

\* 409 is answered only to a create whose key stands for other details.
THEOREM ConflictsReal == Spec => []ConflictIsReal
<1>1. KeyInv => ConflictIsReal
  BY DEF KeyInv, CreateAnswers, ConflictAnswer, ConflictIsReal
<1> QED
  BY <1>1, AlwaysKeyInv, PTL

-----------------------------------------------------------------------------
(***************************************************************************)
(* Updates.  The row of an open update is pending and locked by that call  *)
(* alone (RowExclusive), so a terminal status is never left, and each one  *)
(* has one event (StatusEvents).                                           *)
(***************************************************************************)
RowExclusive ==
    \A i \in Calls : pc[i] = "updated" =>
        /\ payments[request[i].id].status = "pending"
        /\ \A j \in Calls : (pc[j] = "updated" /\ request[j].id = request[i].id) => j = i

IsChange(e) == outbox[e] # None /\ outbox[e].type = PaymentStatusChangedEvent

StatusEvents ==
    \A e \in EventIds : IsChange(e) =>
        /\ outbox[e].payment \in EventIds /\ payments[outbox[e].payment] # None
        /\ outbox[e].payload.new_status \in TerminalStatuses
        /\ payments[outbox[e].payment].status = outbox[e].payload.new_status

UpdateAnswer(i) ==
    (Answered(i, {200}) /\ request[i].op = "update" /\ request[i].status \in TerminalStatuses)
        => /\ request[i].id \in EventIds /\ payments[request[i].id] # None
           /\ payments[request[i].id].status = request[i].status

UpdateAnswers == \A i \in Calls : UpdateAnswer(i)

RowInv == RowExclusive /\ StatusEvents /\ OutboxMatchesPayments /\ UpdateAnswers

\* At the start there is no payment, no event and no answer.
LEMMA InitRowInv == Init => RowInv
BY DEF Init, RowInv, RowExclusive, StatusEvents, IsChange, OutboxMatchesPayments, UpdateAnswers,
       UpdateAnswer, Answered, Calls

\* A step that writes nothing.
LEMMA RowsKept ==
    ASSUME CallInv, RowInv, NEW i \in Calls, Others(i), UNCHANGED <<payments, outbox>>,
           pc'[i] = "updated" => UpdateRow(i) /\ request' = request,
           UpdateAnswer(i)'
    PROVE  RowInv'
<1>1. RowExclusive'
  <2>1. CASE pc'[i] = "updated"
    <3>1. request' = request /\ pc[i] = "update" /\ ~RowLocked(i) /\ UpdateMatches(i)
      BY <2>1 DEF UpdateRow
    <3>2. payments[request[i].id].status = "pending"
      BY <3>1 DEF UpdateMatches, CallInv, Updating
    <3>3. \A j \in Calls \ {i} : ~(pc[j] = "updated" /\ request[j].id = request[i].id)
      BY <3>1 DEF RowLocked
    <3> QED
      BY <2>1, <3>1, <3>2, <3>3 DEF RowInv, RowExclusive, Others
  <2>2. CASE pc'[i] # "updated"
    BY <2>2 DEF RowInv, RowExclusive, Others
  <2> QED
    BY <2>1, <2>2
<1>2. StatusEvents' /\ OutboxMatchesPayments'
  BY DEF RowInv, StatusEvents, IsChange, OutboxMatchesPayments
<1>3. UpdateAnswers'
  BY DEF RowInv, UpdateAnswers, UpdateAnswer, Answered, Others
<1> QED
  BY <1>1, <1>2, <1>3 DEF RowInv

\* A new payment and its event; nobody has an event or a lock on it yet.
LEMMA CreateRows ==
    ASSUME CallInv, RowInv, NEW i \in Calls, Others(i), CommitsCreate(i)
    PROVE  RowInv'
<1>1. /\ i \in EventIds /\ payments[i] = None /\ outbox[i] = None
      /\ \A p \in EventIds \ {i} : payments'[p] = payments[p] /\ outbox'[p] = outbox[p]
      /\ payments'[i] # None /\ outbox'[i] # None
      /\ payments'[i].money = Details(i) /\ payments'[i].status = "pending"
      /\ outbox'[i].type = PaymentCreatedEvent /\ outbox'[i].payment = i
      /\ outbox'[i].payload = Details(i)
      /\ request[i] \in CreateRequests /\ request' = request
      /\ pc[i] = "inserted" /\ pc'[i] = "done"
  BY CreateFacts DEF CommitsCreate
<1>2. RowExclusive'
  <2>1. \A j \in Calls \ {i} : pc[j] = "updated" =>
          request[j].id \in EventIds /\ request[j].id # i
    BY <1>1 DEF CallInv, Updating, UpdateRequests
  <2> QED
    BY <1>1, <2>1 DEF RowInv, RowExclusive, Others
<1>3. \A e \in EventIds : IsChange(e)' <=> IsChange(e)
  BY <1>1 DEF IsChange, PaymentCreatedEvent, PaymentStatusChangedEvent
<1>4. \A e \in EventIds : IsChange(e) => e # i /\ outbox'[e] = outbox[e] /\ outbox[e].payment # i
  BY <1>1 DEF RowInv, StatusEvents, IsChange
<1>5. StatusEvents'
  BY <1>1, <1>3, <1>4 DEF RowInv, StatusEvents
<1>6. OutboxMatchesPayments'
  <2>1. \A p \in EventIds : payments'[p] # None <=>
          (outbox'[p] # None /\ outbox'[p].type = PaymentCreatedEvent)
    BY <1>1 DEF RowInv, OutboxMatchesPayments
  <2>2. ASSUME NEW p \in EventIds, payments'[p] # None
        PROVE  outbox'[p].payload = payments'[p].money /\ outbox'[p].payment = p
    BY <1>1, <2>2 DEF RowInv, OutboxMatchesPayments
  <2>3. ASSUME NEW p \in EventIds, payments'[p] # None, NEW s \in TerminalStatuses
        PROVE  payments'[p].status = s <=>
                 \E e \in EventIds : /\ IsChange(e)' /\ outbox'[e].payment = p
                                     /\ outbox'[e].payload.new_status = s
    <3>1. CASE p = i
      BY <1>1, <1>3, <1>4, <2>3, <3>1 DEF TerminalStatuses
    <3>2. CASE p # i
      BY <1>1, <1>3, <1>4, <2>3, <3>2 DEF RowInv, OutboxMatchesPayments, IsChange
    <3> QED
      BY <3>1, <3>2
  <2>4. \A e, f \in EventIds :
          (IsChange(e)' /\ IsChange(f)' /\ outbox'[e].payment = outbox'[f].payment) => e = f
    BY <1>3, <1>4 DEF RowInv, OutboxMatchesPayments, IsChange
  <2> QED
    BY <2>1, <2>2, <2>3, <2>4 DEF OutboxMatchesPayments, IsChange
<1>7. UpdateAnswers'
  <2>1. UpdateAnswer(i)'
    BY <1>1 DEF UpdateAnswer, CreateRequests
  <2>2. \A j \in Calls \ {i} : UpdateAnswer(j)'
    BY <1>1 DEF RowInv, UpdateAnswers, UpdateAnswer, Answered, Others
  <2> QED
    BY <2>1, <2>2 DEF UpdateAnswers
<1> QED
  BY <1>2, <1>5, <1>6, <1>7 DEF RowInv

\* A pending payment takes its terminal status, with the first event that says so.
LEMMA UpdateRows ==
    ASSUME CallInv, RowInv, NEW i \in Calls, Others(i), CommitsUpdate(i)
    PROVE  RowInv'
<1> DEFINE p == request[i].id
<1>1. /\ i \in EventIds /\ p \in EventIds /\ outbox[i] = None /\ payments[p] # None
      /\ request[i].status \in TerminalStatuses
      /\ \A q \in EventIds \ {p} : payments'[q] = payments[q]
      /\ \A e \in EventIds \ {i} : outbox'[e] = outbox[e]
      /\ payments'[p] # None /\ outbox'[i] # None
      /\ payments'[p].money = payments[p].money
      /\ payments'[p].status = request[i].status
      /\ outbox'[i].type = PaymentStatusChangedEvent /\ outbox'[i].payment = p
      /\ outbox'[i].payload.new_status = request[i].status
  BY UpdateFacts
<1>2. /\ request' = request /\ pc[i] = "updated" /\ pc'[i] = "done"
      /\ payments[i] = None /\ p # i
  BY <1>1 DEF CommitsUpdate, CallInv, Unanswered
<1>3. payments[p].status = "pending" /\ "pending" \notin TerminalStatuses
  BY <1>2 DEF RowInv, RowExclusive, TerminalStatuses
<1>4. \A e \in EventIds : IsChange(e) => e # i /\ outbox[e].payment # p
  BY <1>1, <1>3 DEF RowInv, StatusEvents, IsChange
<1>5. \A e \in EventIds : IsChange(e)' <=> (IsChange(e) \/ e = i)
  BY <1>1 DEF IsChange
<1> HIDE DEF p
<1>6. RowExclusive'
  <2>1. \A j \in Calls \ {i} : pc[j] = "updated" =>
          request[j].id \in EventIds /\ request[j].id # p
    BY <1>2 DEF CallInv, Updating, UpdateRequests, RowInv, RowExclusive, p
  <2> QED
    BY <1>1, <1>2, <2>1 DEF RowInv, RowExclusive, Others
<1>7. StatusEvents'
  <2>1. ASSUME NEW e \in EventIds, IsChange(e)'
        PROVE  /\ outbox'[e].payment \in EventIds /\ payments'[outbox'[e].payment] # None
               /\ outbox'[e].payload.new_status \in TerminalStatuses
               /\ payments'[outbox'[e].payment].status = outbox'[e].payload.new_status
    <3>1. CASE e = i
      BY <1>1, <3>1
    <3>2. CASE e # i
      BY <1>1, <1>4, <1>5, <2>1, <3>2 DEF RowInv, StatusEvents
    <3> QED
      BY <3>1, <3>2
  <2> QED
    BY <2>1 DEF StatusEvents
<1>8. OutboxMatchesPayments'
  <2>1. \A q \in EventIds : payments'[q] # None <=>
          (outbox'[q] # None /\ outbox'[q].type = PaymentCreatedEvent)
    BY <1>1, <1>2 DEF RowInv, OutboxMatchesPayments, PaymentCreatedEvent, PaymentStatusChangedEvent
  <2>2. ASSUME NEW q \in EventIds, payments'[q] # None
        PROVE  outbox'[q].payload = payments'[q].money /\ outbox'[q].payment = q
    BY <1>1, <1>2, <2>2 DEF RowInv, OutboxMatchesPayments
  <2>3. ASSUME NEW q \in EventIds, payments'[q] # None, NEW s \in TerminalStatuses
        PROVE  payments'[q].status = s <=>
                 \E e \in EventIds : /\ IsChange(e)' /\ outbox'[e].payment = q
                                     /\ outbox'[e].payload.new_status = s
    <3>1. CASE q = p
      BY <1>1, <1>4, <1>5, <2>3, <3>1
    <3>2. CASE q # p
      <4>1. payments[q] # None /\ payments'[q] = payments[q]
        BY <1>1, <2>3, <3>2
      <4>2. payments[q].status = s <=>
              \E e \in EventIds : /\ IsChange(e) /\ outbox[e].payment = q
                                  /\ outbox[e].payload.new_status = s
        BY <2>3, <4>1 DEF RowInv, OutboxMatchesPayments, IsChange
      <4> QED
        BY <1>1, <1>4, <1>5, <3>2, <4>1, <4>2
    <3> QED
      BY <3>1, <3>2
  <2>4. ASSUME NEW e \in EventIds, NEW f \in EventIds, IsChange(e)', IsChange(f)',
               outbox'[e].payment = outbox'[f].payment
        PROVE  e = f
    BY <1>1, <1>4, <1>5, <2>4 DEF RowInv, OutboxMatchesPayments, IsChange
  <2> QED
    BY <2>1, <2>2, <2>3, <2>4 DEF OutboxMatchesPayments, IsChange
<1>9. UpdateAnswers'
  <2>1. UpdateAnswer(i)'
    BY <1>1, <1>2 DEF UpdateAnswer, p
  <2>2. ASSUME NEW j \in Calls \ {i} PROVE UpdateAnswer(j)'
    <3>1. UpdateAnswer(j) /\ response'[j] = response[j] /\ request'[j] = request[j]
      BY DEF RowInv, UpdateAnswers, Others
    <3> QED
      BY <1>1, <1>3, <3>1 DEF UpdateAnswer, Answered
  <2> QED
    BY <2>1, <2>2 DEF UpdateAnswers
<1> QED
  BY <1>6, <1>7, <1>8, <1>9 DEF RowInv

\* Every step keeps the invariant.
LEMMA NextRowInv == CallInv /\ RowInv /\ [Next]_vars => RowInv'
<1> SUFFICES ASSUME CallInv, RowInv, [Next]_vars PROVE RowInv'
  OBVIOUS
<1>1. CASE UNCHANGED vars
  BY <1>1 DEF vars, tables, RowInv, RowExclusive, StatusEvents, IsChange, OutboxMatchesPayments,
              UpdateAnswers, UpdateAnswer, Answered
<1>2. ASSUME NEW i \in Calls, Others(i), NEW r \in Requests, Begins(i, r) PROVE RowInv'
  <2>1. UNCHANGED <<payments, outbox>> /\ pc'[i] # "updated" /\ request'[i] = r
    BY <1>2 DEF Begins, CallInv, TypeOK
  <2>2. \/ response'[i] = None
        \/ response'[i].code \in {400, 404}
        \/ r \in GetRequests
    BY <1>2 DEF Begins, CallInv, Unanswered
  <2>3. UpdateAnswer(i)'
    BY <2>1, <2>2 DEF UpdateAnswer, Answered, GetRequests
  <2> QED
    BY <1>2, <2>1, <2>3, RowsKept
<1>3. ASSUME NEW i \in Calls, Others(i), MovesOn(i) PROVE RowInv'
  <2>1. UNCHANGED <<payments, outbox, request, response>> /\ pc[i] # "done"
    BY <1>3 DEF MovesOn, InsertPayment, UpdateRow
  <2>2. pc'[i] = "updated" => UpdateRow(i)
    BY <1>3 DEF MovesOn
  <2>3. UpdateAnswer(i)'
    BY <2>1 DEF CallInv, Unanswered, UpdateAnswer, Answered
  <2> QED
    BY <1>3, <2>1, <2>2, <2>3, RowsKept
<1>4. ASSUME NEW i \in Calls, Others(i), AnswersOnly(i) PROVE RowInv'
  <2>1. UNCHANGED <<payments, outbox, request>> /\ pc'[i] = "done"
    BY <1>4 DEF AnswersOnly
  <2>2. \/ response'[i].code \in {404, 409, 500}
        \/ request[i] \in CreateRequests
        \/ /\ request[i].id \in EventIds /\ payments[request[i].id] # None
           /\ payments[request[i].id].status = request[i].status
    BY <1>4 DEF AnswersOnly, CallInv, Creating, Updating, UpdateRequests
  <2>3. UpdateAnswer(i)'
    BY <2>1, <2>2 DEF UpdateAnswer, Answered, CreateRequests
  <2> QED
    BY <1>4, <2>1, <2>3, RowsKept
<1> QED
  BY <1>1, <1>2, <1>3, <1>4, NextForms, CreateRows, UpdateRows

\* The invariant of the payment rows holds in every behaviour.
LEMMA AlwaysRowInv == Spec => []RowInv
BY InitRowInv, NextRowInv, AlwaysCallInv, PTL DEF Spec

\* Payments and outbox events change together, in one transaction: whichever calls
\* race, fail or lose their answer, a payment has its created event, a terminal
\* status has its one event, and no event is without its change
\* (payment_repository.go:34-84, 124-155).
THEOREM OutboxMatches == Spec => []OutboxMatchesPayments
BY AlwaysRowInv, PTL DEF RowInv

\* An update that was answered 200 holds from then on, also when two calls read
\* "pending" at the same time (README.md:324-329).
THEOREM UpdatesHold == Spec => []UpdateHolds
<1>1. RowInv => UpdateHolds
  BY DEF RowInv, UpdateAnswers, UpdateAnswer, UpdateHolds
<1> QED
  BY <1>1, AlwaysRowInv, PTL

-----------------------------------------------------------------------------
(***************************************************************************)
(* The refinement: a commit of a create accepts a payment, a commit of an  *)
(* update settles one, every other step stutters.                          *)
(***************************************************************************)
acceptedBar ==
    [p \in EventIds |-> IF payments[p] = None THEN None ELSE
        [money |-> payments[p].money, status |-> payments[p].status]]

\* The initial states correspond.
LEMMA InitRefines == Init => Abstract!Init
BY DEF Init, Abstract!Init

\* Every step accepts a payment, settles one, or leaves both tables as they are.
LEMMA StepRefines ==
    ASSUME CallInv, RowInv, [Next]_vars
    PROVE  [Abstract!Next]_(Abstract!vars)
<1>1. CASE UNCHANGED payments
  <2>1. acceptedBar' = acceptedBar
    BY <1>1 DEF acceptedBar
  <2> QED
    BY <2>1 DEF Abstract!vars, acceptedBar
<1>2. ASSUME NEW i \in Calls, CommitsCreate(i) PROVE Abstract!Next
  <2>1. /\ i \in EventIds /\ payments[i] = None /\ payments'[i] # None
        /\ \A p \in EventIds \ {i} : payments'[p] = payments[p]
        /\ payments'[i].money = Details(i) /\ payments'[i].status = "pending"
        /\ Details(i) \in Money
    BY <1>2, CreateFacts
  <2>2. acceptedBar' = [acceptedBar EXCEPT ![i] = [money |-> Details(i), status |-> "pending"]]
    BY <2>1 DEF acceptedBar
  <2>3. acceptedBar[i] = None
    BY <2>1 DEF acceptedBar
  <2>4. \E money \in Money : Abstract!Accept(i, money)
    BY <2>1, <2>2, <2>3 DEF Abstract!Accept, acceptedBar
  <2> QED
    BY <2>1, <2>4 DEF Abstract!Next, Abstract!Money, Money
<1>3. ASSUME NEW i \in Calls, CommitsUpdate(i) PROVE Abstract!Next
  <2> DEFINE p == request[i].id
  <2>1. /\ p \in EventIds /\ payments[p] # None /\ payments'[p] # None
        /\ \A q \in EventIds \ {p} : payments'[q] = payments[q]
        /\ payments'[p].money = payments[p].money /\ payments'[p].status = request[i].status
        /\ request[i].status \in TerminalStatuses
    BY <1>3, UpdateFacts
  <2>2. payments[p].status = "pending" /\ payments[p] \in Payments
    BY <1>3, <2>1 DEF CommitsUpdate, RowInv, RowExclusive, CallInv, TypeOK
  <2>3. /\ acceptedBar[p] = [money |-> payments[p].money, status |-> payments[p].status]
        /\ acceptedBar[p] # None /\ acceptedBar[p].status = "pending"
    BY <2>1, <2>2, ApiAssumption DEF acceptedBar, Payments
  <2>4. acceptedBar' = [acceptedBar EXCEPT ![p].status = request[i].status]
    <3>1. acceptedBar'[p] = [acceptedBar[p] EXCEPT !.status = request[i].status]
      BY <2>1, <2>3 DEF acceptedBar
    <3>2. \A q \in EventIds \ {p} : acceptedBar'[q] = acceptedBar[q]
      BY <2>1 DEF acceptedBar
    <3> QED
      BY <3>1, <3>2, <2>1 DEF acceptedBar
  <2>5. \E q \in EventIds, status \in TerminalStatuses : Abstract!Settle(q, status)
    BY <2>1, <2>3, <2>4 DEF Abstract!Settle, acceptedBar
  <2> QED
    BY <2>5 DEF Abstract!Next, Abstract!TerminalStatuses, TerminalStatuses
<1> QED
  BY <1>1, <1>2, <1>3, NextForms DEF vars, tables, Begins, MovesOn, AnswersOnly

\* The API accepts and settles payments the way PaymentLedger says
\* (payment_service.go:36-129).
THEOREM Refinement == Spec => ImplementsPaymentLedger
<1>1. CallInv /\ RowInv /\ [Next]_vars => [Abstract!Next]_(Abstract!vars)
  BY StepRefines
<1> QED
  BY <1>1, InitRefines, AlwaysCallInv, AlwaysRowInv, PTL
     DEF Spec, ImplementsPaymentLedger, Abstract!Spec
=============================================================================
