------------------------------ MODULE PaymentApi ------------------------------
(***************************************************************************)
(* The payment service's HTTP API: any number of concurrent calls that     *)
(* create, read and update payments in PostgreSQL (READ COMMITTED), each   *)
(* write adding its outbox event in the same transaction.                  *)
(*                                                                         *)
(* A call is identified by a number, which is also the id of the payment   *)
(* and of the outbox event it writes.  A write is split where another call *)
(* can interleave: the statement that takes the unique key or the row lock *)
(* and the commit that makes it visible and releases the lock.             *)
(***************************************************************************)
EXTENDS PaymentEvents

CONSTANTS Keys,           \* idempotency keys
          RawAmounts,     \* amounts a client may send
          RawCurrencies,  \* spellings of currencies a client may send
          Upper,          \* TrimSpace and ToUpper: spelling -> code, None if it is none
          MaxErrors       \* bound: calls that end with a database error or a crash

ASSUME ApiAssumption ==
    /\ RawAmounts \subseteq Nat /\ RawAmounts \ {0} \subseteq Amounts
    /\ Upper \in [RawCurrencies -> Currencies \cup {None}]
    /\ None \notin Keys /\ None \notin Currencies /\ None \notin Money
    /\ None \notin [money: Money, status: PaymentStatuses, key: Keys \cup {None}]
    /\ None \notin [money: Money, status: PaymentStatuses]
    /\ MaxErrors \in Nat

VARIABLES payments,  \* [EventIds -> Payments or None]: the table payments
          outbox,    \* [EventIds -> OutboxRows or None]: the table outbox_events
          request,   \* [EventIds -> Requests or None]: what the client asked
          pc,        \* [EventIds -> where the call stands]
          seen,      \* [EventIds -> the status UpdateStatus read, or None]
          response,  \* [EventIds -> Responses or None]: what the client was told
          errors     \* how many calls have failed

tables == <<payments, outbox>>
vars == <<tables, request, pc, seen, response, errors>>

Calls == EventIds

Payments == [money: Money, status: PaymentStatuses, key: Keys \cup {None}]

CreateRequests == [op: {"create"}, key: Keys \cup {None},
                   body: [amount: RawAmounts, currency: RawCurrencies]]
UpdateRequests == [op: {"update"}, id: EventIds, status: PaymentStatuses \cup {"unknown"}]
GetRequests == [op: {"get"}, id: EventIds]
Requests == CreateRequests \cup UpdateRequests \cup GetRequests

Responses == [code: {200, 201, 400, 404, 409, 500}, payment: EventIds \cup {None}]

Places == {"unborn", "insert", "inserted", "read", "update", "updated", "done"}

TypeOK ==
    /\ payments \in [EventIds -> Payments \cup {None}]
    /\ outbox \in [EventIds -> OutboxRows \cup {None}]
    /\ request \in [Calls -> Requests \cup {None}]
    /\ pc \in [Calls -> Places]
    /\ seen \in [Calls -> PaymentStatuses \cup {None}]
    /\ response \in [Calls -> Responses \cup {None}]
    /\ errors \in 0..MaxErrors

Init ==
    /\ payments = [p \in EventIds |-> None]
    /\ outbox = [e \in EventIds |-> None]
    /\ request = [i \in Calls |-> None]
    /\ pc = [i \in Calls |-> "unborn"]
    /\ seen = [i \in Calls |-> None]
    /\ response = [i \in Calls |-> None]
    /\ errors = 0

\* The call ends with this answer.
Answer(i, code, payment) ==
    /\ response' = [response EXCEPT ![i] = [code |-> code, payment |-> payment]]
    /\ pc' = [pc EXCEPT ![i] = "done"]

Goto(i, place) == pc' = [pc EXCEPT ![i] = place] /\ UNCHANGED response

-----------------------------------------------------------------------------
\* Slip: the currency is not validated.
NormaliseUnchecked(body) == [amount |-> body.amount, currency |-> Upper[body.currency]]

(***************************************************************************)
(* POST /payments.  Create normalises and validates; the request hash is a *)
(* hash of the normalised details, so equal hashes mean equal details.     *)
(***************************************************************************)
Normalise(body) ==
    IF body.amount > 0 /\ Upper[body.currency] # None
    THEN [amount |-> body.amount, currency |-> Upper[body.currency]]
    ELSE None

CreatePayment(i) ==
    /\ pc[i] = "unborn"
    /\ \E r \in CreateRequests :
         /\ request' = [request EXCEPT ![i] = r]
         /\ IF Normalise(r.body) = None THEN Answer(i, 400, None) ELSE Goto(i, "insert")
    /\ UNCHANGED <<tables, seen, errors>>

Details(i) == Normalise(request[i].body)

\* Slip: no unique index on idempotency_key, so nothing waits.
KeyNeverLocked(i) == FALSE

\* Slip: a transaction is left open when its call has been answered.
KeyNeverReleased(i) ==
    \E j \in Calls \ {i} : /\ pc[j] \in {"inserted", "done"}
                           /\ request[j].op = "create" /\ request[j].key = request[i].key

\* ON CONFLICT waits for a transaction that inserted the key and is still open.
KeyLocked(i) ==
    \E j \in Calls \ {i} : pc[j] = "inserted" /\ request[j].key = request[i].key

KeyHolders(key) == {p \in EventIds : payments[p] # None /\ payments[p].key = key}

\* The INSERT takes effect: there is no key, or it is free.
InsertPayment(i) ==
    /\ pc[i] = "insert"
    /\ \/ request[i].key = None
       \/ ~KeyLocked(i) /\ KeyHolders(request[i].key) = {}
    /\ Goto(i, "inserted")
    /\ UNCHANGED <<tables, request, seen, errors>>

\* Slip: the hash is taken of the request as it was spelled.
ReplayRaw(i) ==
    /\ pc[i] = "insert"
    /\ request[i].key # None
    /\ ~KeyLocked(i)
    /\ \E p \in KeyHolders(request[i].key) :
         IF payments[p].money = request[i].body THEN Answer(i, 200, p) ELSE Answer(i, 409, None)
    /\ UNCHANGED <<tables, request, seen, errors>>

\* The INSERT does nothing: the payment that has the key is looked up and its
\* request hash compared.
ReplayPayment(i) ==
    /\ pc[i] = "insert"
    /\ request[i].key # None
    /\ ~KeyLocked(i)
    /\ \E p \in KeyHolders(request[i].key) :
         IF payments[p].money = Details(i) THEN Answer(i, 200, p) ELSE Answer(i, 409, None)
    /\ UNCHANGED <<tables, request, seen, errors>>

StoreCreated(i) ==
    /\ payments' = [payments EXCEPT ![i] =
                      [money |-> Details(i), status |-> "pending", key |-> request[i].key]]
    /\ outbox' = [outbox EXCEPT ![i] = NewPaymentCreated(i, Details(i))]

CreateCommit(i) ==
    /\ pc[i] = "inserted"
    /\ StoreCreated(i)
    /\ Answer(i, 201, i)
    /\ UNCHANGED <<request, seen, errors>>

-----------------------------------------------------------------------------
(***************************************************************************)
(* GET /payments/{id}.                                                     *)
(***************************************************************************)
GetPayment(i) ==
    /\ pc[i] = "unborn"
    /\ \E r \in GetRequests :
         /\ request' = [request EXCEPT ![i] = r]
         /\ IF payments[r.id] = None THEN Answer(i, 404, None) ELSE Answer(i, 200, r.id)
    /\ UNCHANGED <<tables, seen, errors>>

-----------------------------------------------------------------------------
(***************************************************************************)
(* PATCH /payments/{id}/status.  UpdateStatus reads the payment, decides,  *)
(* and then updates the row only if it still has the status it read.       *)
(***************************************************************************)
UpdatePaymentStatus(i) ==
    /\ pc[i] = "unborn"
    /\ \E r \in UpdateRequests :
         /\ request' = [request EXCEPT ![i] = r]
         /\ IF r.status \in PaymentStatuses THEN Goto(i, "read") ELSE Answer(i, 400, None)
    /\ UNCHANGED <<tables, seen, errors>>

\* Slip: a terminal status can be left.
canTransitionFreely(from, to) == from # to

canTransition(from, to) == from = "pending" /\ to \in TerminalStatuses

ReadStatus(i) ==
    LET p == request[i].id
    IN  /\ pc[i] = "read"
        /\ \/ /\ payments[p] = None
              /\ Answer(i, 404, None)
              /\ UNCHANGED seen
           \/ /\ payments[p] # None
              /\ payments[p].status = request[i].status
              /\ Answer(i, 200, p)
              /\ UNCHANGED seen
           \/ /\ payments[p] # None
              /\ payments[p].status # request[i].status
              /\ ~canTransition(payments[p].status, request[i].status)
              /\ Answer(i, 409, None)
              /\ UNCHANGED seen
           \/ /\ payments[p] # None
              /\ payments[p].status # request[i].status
              /\ canTransition(payments[p].status, request[i].status)
              /\ seen' = [seen EXCEPT ![i] = payments[p].status]
              /\ Goto(i, "update")
        /\ UNCHANGED <<tables, request, errors>>

\* Slip: the condition is checked before the row lock is held.
RowNeverLocked(i) == FALSE

RowLocked(i) ==
    \E j \in Calls \ {i} : pc[j] = "updated" /\ request[j].id = request[i].id

\* Slip: WHERE id = $1 alone.
UpdateMatchesAlways(i) == TRUE

\* WHERE id = $1 AND status = $3, evaluated once the row lock is held.
UpdateMatches(i) == payments[request[i].id].status = seen[i]

UpdateRow(i) ==
    /\ pc[i] = "update"
    /\ ~RowLocked(i)
    /\ UpdateMatches(i)
    /\ Goto(i, "updated")
    /\ UNCHANGED <<tables, request, seen, errors>>

\* No row matched: scanPayment turns this into ErrPaymentNotFound.
UpdateNoRow(i) ==
    /\ pc[i] = "update"
    /\ ~RowLocked(i)
    /\ ~UpdateMatches(i)
    /\ Answer(i, 404, None)
    /\ UNCHANGED <<tables, request, seen, errors>>

StoreUpdated(i) ==
    LET p == request[i].id
    IN  /\ payments' = [payments EXCEPT ![p].status = request[i].status]
        /\ outbox' = [outbox EXCEPT ![i] = NewPaymentStatusChanged(p, request[i].status)]

UpdateCommit(i) ==
    /\ pc[i] = "updated"
    /\ StoreUpdated(i)
    /\ Answer(i, 200, request[i].id)
    /\ UNCHANGED <<request, seen, errors>>

-----------------------------------------------------------------------------
(***************************************************************************)
(* A database error, a client that went away or a crash of the process     *)
(* ends the call: an open transaction rolls back, or it has committed and  *)
(* only the answer is lost.  The client sees 500 at best.                  *)
(***************************************************************************)
CallFails(i) ==
    /\ pc[i] \in {"insert", "inserted", "read", "update", "updated"}
    /\ errors < MaxErrors
    /\ errors' = errors + 1
    /\ Answer(i, 500, None)
    /\ UNCHANGED <<tables, request, seen>>

CommitLost(i) ==
    /\ errors < MaxErrors
    /\ errors' = errors + 1
    /\ \/ pc[i] = "inserted" /\ StoreCreated(i)
       \/ pc[i] = "updated" /\ StoreUpdated(i)
    /\ Answer(i, 500, None)
    /\ UNCHANGED <<request, seen>>

Begin(i) == CreatePayment(i) \/ GetPayment(i) \/ UpdatePaymentStatus(i)

Proceed(i) ==
    \/ InsertPayment(i) \/ ReplayPayment(i) \/ CreateCommit(i)
    \/ ReadStatus(i) \/ UpdateRow(i) \/ UpdateNoRow(i) \/ UpdateCommit(i)

\* Every call has been answered; the server waits for the next one.
Idle == (\A i \in Calls : pc[i] = "done") /\ UNCHANGED vars

Next ==
    \/ \E i \in Calls : Begin(i) \/ Proceed(i) \/ CallFails(i) \/ CommitLost(i)
    \/ Idle

Spec == Init /\ [][Next]_vars

\* A handler that has begun runs on: each call has a goroutine of its own.
FairSpec == Spec /\ \A i \in Calls : WF_vars(Proceed(i))

-----------------------------------------------------------------------------
Answered(i, codes) == response[i] # None /\ response[i].code \in codes

\* Client retry safety (README.md:271-275): of all the calls that carry one
\* idempotency key, whatever their interleaving and whichever of them fail, at
\* most one creates a payment, every successful answer names that payment, and
\* it has the details the caller sent, however these were spelled.
RetrySafe ==
    \A i, j \in Calls :
        ( /\ Answered(i, {200, 201}) /\ Answered(j, {200, 201})
          /\ request[i].op = "create" /\ request[j].op = "create"
          /\ request[i].key # None /\ request[i].key = request[j].key )
        => /\ response[i].payment = response[j].payment
           /\ response[i].code = 201 /\ response[j].code = 201 => i = j
           /\ payments[response[i].payment].money = Details(i)

\* 409 is for a key reused with other details only: a faithful retry is never
\* turned away, and an accepted key never stands for two sets of details.
ConflictIsReal ==
    \A i \in Calls :
        (Answered(i, {409}) /\ request[i].op = "create") =>
            \E p \in KeyHolders(request[i].key) : payments[p].money # Details(i)

\* Payments and outbox events change together: a payment has one created event
\* with its details, a payment in a terminal status exactly one status_changed
\* event, with that status, and there is no event without its change, whichever
\* calls race, fail or lose their answer.
OutboxMatchesPayments ==
    /\ \A p \in EventIds :
         payments[p] # None <=> (outbox[p] # None /\ outbox[p].type = PaymentCreatedEvent)
    /\ \A p \in EventIds : payments[p] # None =>
         /\ outbox[p].payload = payments[p].money /\ outbox[p].payment = p
         /\ \A s \in TerminalStatuses : payments[p].status = s <=>
              \E e \in EventIds : /\ outbox[e] # None
                                  /\ outbox[e].type = PaymentStatusChangedEvent
                                  /\ outbox[e].payment = p
                                  /\ outbox[e].payload.new_status = s
    /\ \A e, f \in EventIds :
         (/\ outbox[e] # None /\ outbox[f] # None
          /\ outbox[e].type = PaymentStatusChangedEvent
          /\ outbox[f].type = PaymentStatusChangedEvent
          /\ outbox[e].payment = outbox[f].payment) => e = f

\* An update to a terminal status that was answered 200 holds from then on, also
\* when two updates read "pending" at the same time (README.md:324-329).
UpdateHolds ==
    \A i \in Calls :
        (Answered(i, {200}) /\ request[i].op = "update" /\ request[i].status \in TerminalStatuses)
            => payments[request[i].id].status = request[i].status

(***************************************************************************)
(* What the ledger does is not the API's business: no movement is booked.  *)
(***************************************************************************)
Abstract == INSTANCE PaymentLedger WITH
    accepted <- [p \in EventIds |-> IF payments[p] = None THEN None ELSE
                   [money |-> payments[p].money, status |-> payments[p].status]],
    movements <- <<>>

\* The API accepts and settles payments the way PaymentLedger says: a payment
\* appears pending with valid details, never disappears, keeps its details, and
\* takes one terminal status at most, whichever calls race, fail or lose their
\* answer (payment_service.go:36-129).
ImplementsPaymentLedger == Abstract!Spec

\* No call waits for ever on the key or the row another call has locked.
EventuallyAnswered ==
    \A i \in Calls : (pc[i] # "unborn") ~> (pc[i] = "done")

\* "repeating the current status is allowed" (README.md:328): a request for the
\* status the payment has is not refused.
RepeatingStatusAllowed ==
    [][\A i \in Calls :
         (/\ response[i] = None /\ request[i] # None
          /\ request[i].op = "update" /\ payments[request[i].id] # None
          /\ payments[request[i].id].status = request[i].status
          /\ response'[i] # None)
         => response'[i].code \in {200, 500}]_vars
=============================================================================
