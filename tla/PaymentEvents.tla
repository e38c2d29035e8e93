---------------------------- MODULE PaymentEvents ----------------------------
(***************************************************************************)
(* The vocabulary shared by the payment service and the ledger service:    *)
(* payment statuses, event types, the rows of outbox_events and the Kafka  *)
(* messages made of them.  payment-service/internal/event/payment_event.go *)
(* and ledger-service/internal/consumer/payment_consumer.go each declare   *)
(* their own copy of these constants.                                      *)
(*                                                                         *)
(* A uuid drawn by a service is a natural number: the number of the HTTP   *)
(* call that drew it.  Ids are therefore fresh, and created_at, which is   *)
(* the start of the transaction that writes the row, grows with the id;    *)
(* the order in which rows become visible is not constrained by the id.    *)
(***************************************************************************)
EXTENDS Naturals

CONSTANTS EventIds,    \* ids of calls, hence of payments and of outbox events
          Amounts,     \* amounts in cents
          Currencies,  \* normalised currency codes
          None         \* no row, no event, no owner

ASSUME EventIdsAssumption == EventIds \subseteq Nat
ASSUME AmountsAssumption == Amounts \subseteq Nat \ {0}

Money == [amount: Amounts, currency: Currencies]

PaymentStatuses  == {"pending", "succeeded", "failed"}
TerminalStatuses == {"succeeded", "failed"}

PaymentCreatedEvent       == "payment.created"
PaymentStatusChangedEvent == "payment.status_changed"
EventTypes == {PaymentCreatedEvent, PaymentStatusChangedEvent}

OutboxStatuses == {"pending", "publishing", "published", "failed"}

(***************************************************************************)
(* A payment.created payload is the money that moved, a                    *)
(* payment.status_changed payload is the new status (the previous one is   *)
(* always "pending").                                                      *)
(***************************************************************************)
Payloads == Money \cup [new_status: TerminalStatuses]

OutboxRows ==
    [type: EventTypes, payment: EventIds, payload: Payloads,
     status: OutboxStatuses, attempts: Nat]

ASSUME NoneAssumption == None \notin OutboxRows /\ None \notin EventIds

newPaymentEvent(payment, type, payload) ==
    [type |-> type, payment |-> payment, payload |-> payload,
     status |-> "pending", attempts |-> 0]

NewPaymentCreated(payment, money) ==
    newPaymentEvent(payment, PaymentCreatedEvent, money)

NewPaymentStatusChanged(payment, newStatus) ==
    newPaymentEvent(payment, PaymentStatusChangedEvent, [new_status |-> newStatus])

(***************************************************************************)
(* The Kafka message publishOne builds from the row of event e: the id and *)
(* the type travel as headers, the payment is the key, the payload is      *)
(* copied unchanged.                                                       *)
(***************************************************************************)
Messages == [event: EventIds, type: EventTypes, payment: EventIds, payload: Payloads]

MessageOf(e, row) ==
    [event |-> e, type |-> row.type, payment |-> row.payment, payload |-> row.payload]
=============================================================================
