--------------------------- MODULE MCLedgerConsumer ---------------------------
(***************************************************************************)
(* Small instances of LedgerConsumer, with the queries on its tables.      *)
(***************************************************************************)
EXTENDS LedgerQueries, TLC

MCPartitionOf == [e \in EventIds |-> e % Cardinality(Partitions)]

Created(e) == MessageOf(e, NewPaymentCreated(e, [amount |-> 100, currency |-> "USD"]))

\* One payment among messages of every other kind.
MixedEvents ==
    {Created(1),
     MessageOf(2, NewPaymentStatusChanged(1, "succeeded")),
     [Created(1) EXCEPT !.event = None],
     [Created(2) EXCEPT !.payload = [error |-> "malformed"]],
     [Created(2) EXCEPT !.payload = [error |-> "invalid"]]}

\* Two payments of different amounts and a message without an event id.
TwoPayments ==
    {Created(1),
     MessageOf(2, NewPaymentCreated(2, [amount |-> 200, currency |-> "USD"])),
     [Created(1) EXCEPT !.event = None]}

\* What the theorem about the queries assumes of the messages holds of these.
ASSUME MCOneMessagePerPayment == OneMessagePerPayment

ConsumerSymmetry == Permutations(Consumers)
=============================================================================
