---------------------------- MODULE PaymentLedger ----------------------------
(***************************************************************************)
(* What FinFlow promises about money, without the outbox, Kafka, workers   *)
(* and operators in between: a payment is accepted with its details, may   *)
(* reach one terminal status, and is booked in the ledger at most once, as *)
(* a movement that debits and credits exactly the money of the payment.    *)
(* Booking does not wait for the status: the ledger acts on                *)
(* payment.created alone.                                                  *)
(*                                                                         *)
(* PaymentApi implements the left half of this specification, Pipeline all *)
(* of it.                                                                  *)
(***************************************************************************)
EXTENDS PaymentEvents, Sequences

VARIABLES accepted,  \* [EventIds -> the payment's money and status, or None]
          movements  \* Seq: the ledger's movements, in the order of booking

vars == <<accepted, movements>>

Init ==
    /\ accepted = [p \in EventIds |-> None]
    /\ movements = <<>>

Accept(p, money) ==
    /\ accepted[p] = None
    /\ accepted' = [accepted EXCEPT ![p] = [money |-> money, status |-> "pending"]]
    /\ UNCHANGED movements

Settle(p, status) ==
    /\ accepted[p] # None
    /\ accepted[p].status = "pending"
    /\ accepted' = [accepted EXCEPT ![p].status = status]
    /\ UNCHANGED movements

Movement(p, money) == [payment |-> p, debited |-> money, credited |-> money]

Book(p) ==
    /\ accepted[p] # None
    /\ \A i \in DOMAIN movements : movements[i].payment # p
    /\ movements' = Append(movements, Movement(p, accepted[p].money))
    /\ UNCHANGED accepted

Next ==
    \E p \in EventIds :
        \/ \E money \in Money : Accept(p, money)
        \/ \E status \in TerminalStatuses : Settle(p, status)
        \/ Book(p)

Spec == Init /\ [][Next]_vars
=============================================================================
