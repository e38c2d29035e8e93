------------------------------- MODULE Pipeline -------------------------------
(***************************************************************************)
(* From an accepted payment to the ledger: the payment API, the outbox     *)
(* publishers, the ledger consumers, the dead-letter replays and the       *)
(* retention runs over the tables and topics they share, on a calendar.    *)
(* Each component is an instance of its own module; a step of one leaves   *)
(* the others where they are.  Only payment.created events flow: the       *)
(* consumer drops the others unseen (LedgerConsumer!HandleIgnores).        *)
(*                                                                         *)
(* Time is counted in days, because the retention periods are.  A call, a  *)
(* batch, a message and a run take far less than a day, so the day changes *)
(* only between them.  Three windows bound how late a copy of an event can *)
(* be delivered; nothing in the code enforces them, they are properties of *)
(* the installation (infrastructure/postgres/README.md:64):                *)
(*   - Kafka keeps a message TopicRetention days, and the consumer group   *)
(*     lags less than that;                                                *)
(*   - a dead letter is replayed within ReplayWindow days;                 *)
(*   - a row whose write failed is written within IncidentWindow days.     *)
(***************************************************************************)
EXTENDS PaymentEvents, FiniteSets, Sequences

CONSTANTS Publishers, BatchSize, Partitions, PartitionOf,
          WriteAttempts,                                    \* OutboxPublisher
          Consumers, MaxAttempts,                           \* LedgerConsumer
          Replays,                                          \* DeadLetterReplay
          Sweeps, SweepBatch, OutboxRetention, ConsumedRetention,
          ReplayRetention,                                  \* Retention
          TopicRetention, ReplayWindow, IncidentWindow,     \* the windows, in days
          MaxDays,            \* bound: the calendar
          MaxWriteErrors,     \* bound: tries of the publishers to write that fail
          MaxLedgerDbErrors,  \* bound: failing database calls of the consumers
          MaxRebalances,      \* bound: partitions taken from a live owner
          MaxReplayFaults,    \* bound: faults of the replays
          MaxSweepFaults      \* bound: faults of the retention runs

\* What the retention command insists on: a bounded batch, positive durations.
loadConfig ==
    /\ SweepBatch \in 1..10000
    /\ OutboxRetention \in Nat \ {0}
    /\ ConsumedRetention \in Nat \ {0}
    /\ ReplayRetention \in Nat \ {0}

ASSUME RetentionAssumption == loadConfig /\ None \notin Sweeps

\* What the other components ask of their constants.
ASSUME ComponentsAssumption ==
    /\ BatchSize \in Nat \ {0} /\ WriteAttempts \in Nat \ {0}
    /\ PartitionOf \in [EventIds -> Partitions]
    /\ MaxAttempts \in Nat \ {0}
    /\ MaxWriteErrors \in Nat /\ MaxLedgerDbErrors \in Nat /\ MaxRebalances \in Nat
    /\ MaxReplayFaults \in Nat
    /\ IsFiniteSet(Replays)
    /\ None \notin Consumers
    /\ None \notin [money: Money, status: PaymentStatuses]

(***************************************************************************)
(* How long rows must be kept.  The consumed-event row written when an     *)
(* event was first booked may be needed for its last copy: one that the    *)
(* publisher writes again after an incident, that waits on the topic,      *)
(* fails all its attempts and is dead-lettered, is replayed at the end of  *)
(* the replay window and waits on the topic again, and so on for every     *)
(* run that may replay it.  The audit of a replay may be needed until the  *)
(* replayed copy, or one the publisher writes again after an incident, can *)
(* be replayed no more when it has been dead-lettered in its turn.         *)
(***************************************************************************)
ASSUME WindowsAssumption ==
    /\ TopicRetention \in Nat /\ ReplayWindow \in Nat /\ IncidentWindow \in Nat
    /\ ConsumedRetention >= IncidentWindow + TopicRetention
                               + Cardinality(Replays) * (ReplayWindow + TopicRetention)
    /\ ReplayRetention >= IncidentWindow + TopicRetention + ReplayWindow

VARIABLES payments,                                 \* the table payments
          outbox, topic, pubPc, batch, current, unacked, pubFaults,
          committed, owner, position, conPc, work, attempt,
          accounts, consumed, journal, deadLetters, conFaults,
          audit, republished, repPc, repEvent, repFaults,
          publishedAt, consumedAt, completedAt,     \* days of the tables' rows
          writtenAt, deadLetteredAt,                \* days of the topics' records
          clock, lock, sweepPc, rule, dryRun, sweepFaults

publisherVars == <<pubPc, batch, current, unacked, pubFaults>>
consumerVars  == <<committed, owner, position, conPc, work, attempt, accounts, journal,
                   deadLetters, conFaults>>
replayVars    == <<republished, repPc, repEvent, repFaults>>
sweepVars     == <<lock, sweepPc, rule, dryRun, sweepFaults>>
shared        == <<outbox, topic, consumed, audit>>
stamps        == <<publishedAt, consumedAt, completedAt, writtenAt, deadLetteredAt>>
vars == <<payments, publisherVars, consumerVars, replayVars, sweepVars, shared,
          stamps, clock>>

Publisher == INSTANCE OutboxPublisher WITH
    pc <- pubPc, faults <- pubFaults, Unwritable <- {}, MaxRefusals <- 0,
    MaxStops <- 0, MaxClaimErrors <- 0, MaxDbErrors <- 0

\* The consumers, and the queries on the tables they write.
Consumer == INSTANCE LedgerQueries WITH
    pc <- conPc, faults <- conFaults, Incoming <- {}, MaxMessages <- 0,
    MaxStops <- 0, MaxDbErrors <- MaxLedgerDbErrors, MaxKafkaErrors <- 0

\* The replay command sees of a dead letter the event id in its headers; the
\* consumer wrote it, so its schema and source topic are the configured ones.
Replay == INSTANCE DeadLetterReplay WITH
    Runs <- Replays, MaxDeadLetters <- 0, MaxFaults <- MaxReplayFaults,
    pc <- repPc, event <- repEvent, faults <- repFaults,
    deadLetters <- [i \in DOMAIN deadLetters |->
                      [event |-> deadLetters[i].message.event, allowed |-> TRUE]]

Sweep == INSTANCE Retention WITH pc <- sweepPc, faults <- sweepFaults

Init ==
    /\ payments = [p \in EventIds |-> None]
    /\ Publisher!Init
    /\ Consumer!Init
    /\ audit = [e \in EventIds |-> "none"]
    /\ republished = <<>>
    /\ repPc = [r \in Replays |-> "idle"]
    /\ repEvent = [r \in Replays |-> None]
    /\ repFaults = 0
    /\ Sweep!Init
    /\ publishedAt = [e \in EventIds |-> 0]
    /\ consumedAt = [e \in EventIds |-> 0]
    /\ completedAt = [e \in EventIds |-> 0]
    /\ writtenAt = [k \in Partitions |-> <<>>]
    /\ deadLetteredAt = <<>>
    /\ clock = 0

-----------------------------------------------------------------------------
(***************************************************************************)
(* published_at, consumed_at and completed_at are set by the statement     *)
(* that gives the row its state, a record's time by the broker.  A row     *)
(* that is gone has no time.                                               *)
(***************************************************************************)
Restamp(old, before, after) ==
    [e \in EventIds |-> IF e \notin after THEN 0 ELSE IF e \in before THEN old[e] ELSE clock]

Extended(old, length) == old \o [i \in 1..(length - Len(old)) |-> clock]

PublishedRows(table) == {e \in EventIds : table[e] # None /\ table[e].status = "published"}
CompletedAudits(table) == {e \in EventIds : table[e] \in {"succeeded", "failed"}}

Stamp ==
    /\ publishedAt' = Restamp(publishedAt, PublishedRows(outbox), PublishedRows(outbox'))
    /\ consumedAt' = Restamp(consumedAt, consumed, consumed')
    /\ completedAt' = Restamp(completedAt, CompletedAudits(audit), CompletedAudits(audit'))
    /\ writtenAt' = [k \in Partitions |-> Extended(writtenAt[k], Len(topic'[k]))]
    /\ deadLetteredAt' = Extended(deadLetteredAt, Len(deadLetters'))
    /\ UNCHANGED clock

-----------------------------------------------------------------------------
\* The payment API commits a payment and its event (PaymentApi!CreateCommit).
CreatePayment(p, money) ==
    /\ payments[p] = None
    /\ payments' = [payments EXCEPT ![p] = [money |-> money, status |-> "pending"]]
    /\ outbox' = [outbox EXCEPT ![p] = NewPaymentCreated(p, money)]
    /\ UNCHANGED <<topic, consumed, audit, publisherVars, consumerVars, replayVars, sweepVars>>
    /\ Stamp

PublisherStep(p) ==
    /\ \/ Publisher!ClaimSelect(p)
       \/ Publisher!ClaimCommit(p)
       \/ \E e \in EventIds :
            Publisher!WriteRetries(p, e) \/ Publisher!WriteAcked(p, e) \/ Publisher!WriteFails(p, e)
       \/ Publisher!MarkPublished(p)
       \/ Publisher!MarkFailed(p)
    /\ UNCHANGED <<payments, consumed, audit, consumerVars, replayVars, sweepVars>>
    /\ Stamp

ConsumerStep(c) ==
    /\ \/ \E k \in Partitions : Consumer!Assign(k, c) \/ Consumer!FetchMessage(c, k)
       \/ Consumer!HandleBookable(c)
       \/ Consumer!EnsureAccount(c, "cash", "cash", "payable")
       \/ Consumer!EnsureAccount(c, "payable", "merchant_payable", "insert")
       \/ Consumer!InsertConsumed(c) \/ Consumer!InsertDuplicate(c)
       \/ Consumer!TxCommit(c) \/ Consumer!TxCommitLost(c) \/ Consumer!DbFails(c)
       \/ Consumer!PublishDeadLetter(c) \/ Consumer!CommitMessages(c)
    /\ UNCHANGED <<payments, outbox, audit, publisherVars, replayVars, sweepVars>>
    /\ Stamp

(***************************************************************************)
(* A replay writes the key, the headers and the payload of the dead letter *)
(* to the payment events topic: the message the consumer gave up on.       *)
(***************************************************************************)
OriginalMessage(e) ==
    deadLetters[CHOOSE i \in DOMAIN deadLetters : deadLetters[i].message.event = e].message

Rewritten ==
    IF Len(republished') = Len(republished)
    THEN topic
    ELSE LET m == OriginalMessage(republished'[Len(republished')])
         IN  [topic EXCEPT ![PartitionOf[m.payment]] = Append(@, m)]

WithinReplayWindow(e) ==
    \E i \in DOMAIN deadLetters :
        deadLetters[i].message.event = e /\ clock <= deadLetteredAt[i] + ReplayWindow

ReplayStep(r) ==
    /\ UNCHANGED <<payments, outbox, consumed, publisherVars, consumerVars, sweepVars>>
    /\ \/ Replay!Begin(r) /\ repPc'[r] = "start" /\ WithinReplayWindow(repEvent'[r])
       \/ Replay!StartReplay(r) \/ Replay!AlreadyClaimed(r)
       \/ Replay!Republish(r) \/ Replay!RepublishRetries(r) \/ Replay!RepublishFails(r)
       \/ Replay!FinishReplay(r)
    /\ topic' = Rewritten
    /\ Stamp

SweepStep(s) ==
    /\ UNCHANGED <<payments, topic, publisherVars, consumerVars, replayVars>>
    /\ Sweep!Work(s) \/ Sweep!RuleFails(s) \/ Sweep!Kill(s)
    /\ UNCHANGED <<writtenAt, deadLetteredAt>>

(***************************************************************************)
(* The next day: no call is under way, the group has dealt with what the   *)
(* topic is about to drop, and no row waits longer than the incident       *)
(* window for the write that follows a failed one.                         *)
(***************************************************************************)
Resting ==
    /\ \A p \in Publishers : pubPc[p] = "idle"
    /\ \A c \in Consumers : conPc[c] = "fetching"
    /\ \A r \in Replays : repPc[r] \in {"idle"} \cup Replay!Ended
    /\ \A s \in Sweeps : sweepPc[s] = "idle"

NothingExpires ==
    \A k \in Partitions : \A i \in DOMAIN topic[k] :
        clock >= writtenAt[k][i] + TopicRetention =>
            i <= committed[k] /\ (owner[k] = None \/ i <= position[k])

NothingOverdue ==
    \A k \in Partitions : \A i \in DOMAIN topic[k] :
        (clock >= writtenAt[k][i] + IncidentWindow /\ outbox[topic[k][i].event] # None)
            => outbox[topic[k][i].event].status = "published"

Tick ==
    /\ clock < MaxDays
    /\ Resting
    /\ NothingExpires
    /\ NothingOverdue
    /\ clock' = clock + 1
    /\ UNCHANGED <<payments, publisherVars, consumerVars, replayVars, sweepVars,
                   shared, stamps>>

Next ==
    \/ \E p \in EventIds, money \in Money : CreatePayment(p, money)
    \/ \E p \in Publishers : PublisherStep(p)
    \/ \E c \in Consumers : ConsumerStep(c)
    \/ \E r \in Replays : ReplayStep(r)
    \/ \E s \in Sweeps : SweepStep(s)
    \/ Tick

Spec == Init /\ [][Next]_vars

-----------------------------------------------------------------------------
BookedMoney(transaction, direction) ==
    LET entry == CHOOSE x \in transaction.entries : x.direction = direction
    IN  [amount |-> entry.amount, currency |-> entry.account[2]]

Abstract == INSTANCE PaymentLedger WITH
    accepted <- payments,
    movements <- [i \in DOMAIN journal |->
                    [payment  |-> journal[i].payment,
                     debited  |-> BookedMoney(journal[i], "debit"),
                     credited |-> BookedMoney(journal[i], "credit")]]

\* The whole pipeline implements PaymentLedger: every payment is booked at most
\* once and for its own money, whatever the publisher, the consumer and the
\* replays repeat, although retention deletes the rows that suppress duplicates
\* (retention.go:46-59) while copies of their events can still arrive.
ImplementsPaymentLedger == Abstract!Spec

IsBooked(p) == \E i \in DOMAIN journal : journal[i].payment = p

\* No accepted payment is lost between the components: until it is booked, its
\* payment.created event is in an outbox row that retention must not delete, or
\* on the topic past the committed offset, or among the dead letters.
AccountedFor ==
    \A p \in EventIds : payments[p] # None =>
        \/ IsBooked(p)
        \/ outbox[p] # None /\ outbox[p].status # "published"
        \/ \E k \in Partitions : \E i \in DOMAIN topic[k] :
             i > committed[k] /\ topic[k][i].event = p
        \/ \E i \in DOMAIN deadLetters : deadLetters[i].message.event = p

BookedPayments(currency) ==
    {p \in EventIds : IsBooked(p) /\ payments[p].money.currency = currency}

\* Nothing is created or destroyed on the way: whatever is repeated, replayed and
\* deleted, the balances that GET /ledger/balances answers
\* (postgres_ledger_repository.go:105-147) are, in every currency, the sum of the
\* payments that are booked, each as it was accepted and counted once.
BalancesAddUp ==
    \A name \in {"cash", "merchant_payable"}, currency \in Currencies :
        LET account == <<name, currency>>
        IN  (IF account \in accounts THEN Consumer!ListBalances[account] ELSE 0)
                = Consumer!SumFunction([p \in BookedPayments(currency) |->
                                          payments[p].money.amount])

\* "A succeeded or in-progress event cannot be replayed again automatically"
\* (scripts/README.md:58), although the audit that says so is deleted in the
\* end: no two runs replay one event successfully.
ReplayedOnce ==
    \A r, s \in Replays :
        (repPc[r] = "ok" /\ repPc[s] = "ok" /\ repEvent[r] = repEvent[s]) => r = s
=============================================================================
